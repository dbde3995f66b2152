\* A variable of each type, on a channel that comes and goes.
CONSTANTS
  int = int  string = string  bool = bool  time = time
  zero = zero  d1 = d1  d2 = d2  m = m
  Data = {d1, d2}
  SameType <- MCSameType
  NoData = NoData
  NullPV = NullPV
  NoReport = NoReport
  ScalarType = {int, string, bool, time}
  Datum <- MCDatum
  DefaultDatum = zero
  Convertible <- MCConvertible
  BoolType = bool
  TimestampType = time
  AlarmType = int
  TypeAttr <- MCTypeAttr
  Unparsable = Unparsable
  Meta = m
SPECIFICATION Spec
INVARIANTS
  TypeOK
  NotificationCatchesUp
  AvailableReadsAreReal
  NotifiesItsType
PROPERTIES
  ChangesAreNotified
