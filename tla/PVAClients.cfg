\* A variable of each kind and type, on process variables of each form.
CONSTANTS
  x1 = x1  x2 = x2
  Payload = {x1, x2}
  NoPayload = NoPayload
  Data <- MCData
  SameType <- MCSameType
  NoData = NoData
  NullPV = NullPV
  NoReport = NoReport
  TypeAttrs = {"absent", "empty", "unparsable", "scalar", "struct"}
SPECIFICATION Spec
INVARIANTS
  TypeOK
  NotificationCatchesUp
  AvailabilityIsNotified
  NotifiesItsType
PROPERTIES
  WritesAreReadable
  ChangesAreNotified
  UsableBecomesAvailable
