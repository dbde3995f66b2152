\* Executions that are halted and reset between two calls of ExecuteSingle.
CONSTANTS
  r = r  w = w  c = c  n = n  x1 = x1  x2 = x2
  Instruction = {r, w}
  Kind <- ReadCAWritePVA
  Channel = {c}
  ChannelOf <- MCChannelOf
  Name = {n}
  NameOf <- MCNameOf
  HasVarName <- FromVariable
  Literal <- NoLiteral
  Payload = {x1}
  NoValue = NoValue
  NullPV = NullPV
  NoFault = NoFault
  Timeout = 2
  HaltsDuringTick = FALSE
SPECIFICATION Spec
INVARIANTS
  TypeOK
  IdleHoldsNothing
PROPERTIES
  OneShot
