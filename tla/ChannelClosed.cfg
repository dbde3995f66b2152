\* What the overview says of the connections of these instructions.
CONSTANTS
  r = r  w = w  c = c  n = n  x1 = x1  x2 = x2
  Instruction = {r, w}
  Kind <- ReadCAWritePVA
  Channel = {c}
  ChannelOf <- MCChannelOf
  Name = {n}
  NameOf <- MCNameOf
  HasVarName <- FromAttributes
  Literal <- SomeLiteral
  Payload = {x1}
  NoValue = NoValue
  NullPV = NullPV
  NoFault = NoFault
  Timeout = 1
  HaltsDuringTick = FALSE
SPECIFICATION Spec
INVARIANTS
  ConnectionClosedAfterwards
