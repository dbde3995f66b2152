\* Halts at any time, also from another thread during ExecuteSingle.
CONSTANTS
  r = r  w = w  c = c  n = n  x1 = x1  x2 = x2
  Instruction = {r, w}
  Kind <- ReadPVAWriteCA
  Channel = {c}
  ChannelOf <- MCChannelOf
  Name = {n}
  NameOf <- MCNameOf
  HasVarName <- FromVariable
  Literal <- NoLiteral
  Payload = {x1, x2}
  NoValue = NoValue
  NullPV = NullPV
  NoFault = NoFault
  Timeout = 1
  HaltsDuringTick = TRUE
SPECIFICATION Spec
INVARIANTS
  NullPVOnlyByHalt
  ExecutionInv
PROPERTIES
  MovesFreshValue
\* The program ends when it dereferences a null pointer.
CHECK_DEADLOCK FALSE
