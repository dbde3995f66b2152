\* What the manual says of the replies that are written.
CONSTANTS
  i1 = i1  i2 = i2
  Instruction = {i1, i2}
  CallId = {1, 2}
  HasOutput <- MCHasOutput
  Payload = {1}
  NoValue = NoValue
  NoCall = NoCall
  NoReply = NoReply
  NoFault = NoFault
  HaltsDuringTick = FALSE
SPECIFICATION Spec
INVARIANTS
  OnlySuccessIsWritten
