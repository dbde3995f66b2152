\* Calls that are halted, also from another thread during ExecuteSingle, and
\* repeated while earlier ones are still in flight.
CONSTANTS
  i1 = i1  i2 = i2
  Instruction = {i1, i2}
  CallId = {1, 2}
  HasOutput <- MCHasOutput
  Payload = {1}
  NoValue = NoValue
  NoCall = NoCall
  NoReply = NoReply
  NoFault = NoFault
  HaltsDuringTick = TRUE
SPECIFICATION Spec
INVARIANTS
  TypeOK
  WaitsForItsOwnCall
  ServedOncePerExecution
  InvalidFutureOnlyByHalt
  CallInv
PROPERTIES
  OneShot
\* The program ends when it uses an invalid future.
CHECK_DEADLOCK FALSE
