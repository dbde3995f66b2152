\* Set-ups that fail, in workspaces that then drop their teardown actions.
CONSTANTS
  w1 = w1  w2 = w2  w3 = w3  a1 = a1  a2 = a2  v1 = v1  v2 = v2  v3 = v3
  v4 = v4  v5 = v5  c1 = c1  c2 = c2  c3 = c3  x1 = x1  x2 = x2
  Payload = {x1}
  NoPayload = NoPayload
  Channel = {c1, c2, c3}
  Variable <- FailVariable
  NoVariable = NoVariable
  NoPV = NoPV
  Workspace = {w1, w2}
  Address = {a1, a2}
  AddressOf <- FailAddressOf
  WorkspaceOf <- FailWorkspaceOf
  Kind <- FailKind
  ChannelOf <- FailChannelOf
  TypeAttr <- FailTypeAttr
  ValueAttr <- FailValueAttr
  ParsedType <- FailParsedType
  Initial <- FailInitial
  Default = x1
  Refusable <- FailRefusable
  NoEntry = NoEntry
  NoFault = NoFault
  MaxEvents = 1
  RunsActionsAfterFailure = FALSE
  TeardownOrders <- BothOrders
SPECIFICATION Spec
INVARIANTS
  NullServerOnlyAfterFailure
PROPERTIES
  PlainResetIsSafe
\* The program may end: every workspace destroyed, or a fault.
CHECK_DEADLOCK FALSE
