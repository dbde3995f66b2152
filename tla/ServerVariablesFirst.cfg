\* The variables may be torn down before the server.
CONSTANTS
  w1 = w1  w2 = w2  w3 = w3  a1 = a1  a2 = a2  v1 = v1  v2 = v2  v3 = v3
  v4 = v4  v5 = v5  c1 = c1  c2 = c2  c3 = c3  x1 = x1  x2 = x2
  Payload = {x1, x2}
  NoPayload = NoPayload
  Channel = {c1, c2}
  Variable <- MCVariable
  NoVariable = NoVariable
  NoPV = NoPV
  Workspace = {w1, w2, w3}
  Address = {a1, a2}
  AddressOf <- MCAddressOf
  WorkspaceOf <- MCWorkspaceOf
  Kind <- MCKind
  ChannelOf <- MCChannelOf
  TypeAttr <- MCTypeAttr
  ValueAttr <- MCValueAttr
  ParsedType <- MCParsedType
  Initial <- MCInitial
  Default = x1
  Refusable <- MCRefusable
  NoEntry = NoEntry
  NoFault = NoFault
  MaxEvents = 1
  RunsActionsAfterFailure = TRUE
  TeardownOrders <- BothOrders
SPECIFICATION Spec
INVARIANTS
  NotifiesItsType
\* The program may end: every workspace destroyed, or a fault.
CHECK_DEADLOCK FALSE
