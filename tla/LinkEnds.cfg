\* A plain server variable and then an encoded one on the channel of a client
\* variable of either kind.
CONSTANTS
  w1 = w1  w2 = w2  a1 = a1  v1 = v1  v2 = v2  c1 = c1  x1 = x1  x2 = x2
  Payload = {x1, x2}
  NoPayload = NoPayload
  Channel = {c1}
  Variable = {v1, v2}
  NoVariable = NoVariable
  NoPV = NoPV
  Workspace = {w1, w2}
  Address = {a1}
  AddressOf <- MCAddressOf
  WorkspaceOf <- MCWorkspaceOf
  Kind <- MCKind
  ChannelOf <- MCChannelOf
  TypeAttr <- MCTypeAttr
  ValueAttr <- MCValueAttr
  ParsedType <- MCParsedType
  Initial <- MCInitial
  Default = x1
  Refusable <- MCRefusable
  NoEntry = NoEntry
  NoFault = NoFault
  MaxEvents = 2
  RunsActionsAfterFailure = TRUE
  TeardownOrders <- MCTeardownOrders
  LinkedAddress = a1
  LinkedChannel = c1
  TypeAttrs = {"absent", "scalar"}
  NoData = NoData
  NullPV = NullPV
  NoReport = NoReport
SPECIFICATION LinkSpec
INVARIANTS
  NoCallbackIntoDestroyedVariable
  EndsAgree
PROPERTIES
  ClientEnvironment
CHECK_DEADLOCK FALSE
