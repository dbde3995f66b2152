------------------------- MODULE PvAccessLinkProofs -------------------------
(***************************************************************************)
(* For every configuration of servers and clients: server variables keep   *)
(* within what a client variable assumes of a process variable, and the    *)
(* workspaces at both ends of a channel agree on its value, if workspaces  *)
(* run their teardown actions also after a set-up that failed.             *)
(***************************************************************************)
EXTENDS PvAccessLink, PvAccessNotificationsProofs

-----------------------------------------------------------------------------
(* Values                                                                  *)

\* Whatever a variable publishes first, or writes later, can be in its process
\* variable.
LEMMA WrittenHolds ==
  ASSUME NEW v \in Variable, NEW t \in AnyType, NEW x \in Payload,
         Kind[v] = "plain" => t = ParsedType[v]
  PROVE  Holds(v, ToServer(v, TypedValue(t, x)))
<1>1. x # NoPayload
  BY PayloadAssumption
<1>2. CASE Kind[v] = "plain"
  <2>1. t \in {"scalar", "struct"}
    BY <1>2, ConfigurationAssumption
  <2> QED
    BY <1>1, <1>2, <2>1
       DEF Holds, ToServer, TypedValue, PackIntoStructIfScalar, PublishedForm, PVData,
           PVForms, PVClass, AnyValue, Form
<1>3. CASE Kind[v] # "plain"
  BY <1>1, <1>3
     DEF Holds, ToServer, TypedValue, Encode, EmptyValue, PVData, PVForms, PVClass,
         AnyValue, Form
<1> QED
  BY <1>2, <1>3

\* So can the initial value, of the type that the variable has, if it has one.
LEMMA InitialHolds ==
  ASSUME NEW v \in Variable, NEW t \in AnyType, Kind[v] = "plain" => t = ParsedType[v]
  PROVE  Holds(v, ToServer(v, GetInitialValue(v, t)))
<1> DEFINE x == IF ValueAttr[v] = "ok" THEN Initial[v] ELSE Default
<1>1. x \in Payload
  BY ConfigurationAssumption
<1> HIDE DEF x
<1>2. Holds(v, ToServer(v, TypedValue(t, x)))
  BY <1>1, WrittenHolds
<1> QED
  BY <1>2 DEF GetInitialValue, x

\* And what a client can put there.
LEMMA ClientValuesHold ==
  ASSUME NEW v, NEW d, Holds(v, d), NEW value \in ClientValues(d)
  PROVE  Holds(v, value)
<1>1. d \in PVData
  BY DEF Holds
<1>2. CASE d.form \in {"encoded", "garbage"}
  BY <1>2 DEF Holds, ClientValues, PVData, PVForms, PVClass, AnyValue, Form
<1>3. CASE d.form \in {"packed", "struct"}
  BY <1>3, PayloadAssumption
     DEF Holds, ClientValues, PVData, PVForms, PVClass, AnyValue, Form
<1> QED
  BY <1>1, <1>2, <1>3 DEF PVData, PVForms

-----------------------------------------------------------------------------
(* What a step of the servers does to the server of an address             *)

\* Its process variables stay as they are, but the server may be started.
KeepsPVs(a) ==
  /\ registry[a] # NoEntry
  /\ registry'[a] # NoEntry
  /\ \/ registry'[a].server = registry[a].server
     \/ /\ registry'[a].server = "started"
        /\ \E w \in Workspace : AddressOf[w] = a /\ RunSetupActions(w)
  /\ registry'[a].pvs = registry[a].pvs
  /\ registry'[a].callbacks = registry[a].callbacks

\* One of them changes.
ChangesPV(a) ==
  /\ registry[a] # NoEntry
  /\ \E c \in Channel, value \in AnyValue :
       /\ registry[a].pvs[c] # NoPV
       /\ Holds(registry[a].callbacks[c], value)
       /\ registry'[a] = Change(registry[a], c, value)

\* One is added to a server that is not started.
AddsPV(a) ==
  /\ GetServer(a).server # "started"
  /\ \E v \in Variable, value \in AnyValue :
       /\ Holds(v, value)
       /\ registry'[a] = AddVariable(GetServer(a), ChannelOf[v], value, v)

\* All of them go, or the server has none.
HasNoPVs(a) ==
  \/ registry'[a] = NoEntry
  \/ /\ registry[a] = NoEntry
     /\ registry'[a] \in {NewSharedServer, EnsureServer(NewSharedServer)}

ServerEffect(a) == KeepsPVs(a) \/ ChangesPV(a) \/ AddsPV(a) \/ HasNoPVs(a)

LEMMA SameServerEffect ==
  ASSUME NEW a \in Address, registry'[a] = registry[a]
  PROVE  ServerEffect(a)
BY DEF ServerEffect, KeepsPVs, HasNoPVs

LEMMA OwnerEffect ==
  ASSUME TypeOK, NEW w \in Workspace, OwnerStep(w), NEW a \in Address
  PROVE  ServerEffect(a)
<1> DEFINE b == AddressOf[w]
<1>1. b \in Address
  BY ConfigurationAssumption
<1>2. CASE \/ Create(w) \/ BeginSetup(w) \/ BeginTeardown(w) \/ FinishTeardown(w)
           \/ Destroy(w)
  BY <1>2, SameServerEffect DEF Create, BeginSetup, BeginTeardown, FinishTeardown, Destroy
<1>3. CASE RunSetupActions(w)
  <2>1. CASE registry' = registry
    BY <2>1, SameServerEffect
  <2>2. CASE registry' # registry
    <3>1. registry' = [registry EXCEPT ![b] = StartServer(@)] /\ registry[b] # NoEntry
      BY <1>3, <2>2 DEF RunSetupActions, RegistrySetup
    <3>2. CASE a = b
      <4>1. registry'[a] = StartServer(registry[a]) /\ registry[a] \in SharedServer
        BY <1>1, <3>1, <3>2 DEF TypeOK
      <4>2. /\ registry'[a] \in SharedServer
            /\ registry'[a].server = "started"
            /\ registry'[a].pvs = registry[a].pvs
            /\ registry'[a].callbacks = registry[a].callbacks
        BY <4>1, StartServerEffect
      <4> QED
        BY <1>3, <3>1, <3>2, <4>2, NoEntryIsNoServer DEF ServerEffect, KeepsPVs
    <3>3. CASE a # b
      BY <3>1, <3>3, SameServerEffect DEF TypeOK
    <3> QED
      BY <3>2, <3>3
  <2> QED
    BY <2>1, <2>2
<1>4. ASSUME NEW k \in ActionKeys, RunTeardownAction(w, k)
      PROVE  ServerEffect(a)
  <2>1. registry'[a] = NoEntry \/ registry'[a] = registry[a]
    BY <1>1, <1>4 DEF RunTeardownAction, RegistryTeardown, TypeOK
  <2> QED
    BY <2>1, SameServerEffect DEF ServerEffect, HasNoPVs
<1> QED
  BY <1>2, <1>3, <1>4 DEF OwnerStep

\* A call of a variable into its server, with a value that it can publish.
LEMMA CallServerEffect ==
  ASSUME TypeOK, WiringInv, ReportInv, fault = NoFault, NEW v \in Variable,
         NEW value \in AnyValue, NEW s1,
         LET s == GetServer(AddressFor(v))
         IN s1 = s \/ (s1 = SetServerValue(s, ChannelOf[v], value) /\ Holds(v, value)),
         CallServer(v, s1), NEW a \in Address
  PROVE  ServerEffect(a)
<1> DEFINE b == AddressFor(v)
           c == ChannelOf[v]
           s == GetServer(b)
<1>1. b \in Address /\ WorkspaceOf[v] \in Workspace /\ b = AddressOf[WorkspaceOf[v]] /\ c \in Channel
  BY VariableConfiguration
<1>2. PICK r : registry' = [registry EXCEPT ![b] = r] /\ (r = s \/ r = s1)
  BY DEF CallServer
<1>3. CASE a # b
  BY <1>2, <1>3, SameServerEffect DEF TypeOK
<1>4. CASE a = b /\ r = s
  <2>1. registry'[a] = s
    BY <1>1, <1>2, <1>4 DEF TypeOK
  <2> QED
    BY <1>4, <2>1, SameServerEffect DEF GetServer, ServerEffect, HasNoPVs
<1>5. CASE a = b /\ r # s
  <2>1. r = Change(s, c, value) /\ Serves(s, c) /\ Holds(v, value)
    BY <1>2, <1>5 DEF SetServerValue
  <2>2. registry[a] # NoEntry /\ s = registry[a]
    BY <1>5, <2>1 DEF Serves, GetServer, NewSharedServer
  <2>3. registry[a].callbacks[c] = v
    <3> DEFINE u == registry[a].callbacks[c]
    <3>1. u # NoVariable
      BY <1>1, <2>1, <2>2 DEF ReportInv, CallbackInv, Serves
    <3>2. /\ u \in Variable /\ ChannelOf[u] = c
          /\ \A x \in Workspace : Alive(x) /\ AddressOf[x] = a => x = WorkspaceOf[u]
      BY <1>1, <2>2, <3>1, CallbackOwner
    <3>3. Alive(WorkspaceOf[v])
      BY DEF CallServer, Usable, Alive
    <3> QED
      BY <1>1, <1>5, <3>2, <3>3, ChannelAssumption
  <2>4. registry'[a] = Change(registry[a], c, value)
    BY <1>1, <1>2, <1>5, <2>1, <2>2 DEF TypeOK
  <2> QED
    BY <1>1, <2>1, <2>2, <2>3, <2>4 DEF ServerEffect, ChangesPV, Serves
<1> QED
  BY <1>3, <1>4, <1>5

LEMMA VariableEffect ==
  ASSUME TypeOK, WiringInv, ReportInv, EntriesHaveServers, StartedAfterSetup, TypesAreOwn,
         fault = NoFault, NEW v \in Variable, VariableStep(v), NEW a \in Address
  PROVE  ServerEffect(a)
<1> DEFINE b == AddressFor(v)
           c == ChannelOf[v]
           s == GetServer(b)
<1>1. /\ b \in Address /\ WorkspaceOf[v] \in Workspace /\ b = AddressOf[WorkspaceOf[v]]
      /\ anytype[v] \in AnyType
  BY VariableConfiguration DEF TypeOK
<1>2. CASE SetupImpl(v) /\ SetupSucceeds(v)
  <2> DEFINE t == SetupType(v)
             value == ToServer(v, GetInitialValue(v, t))
  <2>1. t \in AnyType /\ value \in AnyValue
    <3>1. t \in AnyType
      BY InitialValueType DEF AnyType
    <3> QED
      BY <3>1, InitialValueType
  <2>2. Holds(v, value)
    <3>1. Kind[v] = "plain" => t = ParsedType[v]
      BY <1>2 DEF SetupSucceeds, TypeAccepted, SetupType
    <3> QED
      BY <2>1, <3>1, InitialHolds
  <2>3. s.server # "started"
    BY <1>1, <1>2 DEF StartedAfterSetup, SetupImpl, GetServer, NewSharedServer
  <2>4. registry' = [registry EXCEPT ![b] = AddVariable(s, c, value, v)]
    BY <1>2 DEF SetupSucceeds
  <2> HIDE DEF value, t, s
  <2>5. CASE a = b
    <3>1. registry'[a] = AddVariable(GetServer(a), ChannelOf[v], value, v)
      BY <1>1, <2>4, <2>5 DEF TypeOK, s
    <3>2. GetServer(a).server # "started"
      BY <2>3, <2>5 DEF s
    <3>3. AddsPV(a)
      BY <2>1, <2>2, <3>1, <3>2 DEF AddsPV
    <3> QED
      BY <3>3 DEF ServerEffect
  <2>6. CASE a # b
    BY <2>4, <2>6, SameServerEffect DEF TypeOK
  <2> QED
    BY <2>5, <2>6
<1>3. CASE TeardownImpl(v)
  BY <1>3, SameServerEffect DEF TeardownImpl
<1>7. CASE SetupImpl(v) /\ SetupThrows(v)
  <2>1. CASE registry'[a] = registry[a] \/ registry'[a] = NoEntry
    BY <2>1, SameServerEffect DEF ServerEffect, HasNoPVs
  <2>2. CASE registry[a] = NoEntry /\ registry'[a] # NoEntry
    <3>1. registry'[a] = EnsureServer(NewSharedServer)
      BY <1>7, <2>2, ThrowsMayLeaveServer DEF LeftByRefusal
    <3> QED
      BY <2>2, <3>1 DEF ServerEffect, HasNoPVs
  <2>3. CASE registry[a] # NoEntry
    <3>1. registry'[a] = registry[a]
      BY <1>7, <2>3, ThrowsEffect DEF EntriesHaveServers
    <3> QED
      BY <3>1, SameServerEffect
  <2> QED
    BY <2>1, <2>2, <2>3
<1>4. CASE GetValue(v)
  <2>1. EmptyValue \in AnyValue
    BY DEF EmptyValue, AnyValue, Form
  <2> QED
    BY <1>4, <2>1, CallServerEffect DEF GetValue
<1>5. CASE ResetImpl(v)
  <2> DEFINE value == ToServer(v, GetInitialValue(v, anytype[v]))
  <2>1. value \in AnyValue
    BY <1>1, InitialValueType
  <2>2. Holds(v, value)
    BY <1>1, <1>5, InitialHolds DEF ResetImpl, Resettable, TypesAreOwn
  <2> HIDE DEF value
  <2> QED
    BY <1>5, <2>1, <2>2, CallServerEffect DEF ResetImpl, value
<1>6. ASSUME NEW x \in Payload, SetValueImpl(v, x)
      PROVE  ServerEffect(a)
  <2> DEFINE t == IF Kind[v] = "plain" THEN anytype[v] ELSE "scalar"
             value == ToServer(v, TypedValue(t, x))
  <2>1. t \in AnyType /\ (Kind[v] = "plain" => t = ParsedType[v])
    BY <1>1, <1>6 DEF SetValueImpl, TypesAreOwn, AnyType
  <2>2. value \in AnyValue /\ Holds(v, value)
    BY <2>1, ToServerType, WrittenHolds
  <2> HIDE DEF value
  <2> QED
    BY <1>6, <2>2, CallServerEffect DEF SetValueImpl, value
<1> QED
  BY <1>2, <1>3, <1>4, <1>5, <1>6, <1>7 DEF VariableStep, SetupImpl

LEMMA ThreadOfServerEffect ==
  ASSUME TypeOK, ReportInv, ServersHold, NEW b \in Address, ServerStep(b), NEW a \in Address
  PROVE  ServerEffect(a)
<1>1. CASE Deliver(b)
  <2> DEFINE r == [registry[b] EXCEPT !.events = Tail(@)]
  <2>1. /\ registry[b] # NoEntry /\ registry[b].events # << >>
        /\ registry' = [registry EXCEPT ![b] = r]
    BY <1>1 DEF Deliver
  <2>2. registry[b] \in SharedServer
    BY <2>1 DEF TypeOK
  <2>3. /\ r \in SharedServer
        /\ r.server = registry[b].server
        /\ r.pvs = registry[b].pvs
        /\ r.callbacks = registry[b].callbacks
    BY <2>1, <2>2, TailEffect
  <2> HIDE DEF r
  <2>4. CASE a = b
    BY <2>1, <2>3, <2>4, NoEntryIsNoServer DEF ServerEffect, KeepsPVs, TypeOK
  <2>5. CASE a # b
    BY <2>1, <2>5, SameServerEffect DEF TypeOK
  <2> QED
    BY <2>4, <2>5
<1>2. ASSUME NEW c \in Channel, NEW value \in AnyValue, ClientPut(b, c, value)
      PROVE  ServerEffect(a)
  <2>1. /\ registry[b] # NoEntry /\ registry[b].pvs[c] # NoPV
        /\ value \in ClientValues(registry[b].pvs[c])
        /\ registry' = [registry EXCEPT ![b] = Change(registry[b], c, value)]
    BY <1>2 DEF ClientPut
  <2>2. Holds(registry[b].callbacks[c], value)
    <3>1. registry[b].callbacks[c] # NoVariable
      BY <2>1 DEF ReportInv, CallbackInv
    <3>2. Holds(registry[b].callbacks[c], registry[b].pvs[c])
      BY <2>1, <3>1 DEF ServersHold, ServerHolds
    <3> QED
      BY <2>1, <3>2, ClientValuesHold
  <2>3. CASE a = b
    BY <2>1, <2>2, <2>3 DEF ServerEffect, ChangesPV, TypeOK
  <2>4. CASE a # b
    BY <2>1, <2>4, SameServerEffect DEF TypeOK
  <2> QED
    BY <2>3, <2>4
<1> QED
  BY <1>1, <1>2 DEF ServerStep

\* The invariant of the servers.
ServersInv ==
  /\ TypeOK /\ WiringInv /\ ReportInv /\ EntriesHaveServers
  /\ StartedAfterSetup /\ TypesAreOwn /\ SetUpTypesAccepted /\ ServersHold

LEMMA StepEffect ==
  ASSUME ServersInv, Next, NEW a \in Address
  PROVE  ServerEffect(a)
BY OwnerEffect, VariableEffect, ThreadOfServerEffect DEF ServersInv, Next

-----------------------------------------------------------------------------
(* The invariant of the servers                                            *)

\* A server that is there after a step holds what its variables publish, if it
\* did so before.
LEMMA HoldsAfterStep ==
  ASSUME TypeOK, NEW a \in Address, ServerEffect(a), registry'[a] # NoEntry,
         registry[a] # NoEntry => ServerHolds(registry[a])
  PROVE  ServerHolds(registry'[a])
<1> DEFINE s == GetServer(a)
           r == registry'[a]
<1>1. s \in SharedServer /\ ServerHolds(s)
  BY GetServerType DEF GetServer, NewSharedServer, ServerHolds
<1>2. CASE KeepsPVs(a)
  BY <1>2 DEF KeepsPVs, ServerHolds
<1>3. CASE HasNoPVs(a)
  BY <1>3 DEF HasNoPVs, NewSharedServer, EnsureServer, ServerHolds
<1>4. CASE ChangesPV(a)
  <2>1. s = registry[a]
    BY <1>4 DEF ChangesPV, GetServer
  <2>2. PICK c \in Channel, value \in AnyValue :
          Holds(s.callbacks[c], value) /\ r = Change(s, c, value)
    BY <1>4, <2>1 DEF ChangesPV
  <2>3. /\ r.server = s.server /\ r.callbacks = s.callbacks
        /\ \A d \in Channel : r.pvs[d] = IF d = c THEN value ELSE s.pvs[d]
    BY <1>1, <2>2, ChangeEffect
  <2> HIDE DEF s, r
  <2> QED
    BY <1>1, <2>2, <2>3 DEF ServerHolds, r
<1>5. CASE AddsPV(a)
  <2>1. PICK v \in Variable, value \in AnyValue :
          Holds(v, value) /\ r = AddVariable(s, ChannelOf[v], value, v)
    BY <1>5 DEF AddsPV
  <2>2. ChannelOf[v] \in Channel
    BY VariableConfiguration
  <2>3. /\ r.server # "null"
        /\ r.pvs[ChannelOf[v]] = value /\ r.callbacks[ChannelOf[v]] = v
        /\ \A d \in Channel \ {ChannelOf[v]} :
             r.pvs[d] = s.pvs[d] /\ r.callbacks[d] = s.callbacks[d]
    BY <1>1, <2>1, <2>2, AddVariableEffect
  <2> HIDE DEF s, r
  <2> QED
    BY <1>1, <2>1, <2>3 DEF ServerHolds, r
<1> QED
  BY <1>2, <1>3, <1>4, <1>5 DEF ServerEffect

\* Only the setup actions of its workspace start a server.
LEMMA StartedByStep ==
  ASSUME TypeOK, NEW a \in Address, ServerEffect(a),
         registry'[a] # NoEntry, registry'[a].server = "started"
  PROVE  \/ registry[a] # NoEntry /\ registry[a].server = "started"
         \/ \E w \in Workspace : AddressOf[w] = a /\ RunSetupActions(w)
<1>1. CASE KeepsPVs(a)
  BY <1>1 DEF KeepsPVs
<1>2. CASE HasNoPVs(a)
  BY <1>2 DEF HasNoPVs, NewSharedServer, EnsureServer
<1>3. CASE ChangesPV(a)
  BY <1>3, ChangeEffect DEF ChangesPV, TypeOK
<1>4. CASE AddsPV(a)
  <2>1. GetServer(a) \in SharedServer /\ GetServer(a).server # "started"
    BY <1>4, GetServerType DEF AddsPV
  <2>2. PICK c, value, v : registry'[a] = AddVariable(GetServer(a), c, value, v)
    BY <1>4 DEF AddsPV
  <2> QED
    BY <2>1, <2>2 DEF AddVariable, EnsureServer, SharedServer
<1> QED
  BY <1>1, <1>2, <1>3, <1>4 DEF ServerEffect

\* Only BeginSetup leads into the set-up of a workspace.
LEMMA SetupBegins ==
  ASSUME TypeOK, Next, NEW w \in Workspace, phase'[w] \in {"setup", "failed"}
  PROVE  phase[w] \in {"setup", "failed"} \/ (phase[w] = "new" /\ registry' = registry)
<1>1. ASSUME NEW x \in Workspace, OwnerStep(x)
      PROVE  phase[w] \in {"setup", "failed"} \/ (phase[w] = "new" /\ registry' = registry)
  <2>1. CASE BeginSetup(x)
    BY <2>1 DEF BeginSetup, TypeOK
  <2>2. CASE \/ Create(x) \/ RunSetupActions(x) \/ BeginTeardown(x) \/ FinishTeardown(x)
             \/ Destroy(x) \/ \E k \in ActionKeys : RunTeardownAction(x, k)
    BY <2>2 DEF Create, RunSetupActions, BeginTeardown, FinishTeardown, Destroy,
                RunTeardownAction, TypeOK
  <2> QED
    BY <1>1, <2>1, <2>2 DEF OwnerStep
<1>2. ASSUME NEW v \in Variable, VariableStep(v)
      PROVE  phase[w] \in {"setup", "failed"}
  <2>1. CASE SetupImpl(v)
    <3>1. WorkspaceOf[v] \in Workspace /\ phase[WorkspaceOf[v]] = "setup"
      BY <2>1, VariableConfiguration DEF SetupImpl
    <3> QED
      BY <2>1, <3>1 DEF SetupImpl, SetupThrows, SetupSucceeds, TypeOK
  <2>2. CASE ~SetupImpl(v)
    BY <1>2, <2>2 DEF VariableStep, TeardownImpl, GetValue, ResetImpl, SetValueImpl, CallServer
  <2> QED
    BY <2>1, <2>2
<1>3. ASSUME NEW b \in Address, ServerStep(b)
      PROVE  phase[w] \in {"setup", "failed"}
  BY <1>3 DEF ServerStep, Deliver, ClientPut
<1> QED
  BY <1>1, <1>2, <1>3 DEF Next

LEMMA NextStarted ==
  ASSUME ServersInv, Next
  PROVE  StartedAfterSetup'
<1> SUFFICES ASSUME NEW w \in Workspace, phase'[w] \in {"setup", "failed"},
                    registry'[AddressOf[w]] # NoEntry,
                    registry'[AddressOf[w]].server = "started"
             PROVE  FALSE
  BY DEF StartedAfterSetup
<1> DEFINE a == AddressOf[w]
<1>1. a \in Address /\ ServerEffect(a)
  BY ConfigurationAssumption, StepEffect
<1>2. TypeOK /\ ExclusiveAddresses /\ StartedAfterSetup /\ fault = NoFault
  BY DEF ServersInv, WiringInv, Next
<1>3. CASE phase[w] \in {"setup", "failed"}
  <2>1. PICK x \in Workspace : AddressOf[x] = a /\ RunSetupActions(x)
    BY <1>1, <1>2, <1>3, StartedByStep DEF StartedAfterSetup
  <2>2. x = w
    BY <1>2, <1>3, <2>1 DEF ExclusiveAddresses, Alive, RunSetupActions
  <2> QED
    BY <1>2, <2>1, <2>2 DEF RunSetupActions, TypeOK
<1>4. CASE phase[w] = "new" /\ registry' = registry
  <2>1. PICK x \in Workspace : AddressOf[x] = a /\ phase[x] \in Active
    BY <1>1, <1>4, UnusedServer DEF ServersInv, ReportInv, OwnedInv, LeftByRefusal
  <2>2. x = w
    BY <1>2, <1>4, <2>1 DEF ExclusiveAddresses, Alive, Active
  <2> QED
    BY <1>4, <2>1, <2>2 DEF Active
<1> QED
  BY <1>2, <1>3, <1>4, SetupBegins

LEMMA NextTypes ==
  ASSUME TypeOK, TypesAreOwn, Next
  PROVE  TypesAreOwn'
<1>1. ASSUME NEW v \in Variable, SetupImpl(v) \/ TeardownImpl(v)
      PROVE  TypesAreOwn'
  <2>1. anytype' = anytype \/ \E t \in {"empty", SetupType(v)} : anytype' = [anytype EXCEPT ![v] = t]
    BY <1>1 DEF SetupImpl, SetupThrows, SetupSucceeds, TeardownImpl
  <2> QED
    BY <2>1 DEF TypesAreOwn, SetupType, TypeOK
<1>2. CASE anytype' = anytype
  BY <1>2 DEF TypesAreOwn
<1>3. \/ anytype' = anytype
      \/ \E v \in Variable : SetupImpl(v) \/ TeardownImpl(v)
  <2>1. \A w \in Workspace : OwnerStep(w) => anytype' = anytype
    BY DEF OwnerStep, Create, BeginSetup, RunSetupActions, BeginTeardown, FinishTeardown,
           Destroy, RunTeardownAction
  <2>2. \A v \in Variable : VariableStep(v) =>
          anytype' = anytype \/ SetupImpl(v) \/ TeardownImpl(v)
    BY DEF VariableStep, GetValue, ResetImpl, SetValueImpl, CallServer
  <2>3. \A b \in Address : ServerStep(b) => anytype' = anytype
    BY DEF ServerStep, Deliver, ClientPut
  <2> QED
    BY <2>1, <2>2, <2>3 DEF Next
<1> QED
  BY <1>1, <1>2, <1>3

\* Only its own SetupImpl sets a variable up.
LEMMA NextSetUp ==
  ASSUME TypeOK, Next, NEW v \in Variable, SetUp(v)'
  PROVE  SetUp(v) \/ SetupSucceeds(v)
<1> DEFINE w == WorkspaceOf[v]
<1>1. w \in Workspace /\ v \in VariablesOf(w)
  BY VariableConfiguration DEF VariablesOf
<1>2. phase'[w] = "running" \/ (phase'[w] = "setup" /\ v \notin todo'[w])
  BY DEF SetUp
<1>3. ASSUME NEW x \in Workspace, OwnerStep(x)
      PROVE  SetUp(v)
  <2>1. CASE x # w
    <3>1. phase'[w] = phase[w] /\ todo'[w] = todo[w]
      BY <1>1, <1>3, <2>1 DEF OwnerStep, Create, BeginSetup, RunSetupActions, BeginTeardown,
         FinishTeardown, Destroy, RunTeardownAction, TypeOK
    <3> QED
      BY <1>2, <3>1 DEF SetUp
  <2>2. CASE x = w
    BY <1>1, <1>2, <1>3, <2>2 DEF OwnerStep, Create, BeginSetup, RunSetupActions,
       BeginTeardown, FinishTeardown, Destroy, RunTeardownAction, TypeOK, SetUp
  <2> QED
    BY <2>1, <2>2
<1>4. ASSUME NEW u \in Variable, VariableStep(u)
      PROVE  SetUp(v) \/ SetupSucceeds(v)
  <2>1. WorkspaceOf[u] \in Workspace
    BY VariableConfiguration
  <2>2. CASE SetupImpl(u) /\ SetupThrows(u)
    BY <1>1, <1>2, <2>1, <2>2 DEF SetupThrows, TypeOK, SetUp
  <2>3. CASE SetupImpl(u) /\ SetupSucceeds(u)
    <3>1. CASE u = v
      BY <2>3, <3>1
    <3>2. CASE u # v
      BY <1>1, <1>2, <2>1, <2>3, <3>2 DEF SetupSucceeds, TypeOK, SetUp
    <3> QED
      BY <3>1, <3>2
  <2>4. CASE TeardownImpl(u)
    BY <1>1, <1>2, <2>1, <2>4 DEF TeardownImpl, TypeOK, SetUp
  <2>5. CASE ~SetupImpl(u) /\ ~TeardownImpl(u)
    BY <1>2, <1>4, <2>5 DEF VariableStep, GetValue, ResetImpl, SetValueImpl, CallServer, SetUp
  <2> QED
    BY <1>4, <2>2, <2>3, <2>4, <2>5 DEF SetupImpl
<1>5. ASSUME NEW a \in Address, ServerStep(a)
      PROVE  SetUp(v)
  BY <1>2, <1>5 DEF ServerStep, Deliver, ClientPut, SetUp
<1> QED
  BY <1>3, <1>4, <1>5 DEF Next

LEMMA InitServers == Init => ServersInv
<1> SUFFICES ASSUME Init PROVE ServersInv
  OBVIOUS
<1>1. StartedAfterSetup /\ TypesAreOwn /\ ServersHold
  BY ConfigurationAssumption DEF Init, StartedAfterSetup, TypesAreOwn, ServersHold
<1>2. SetUpTypesAccepted
  BY VariableConfiguration DEF Init, SetUpTypesAccepted, SetUp
<1> QED
  BY <1>1, <1>2, InitType, InitWiring, InitReports, InitEntries DEF ServersInv

LEMMA StepServers ==
  ASSUME RunsActionsAfterFailure, ServersInv, [Next]_vars
  PROVE  ServersInv'
<1>1. (TypeOK /\ WiringInv /\ ReportInv)'
  BY StepType, StepWiring, StepReports DEF ServersInv
<1>4. EntriesHaveServers'
  BY NextEntries DEF ServersInv, EntriesHaveServers, vars
<1>2. CASE Next
  <2>1. ServersHold'
    BY <1>2, StepEffect, HoldsAfterStep DEF ServersInv, ServersHold, ServerHolds, Holds,
       PublishedForm
  <2>2. SetUpTypesAccepted'
    BY <1>2, NextSetUp DEF ServersInv, SetUpTypesAccepted, SetupSucceeds, TypeAccepted
  <2> QED
    BY <1>1, <1>2, <1>4, <2>1, <2>2, NextStarted, NextTypes DEF ServersInv
<1>3. CASE UNCHANGED vars
  BY <1>1, <1>3, <1>4 DEF ServersInv, vars, StartedAfterSetup, TypesAreOwn, SetUpTypesAccepted,
     SetUp, TypeAccepted, ServersHold, ServerHolds, Holds, PublishedForm
<1> QED
  BY <1>2, <1>3

-----------------------------------------------------------------------------
(* The process variable between both ends                                  *)

\* A process variable has a callback and a value of its variable.
LEMMA PublishedHolds ==
  ASSUME ServersInv, NEW a \in Address, NEW c \in Channel,
         registry[a] # NoEntry, registry[a].pvs[c] # NoPV
  PROVE  /\ registry[a].server # "null"
         /\ registry[a].callbacks[c] # NoVariable
         /\ Holds(registry[a].callbacks[c], registry[a].pvs[c])
         /\ registry[a].pvs[c] \in PVData
BY DEF ServersInv, ReportInv, CallbackInv, ServersHold, ServerHolds, Holds

\* What a step of the servers makes of the channel: it comes or goes with the
\* value that it has, or changes its value within its type, or changes it
\* while it is not there.
LEMMA ChannelEffect ==
  ASSUME ServersInv, ServersInv', ChannelInv, ServerEffect(LinkedAddress)
  PROVE  LET n == ChannelOn(registry'[LinkedAddress])
         IN /\ n.up \in BOOLEAN /\ n.data \in PVData
            /\ \/ n.data = channel.data
               \/ n.up = channel.up /\ (n.up => <<channel.data, n.data>> \in PVSameType)
<1> DEFINE a == LinkedAddress
           c == LinkedChannel
           s == registry[a]
           r == registry'[a]
           n == ChannelOn(r)
<1>1. a \in Address /\ c \in Channel /\ TypeOK
  BY LinkAssumption DEF ServersInv
<1>2. channel.up \in BOOLEAN /\ channel.data \in PVData
  BY DEF ChannelInv
<1>3. n.up = (Published(r) /\ r.server = "started")
  BY DEF ChannelOn
<1>4. n.data = IF Published(r) THEN r.pvs[c] ELSE channel.data
  BY DEF ChannelOn
<1>5. channel.up <=> Published(s) /\ s.server = "started"
  BY DEF ChannelInv
<1>6. Published(s) => channel.data = s.pvs[c]
  BY DEF ChannelInv
<1>7. s # NoEntry /\ s.pvs[c] # NoPV => Published(s) /\ Holds(s.callbacks[c], s.pvs[c])
  BY <1>1, PublishedHolds DEF Published, Serves
<1>8. n.data \in PVData
  <2>1. ASSUME Published(r)
        PROVE  r.pvs[c] \in PVData
    <3>1. r # NoEntry /\ r.pvs[c] # NoPV
      BY <2>1 DEF Published, Serves
    <3>2. CallbackInv(a)' /\ ServerHolds(r)
      BY <1>1, <3>1 DEF ServersInv, ReportInv, ServersHold, ServerHolds, Holds, PublishedForm
    <3>3. r.callbacks[c] # NoVariable
      BY <1>1, <3>1, <3>2 DEF CallbackInv
    <3> QED
      BY <1>1, <3>2, <3>3 DEF ServerHolds, Holds
  <2> QED
    BY <1>2, <1>4, <2>1
<1> HIDE DEF n
<1>9. CASE KeepsPVs(a)
  <2>1. Published(r) => Published(s) /\ r.pvs[c] = s.pvs[c]
    BY <1>7, <1>9 DEF Published, Serves, KeepsPVs
  <2> QED
    BY <1>3, <1>4, <1>6, <1>8, <2>1 DEF n
<1>10. CASE HasNoPVs(a)
  <2>1. ~Published(r)
    <3>1. CASE r = EnsureServer(NewSharedServer)
      BY <1>1, <3>1, UnusedServer DEF Published, Serves
    <3>2. CASE r # EnsureServer(NewSharedServer)
      BY <1>10, <3>2 DEF HasNoPVs, Published, Serves, NewSharedServer
    <3> QED
      BY <3>1, <3>2
  <2> QED
    BY <1>3, <1>4, <1>8, <2>1 DEF n
<1>11. CASE ChangesPV(a)
  <2>1. PICK d \in Channel, value \in AnyValue :
          s.pvs[d] # NoPV /\ Holds(s.callbacks[d], value) /\ r = Change(s, d, value)
    BY <1>11 DEF ChangesPV
  <2>2. s # NoEntry /\ s \in SharedServer /\ r # NoEntry
    BY <1>1, <1>11, <2>1, ChangeEffect, NoEntryIsNoServer DEF ChangesPV, TypeOK
  <2>3. /\ r.server = s.server
        /\ \A e \in Channel : r.pvs[e] = IF e = d THEN value ELSE s.pvs[e]
    BY <2>1, <2>2, ChangeEffect
  <2>4. value # NoPV
    BY SharedServerAssumption
  <2>5. Published(r) <=> Published(s)
    BY <1>1, <2>1, <2>2, <2>3, <2>4 DEF Published, Serves
  <2>6. CASE d # c
    <3>1. r.pvs[c] = s.pvs[c]
      BY <1>1, <2>3, <2>6
    <3> QED
      BY <1>3, <1>4, <1>6, <1>8, <2>5, <3>1 DEF n
  <2>7. CASE d = c
    <3>1. Published(s) /\ Holds(s.callbacks[c], s.pvs[c]) /\ Holds(s.callbacks[c], value)
      BY <1>7, <2>1, <2>2, <2>7
    <3>2. <<s.pvs[c], value>> \in PVSameType
      BY <3>1 DEF Holds, PVSameType
    <3>3. n.data = value /\ channel.data = s.pvs[c] /\ n.up = channel.up
      BY <1>1, <1>2, <1>3, <1>4, <1>5, <1>6, <2>3, <2>5, <2>7, <3>1
    <3> QED
      BY <1>3, <1>8, <3>2, <3>3 DEF n
  <2> QED
    BY <2>6, <2>7
<1>12. CASE AddsPV(a)
  <2>1. GetServer(a) \in SharedServer /\ GetServer(a).server # "started"
    BY <1>1, <1>12, GetServerType DEF AddsPV
  <2>2. PICK d, value, v : r = AddVariable(GetServer(a), d, value, v)
    BY <1>12 DEF AddsPV
  <2>3. r.server # "started"
    BY <2>1, <2>2 DEF AddVariable, EnsureServer, SharedServer
  <2>4. ~channel.up
    BY <1>5, <2>1 DEF GetServer, Published
  <2> QED
    BY <1>2, <1>3, <1>8, <2>3, <2>4 DEF n
<1> QED
  BY <1>9, <1>10, <1>11, <1>12 DEF ServerEffect

\* A step of the servers is one that a client expects of the network.
LEMMA ServerEndStep ==
  ASSUME ServersInv, ServersInv', ChannelInv, ServerEnd
  PROVE  /\ ChannelInv'
         /\ Client!Network \/ UNCHANGED <<channel, pv, report, puts>>
<1> DEFINE n == ChannelOn(registry'[LinkedAddress])
<1>1. /\ n.up \in BOOLEAN /\ n.data \in PVData
      /\ \/ n.data = channel.data
         \/ n.up = channel.up /\ (n.up => <<channel.data, n.data>> \in PVSameType)
  BY LinkAssumption, StepEffect, ChannelEffect DEF ServerEnd
<1>2. channel \in [up : BOOLEAN, data : PVData]
  BY DEF ChannelInv
<1>3. channel' = n /\ n = [up |-> n.up, data |-> n.data] /\ UNCHANGED <<pv, report, puts>>
  BY DEF ServerEnd, ChannelOn, clientVars
<1>4. ChannelInv'
  BY <1>1, <1>3 DEF ChannelInv, ChannelOn, Published
<1> HIDE DEF n
<1>5. CASE n.data = channel.data
  <2>1. CASE n.up = channel.up
    BY <1>2, <1>3, <1>4, <1>5, <2>1
  <2>2. CASE n.up # channel.up
    <3>1. channel.up => channel' = [channel EXCEPT !.up = FALSE]
      BY <1>1, <1>2, <1>3, <1>5, <2>2
    <3>2. ~channel.up => channel' = [channel EXCEPT !.up = TRUE]
      BY <1>1, <1>2, <1>3, <1>5, <2>2
    <3> QED
      BY <1>3, <1>4, <3>1, <3>2 DEF Client!Network, Client!Appears, Client!Vanishes
  <2> QED
    BY <2>1, <2>2
<1>6. CASE n.data # channel.data
  <2>1. channel' = [channel EXCEPT !.data = n.data]
    BY <1>1, <1>2, <1>3, <1>6
  <2>2. Client!Changes(n.data)
    BY <1>1, <1>3, <1>6, <2>1 DEF Client!Changes
  <2> QED
    BY <1>1, <1>4, <2>2 DEF Client!Network
<1> QED
  BY <1>4, <1>5, <1>6

\* A put of the client is one of the server's clients' puts, or is refused.
LEMMA PutStep ==
  ASSUME ServersInv, ChannelInv, fault = NoFault, PutArrives
  PROVE  [Next]_vars /\ ChannelInv'
<1> DEFINE a == LinkedAddress
           c == LinkedChannel
<1>1. a \in Address /\ c \in Channel /\ TypeOK
  BY LinkAssumption DEF ServersInv
<1>2. CASE channel.up /\ <<channel.data, Head(puts)>> \in PVSameType
  <2> DEFINE value == Head(puts)
             s == registry[a]
             r == Change(s, c, value)
  <2>1. ClientPut(a, c, value) /\ channel' = [channel EXCEPT !.data = value]
    BY <1>2 DEF PutArrives, Client!AppliesPut
  <2>2. value \in PVData /\ value \in AnyValue
    BY <1>2 DEF PVSameType, PVData
  <2>3. Next
    BY <1>1, <2>1, <2>2 DEF Next, ServerStep
  <2>4. s # NoEntry /\ s.server = "started" /\ s \in SharedServer /\ registry'[a] = r
    BY <1>1, <2>1 DEF ClientPut, TypeOK
  <2>5. /\ r \in SharedServer /\ r # NoEntry
        /\ r.server = "started" /\ r.pvs[c] = value /\ value # NoPV
    BY <1>1, <2>2, <2>4, ChangeEffect, NoEntryIsNoServer, SharedServerAssumption
  <2> HIDE DEF r, value
  <2>6. /\ channel' \in [up : BOOLEAN, data : PVData]
        /\ channel'.up /\ channel'.data = value
    BY <1>2, <2>1, <2>2 DEF ChannelInv
  <2>7. ChannelInv'
    BY <2>4, <2>5, <2>6 DEF ChannelInv, Published, Serves
  <2> QED
    BY <2>3, <2>7
<1>3. CASE ~(channel.up /\ <<channel.data, Head(puts)>> \in PVSameType)
  <2>1. UNCHANGED <<vars, channel>>
    BY <1>3 DEF PutArrives, Client!AppliesPut
  <2> QED
    BY <2>1 DEF vars, ChannelInv, Published
<1> QED
  BY <1>2, <1>3

\* Every step of the composed system is a step of the servers, or leaves them
\* alone, and is a step of a client variable on a network, or leaves it alone.
LEMMA StepOfBothEnds ==
  ASSUME RunsActionsAfterFailure, ServersInv, ChannelInv, [LinkNext]_linkVars
  PROVE  /\ ServersInv' /\ ChannelInv'
         /\ [Next]_vars
         /\ [Client!Next]_(Client!vars)
<1>1. CASE LinkNext /\ ServerEnd
  <2>1. ServersInv'
    BY <1>1, StepServers DEF ServerEnd
  <2>2. /\ ChannelInv'
        /\ Client!Network \/ UNCHANGED <<channel, pv, report, puts>>
    BY <1>1, <2>1, ServerEndStep
  <2> QED
    BY <1>1, <2>1, <2>2 DEF ServerEnd, clientVars, Client!Next, Client!vars, Client!pvVars
<1>2. CASE LinkNext /\ PutArrives
  <2>1. [Next]_vars /\ ChannelInv'
    BY <1>2, PutStep DEF LinkNext
  <2>2. Client!AppliesPut /\ UNCHANGED <<kind, attr, clientPhase, clientType, clientNotified>>
    BY <1>2 DEF PutArrives, clientVars
  <2> QED
    BY <2>1, <2>2, StepServers DEF Client!Next, Client!Network
<1>3. CASE ClientOwner
  <2>1. UNCHANGED <<vars, channel>>
    BY <1>3 DEF ClientOwner, Client!SetupImpl, Client!TeardownImpl, Client!TeardownType,
                Client!SetValueImpl, Client!CreatePV, Client!DestroyPV, Client!Sends,
                Client!pvVars
  <2>2. Client!Next
    BY <1>3 DEF ClientOwner, Client!Next
  <2> QED
    BY <2>1, <2>2, StepServers DEF ChannelInv, Published, vars
<1>4. CASE ClientThread \/ ClientCallback
  <2>1. UNCHANGED <<vars, channel>>
    BY <1>4 DEF ClientThread, ClientCallback, Client!Callback, Client!TakeReport,
                Client!PVThread, Client!Connects, Client!Updates, Client!Disconnects,
                Client!Receives
  <2>2. Client!Next
    BY <1>4 DEF ClientThread, ClientCallback, Client!Next
  <2> QED
    BY <2>1, <2>2, StepServers DEF ChannelInv, Published, vars
<1>5. CASE UNCHANGED linkVars
  <2>1. UNCHANGED vars /\ UNCHANGED channel /\ UNCHANGED Client!vars
    BY <1>5 DEF linkVars, clientVars, Client!vars, Client!pvVars
  <2> QED
    BY <2>1, StepServers DEF ChannelInv, Published, vars
<1> QED
  BY <1>1, <1>2, <1>3, <1>4, <1>5 DEF LinkNext

-----------------------------------------------------------------------------
(* The client variable                                                     *)

\* What is proved of a client variable on its own, on a network that may do
\* anything.
ClientTheory == INSTANCE PvAccessClientsProofs WITH
  Data <- PVData, SameType <- PVSameType,
  phase <- clientPhase, anytype <- clientType, notified <- clientNotified

\* The process variables of this network are such as PvAccessClients takes
\* them to be.
LEMMA ClientAssumptionsHold ==
  /\ ClientTheory!PayloadAssumption
  /\ ClientTheory!ClientPVAssumption
  /\ ClientTheory!ClientAssumption
<1>1. PVData \subseteq AnyValue \ {EmptyValue}
  BY DEF PVData, PVForms, EmptyValue
<1>2. ClientTheory!PayloadAssumption
  BY PayloadAssumption DEF ClientTheory!PayloadAssumption
<1>3. ClientTheory!ClientPVAssumption
  BY LinkAssumption DEF ClientTheory!ClientPVAssumption, PVSameType
<1>4. ClientTheory!ClientAssumption
  BY <1>1, LinkAssumption
     DEF ClientTheory!ClientAssumption, ClientTheory!AnyValue, ClientTheory!Form,
         ClientTheory!EmptyValue, AnyValue, Form, EmptyValue
<1> QED
  BY <1>2, <1>3, <1>4

\* Client and ClientTheory are the same variable: their definitions agree.
LEMMA SameObject ==
  /\ Client!pvVars = ClientTheory!pvVars
  /\ Client!NewPV = ClientTheory!NewPV
  /\ Client!IsConnected <=> ClientTheory!IsConnected
  /\ Client!PVTypeOK <=> ClientTheory!PVTypeOK
  /\ Client!PVInit <=> ClientTheory!PVInit
  /\ Client!CreatePV <=> ClientTheory!CreatePV
  /\ Client!DestroyPV <=> ClientTheory!DestroyPV
  /\ Client!TakeReport <=> ClientTheory!TakeReport
  /\ \A d : Client!Sends(d) <=> ClientTheory!Sends(d)
<1> USE DEF Client!pvVars, ClientTheory!pvVars, Client!NewPV, ClientTheory!NewPV,
            Client!IsConnected, ClientTheory!IsConnected, Client!ReceivedData,
            ClientTheory!ReceivedData
<1> QED
  BY DEF Client!PVTypeOK, ClientTheory!PVTypeOK, Client!PVInit, ClientTheory!PVInit,
         Client!CreatePV, ClientTheory!CreatePV, Client!DestroyPV, ClientTheory!DestroyPV,
         Client!TakeReport, ClientTheory!TakeReport, Client!Sends, ClientTheory!Sends

LEMMA SameThreads ==
  /\ Client!PVThread <=> ClientTheory!PVThread
  /\ Client!Network <=> ClientTheory!Network
<1>1. \A p : Client!Receives(p) <=> ClientTheory!Receives(p)
  BY DEF Client!Receives, ClientTheory!Receives
<1>2. /\ Client!Connects <=> ClientTheory!Connects
      /\ Client!Updates <=> ClientTheory!Updates
      /\ Client!Disconnects <=> ClientTheory!Disconnects
  BY <1>1, SameObject DEF Client!Connects, ClientTheory!Connects, Client!Updates,
     ClientTheory!Updates, Client!Disconnects, ClientTheory!Disconnects
<1>3. /\ Client!Appears <=> ClientTheory!Appears
      /\ Client!Vanishes <=> ClientTheory!Vanishes
      /\ Client!AppliesPut <=> ClientTheory!AppliesPut
      /\ \A d : Client!Changes(d) <=> ClientTheory!Changes(d)
  BY DEF Client!Appears, ClientTheory!Appears, Client!Vanishes, ClientTheory!Vanishes,
         Client!AppliesPut, ClientTheory!AppliesPut, Client!Changes, ClientTheory!Changes
<1> QED
  BY <1>2, <1>3 DEF Client!PVThread, ClientTheory!PVThread, Client!Network,
     ClientTheory!Network

LEMMA SameConversions ==
  /\ Client!EmptyValue = ClientTheory!EmptyValue
  /\ Client!AnyType = ClientTheory!AnyType
  /\ Client!AnyValue = ClientTheory!AnyValue
  /\ Client!Inputs = ClientTheory!Inputs
  /\ \A p : Client!Received(p) = ClientTheory!Received(p)
  /\ \A value : /\ Client!ToPV(value) = ClientTheory!ToPV(value)
                /\ Client!Encode(value) = ClientTheory!Encode(value)
                /\ Client!Decodable(value) <=> ClientTheory!Decodable(value)
                /\ \A t : Client!FromPV(value, t) = ClientTheory!FromPV(value, t)
<1>1. /\ Client!EmptyValue = ClientTheory!EmptyValue
      /\ Client!AnyType = ClientTheory!AnyType
      /\ Client!AnyValue = ClientTheory!AnyValue
  BY DEF Client!EmptyValue, ClientTheory!EmptyValue, Client!AnyType, ClientTheory!AnyType,
         Client!AnyValue, ClientTheory!AnyValue, Client!Form, ClientTheory!Form
<1>2. \A t, x : Client!TypedValue(t, x) = ClientTheory!TypedValue(t, x)
  BY <1>1 DEF Client!TypedValue, ClientTheory!TypedValue
<1>3. Client!Inputs = ClientTheory!Inputs
  BY <1>2 DEF Client!Inputs, ClientTheory!Inputs
<1>4. \A p : Client!Received(p) = ClientTheory!Received(p)
  BY <1>1 DEF Client!Received, ClientTheory!Received
<1>5. \A value : /\ Client!Encode(value) = ClientTheory!Encode(value)
                 /\ Client!Decodable(value) <=> ClientTheory!Decodable(value)
  BY DEF Client!Encode, ClientTheory!Encode, Client!Decodable, ClientTheory!Decodable
<1>6. \A value : Client!Decode(value) = ClientTheory!Decode(value)
  BY <1>1, <1>2, <1>5 DEF Client!Decode, ClientTheory!Decode
<1>7. \A value : Client!PackIntoStructIfScalar(value) = ClientTheory!PackIntoStructIfScalar(value)
  BY DEF Client!PackIntoStructIfScalar, ClientTheory!PackIntoStructIfScalar
<1>8. \A t : Client!ConvertibleForms(t) = ClientTheory!ConvertibleForms(t)
  BY DEF Client!ConvertibleForms, ClientTheory!ConvertibleForms
<1>9. \A value, t :
        Client!ConvertToTypedAnyValue(value, t) = ClientTheory!ConvertToTypedAnyValue(value, t)
  BY <1>1, <1>8 DEF Client!ConvertToTypedAnyValue, ClientTheory!ConvertToTypedAnyValue
<1>10. \A value : Client!ToPV(value) = ClientTheory!ToPV(value)
  BY <1>5, <1>7 DEF Client!ToPV, ClientTheory!ToPV
<1>11. \A value, t : Client!FromPV(value, t) = ClientTheory!FromPV(value, t)
  BY <1>6, <1>9 DEF Client!FromPV, ClientTheory!FromPV
<1> QED
  BY <1>1, <1>3, <1>4, <1>5, <1>10, <1>11

LEMMA SameHandlers ==
  /\ Client!SetupImpl <=> ClientTheory!SetupImpl
  /\ Client!TeardownImpl <=> ClientTheory!TeardownImpl
  /\ Client!TeardownType <=> ClientTheory!TeardownType
  /\ Client!Callback <=> ClientTheory!Callback
  /\ \A value : Client!SetValueImpl(value) <=> ClientTheory!SetValueImpl(value)
<1> USE SameObject, SameConversions DEF Client!pvVars, ClientTheory!pvVars
<1>1. Client!SetupImpl <=> ClientTheory!SetupImpl
  BY DEF Client!SetupImpl, ClientTheory!SetupImpl, Client!TypeAccepted,
         ClientTheory!TypeAccepted
<1>2. /\ Client!TeardownImpl <=> ClientTheory!TeardownImpl
      /\ Client!TeardownType <=> ClientTheory!TeardownType
  BY DEF Client!TeardownImpl, ClientTheory!TeardownImpl, Client!TeardownType,
         ClientTheory!TeardownType
<1>3. Client!Callback <=> ClientTheory!Callback
  BY DEF Client!Callback, ClientTheory!Callback
<1>4. \A value : Client!SetValueImpl(value) <=> ClientTheory!SetValueImpl(value)
  BY DEF Client!SetValueImpl, ClientTheory!SetValueImpl, Client!Accepted,
         ClientTheory!Accepted
<1> QED
  BY <1>1, <1>2, <1>3, <1>4

LEMMA SameSteps ==
  /\ Client!Init <=> ClientTheory!Init
  /\ [Client!Next]_(Client!vars) <=> [ClientTheory!Next]_(ClientTheory!vars)
<1>1. Client!Init <=> ClientTheory!Init
  BY SameObject, SameConversions DEF Client!Init, ClientTheory!Init,
     Client!NeverNotified, ClientTheory!NeverNotified
<1>2. Client!Next <=> ClientTheory!Next
  BY SameThreads, SameHandlers, SameConversions DEF Client!Next, ClientTheory!Next
<1>3. UNCHANGED Client!vars <=> UNCHANGED ClientTheory!vars
  BY SameObject DEF Client!vars, ClientTheory!vars, Client!pvVars, ClientTheory!pvVars
<1> QED
  BY <1>1, <1>2, <1>3

LEMMA SamePromises ==
  /\ ClientTheory!Inv => ClientInv
  /\ ClientTheory!NotificationCatchesUp => Client!NotificationCatchesUp
  /\ ClientTheory!AvailabilityIsNotified => Client!AvailabilityIsNotified
  /\ ClientTheory!Inv => Client!NotifiesItsType
<1> USE SameObject, SameConversions
<1>1. ClientTheory!Inv => ClientInv
  BY DEF ClientTheory!Inv, ClientInv, Client!ReportInv, ClientTheory!ReportInv,
         ClientTheory!TypeOK, Client!LifeInv, ClientTheory!LifeInv, Client!TypeAccepted,
         ClientTheory!TypeAccepted, Client!NotifiedInv, ClientTheory!NotifiedInv
<1>2. ClientTheory!NotificationCatchesUp => Client!NotificationCatchesUp
  BY DEF Client!NotificationCatchesUp, ClientTheory!NotificationCatchesUp,
         Client!GetValueImpl, ClientTheory!GetValueImpl
<1>3. ClientTheory!AvailabilityIsNotified => Client!AvailabilityIsNotified
  BY DEF Client!AvailabilityIsNotified, ClientTheory!AvailabilityIsNotified,
         Client!IsAvailableImpl, ClientTheory!IsAvailableImpl,
         Client!HasReadableValue, ClientTheory!HasReadableValue
<1>4. ClientTheory!Inv => Client!NotifiesItsType
  BY DEF ClientTheory!Inv, ClientTheory!NotifiesItsType, Client!NotifiesItsType
<1> QED
  BY <1>1, <1>2, <1>3, <1>4

-----------------------------------------------------------------------------
(* The theorems                                                            *)

LinkInv == ServersInv /\ ChannelInv

LEMMA InitLink == LinkInit => LinkInv
<1> SUFFICES ASSUME LinkInit PROVE LinkInv
  OBVIOUS
<1>1. ServersInv
  BY InitServers DEF LinkInit
<1>2. ChannelInv
  BY LinkAssumption
     DEF LinkInit, Init, ChannelInv, Published, PVData, PVForms, AnyValue, Form
<1> QED
  BY <1>1, <1>2 DEF LinkInv

LEMMA LinkInvariant ==
  ASSUME RunsActionsAfterFailure
  PROVE  LinkSpec => []LinkInv
<1>1. LinkInv /\ [LinkNext]_linkVars => LinkInv'
  BY StepOfBothEnds DEF LinkInv
<1> QED
  BY <1>1, InitLink, PTL DEF LinkSpec

\* If workspaces run their teardown actions also after a set-up that failed,
\* then the server variables on a channel, as they come and go with their
\* workspaces, behave as PvAccessClients takes a process variable to behave: a
\* published one keeps its type, also when clients put values into it, and has
\* its first value before it is there.
THEOREM ServersAreGoodNetwork ==
  ASSUME RunsActionsAfterFailure
  PROVE  LinkSpec => ClientEnvironment
<1>1. LinkInit => Client!Init
  BY DEF LinkInit
<1>2. LinkInv /\ [LinkNext]_linkVars => [Client!Next]_(Client!vars)
  BY StepOfBothEnds DEF LinkInv
<1> QED
  BY <1>1, <1>2, LinkInvariant, PTL DEF LinkSpec, ClientEnvironment

\* So the theorems about the client variable apply to it here.
LEMMA ClientInvariant ==
  ASSUME RunsActionsAfterFailure
  PROVE  LinkSpec => []ClientTheory!Inv
<1>1. ClientEnvironment => ClientTheory!Init /\ [][ClientTheory!Next]_(ClientTheory!vars)
  BY SameSteps, PTL DEF ClientEnvironment
<1>2. ClientTheory!Init /\ [][ClientTheory!Next]_(ClientTheory!vars) => []ClientTheory!Inv
  BY ClientAssumptionsHold, ClientTheory!SafetyInvariance
<1> QED
  BY <1>1, <1>2, ServersAreGoodNetwork, PTL

\* A client variable that is connected to server variables of this plugin keeps
\* what was shown of it on any network: its workspace hears values of its type
\* only and, when nothing is left to report, knows what GetValue would read and
\* whether the variable is available.
THEOREM ClientKeepsItsPromises ==
  ASSUME RunsActionsAfterFailure
  PROVE  LinkSpec => []/\ Client!NotifiesItsType
                       /\ Client!NotificationCatchesUp
                       /\ Client!AvailabilityIsNotified
<1>1. ClientTheory!Inv => /\ ClientTheory!NotificationCatchesUp
                          /\ ClientTheory!AvailabilityIsNotified
  BY ClientAssumptionsHold, ClientTheory!CatchesUpFollows, ClientTheory!AvailabilityFollows
<1>2. ClientTheory!Inv => /\ Client!NotifiesItsType
                          /\ Client!NotificationCatchesUp
                          /\ Client!AvailabilityIsNotified
  BY <1>1, SamePromises
<1> QED
  BY <1>2, ClientInvariant, PTL

\* And so do the server variables, whatever the client variable of the other
\* workspace puts: no lambda is called after its variable is gone, and no entry
\* of the registry outlives its workspace, but for an unused server where the
\* first AddVariable() was refused.
THEOREM ServersKeepTheirPromises ==
  ASSUME RunsActionsAfterFailure
  PROVE  LinkSpec => [](NoCallbackIntoDestroyedVariable /\ RegistryReleased)
<1>1. LinkInit => NoCallbackIntoDestroyedVariable
  BY InitCallsNothing DEF LinkInit
<1>2. LinkInv /\ NoCallbackIntoDestroyedVariable /\ [LinkNext]_linkVars
        => NoCallbackIntoDestroyedVariable'
  BY StepOfBothEnds, StepCallsNothingDestroyed DEF LinkInv, ServersInv
<1>3. LinkInv => RegistryReleased
  BY ReleasedFollows DEF LinkInv, ServersInv
<1> QED
  BY <1>1, <1>2, <1>3, LinkInvariant, PTL DEF LinkSpec

\* In a plain variable of its own type, the value that the other workspace sees
\* is made from the same process variable.
LEMMA PlainConversions ==
  ASSUME NEW t \in {"scalar", "struct"}, NEW d \in AnyValue,
         d.form = IF t = "scalar" THEN "packed" ELSE "struct"
  PROVE  /\ Client!ConvertToTypedAnyValue(d, t) = ConvertToTypedAnyValue(d, t)
         /\ PackIntoStructIfScalar(ConvertToTypedAnyValue(d, t)) = d
<1>1. d = [form |-> IF t = "scalar" THEN "packed" ELSE "struct", val |-> d.val]
  BY DEF AnyValue
<1>2. ConvertToTypedAnyValue(d, t) = [form |-> t, val |-> d.val]
  BY DEF ConvertToTypedAnyValue, ConvertibleForms
<1>3. Client!ConvertToTypedAnyValue(d, t) = [form |-> t, val |-> d.val]
  BY DEF Client!ConvertToTypedAnyValue, Client!ConvertibleForms
<1>4. CASE t = "scalar"
  BY <1>1, <1>2, <1>3, <1>4 DEF PackIntoStructIfScalar
<1>5. CASE t = "struct"
  BY <1>1, <1>2, <1>3, <1>5 DEF PackIntoStructIfScalar
<1> QED
  BY <1>4, <1>5

LEMMA EndsAgreeFollows == LinkInv /\ ClientInv => EndsAgree
<1> SUFFICES ASSUME LinkInv, ClientInv, NEW v \in Variable, Linked(v), Running(v),
                    clientPhase = "running", Fits(v), Settled(v)
             PROVE  clientNotified = [connected |-> TRUE, value |-> AtClient(notified[v])]
  BY DEF EndsAgree
<1> DEFINE a == LinkedAddress
           c == LinkedChannel
           d == registry[a].pvs[c]
<1>1. /\ ServersInv /\ TypeOK /\ WiringInv /\ ReportInv /\ SetUp(v)
      /\ AddressFor(v) = a /\ ChannelOf[v] = c
  BY DEF LinkInv, ServersInv, Running, SetUp, Linked
\* the process variable
<1>2. /\ a \in Address /\ c \in Channel
      /\ registry[a] # NoEntry /\ GetServer(a) = registry[a]
      /\ registry[a].server # "null" /\ d # NoPV /\ registry[a].callbacks[c] = v
  BY <1>1, SetUpIsWired
<1>3. Holds(v, d) /\ d \in PVData /\ d \in AnyValue
  BY <1>1, <1>2, PublishedHolds DEF PVData
<1>4. channel.data = d
  BY <1>2 DEF LinkInv, ChannelInv, Published, Serves
\* the workspace of the server variable
<1>5. notified[v] = FromServer(v, d)
  BY <1>1, <1>2 DEF ReportInv, CatchUpInv, Settled, Reading
<1>6. TypeAccepted(v) /\ anytype[v] = SetupType(v)
  BY <1>1 DEF ServersInv, SetUpTypesAccepted, ReportInv, CatchUpInv
\* the workspace of the client variable
<1>7. pv # Client!NewPV /\ Client!Received(pv) = d
  BY <1>3, <1>4, LinkAssumption DEF Settled, Client!NewPV, Client!Received
<1>8. clientNotified = [connected |-> TRUE, value |-> Client!FromPV(d, clientType)]
  BY <1>7 DEF ClientInv, Client!NotifiedInv, Settled
<1>9. clientType = IF attr = "absent" THEN "empty" ELSE attr
  BY DEF ClientInv, Client!LifeInv
<1> HIDE DEF d
<1>10. CASE kind = "plain"
  <2> DEFINE t == ParsedType[v]
  <2>1. Kind[v] = "plain" /\ attr \in {"absent", t} /\ t \in {"scalar", "struct"}
    BY <1>10, ConfigurationAssumption DEF Fits
  <2>2. d.form = (IF t = "scalar" THEN "packed" ELSE "struct")
    BY <1>3, <2>1 DEF Holds, PublishedForm, PVClass, PVData, PVForms
  <2>3. notified[v] = ConvertToTypedAnyValue(d, t)
    BY <1>5, <1>6, <2>1 DEF FromServer, TypeAccepted, SetupType
  <2> HIDE DEF t
  <2>4. CASE attr = "absent"
    <3>1. Client!FromPV(d, clientType) = d
      BY <1>9, <1>10, <2>4 DEF Client!FromPV, Client!ConvertToTypedAnyValue
    <3> QED
      BY <1>3, <1>8, <1>10, <2>1, <2>2, <2>3, <2>4, <3>1, PlainConversions DEF AtClient
  <2>5. CASE attr # "absent"
    <3>1. Client!FromPV(d, clientType) = Client!ConvertToTypedAnyValue(d, t)
      BY <1>9, <1>10, <2>1, <2>5 DEF Client!FromPV
    <3> QED
      BY <1>3, <1>8, <1>10, <2>1, <2>2, <2>3, <2>5, <3>1, PlainConversions DEF AtClient
  <2> QED
    BY <2>4, <2>5
<1>11. CASE kind # "plain"
  BY <1>5, <1>8, <1>11
     DEF Fits, AtClient, FromServer, Client!FromPV, Decode, Client!Decode, Decodable,
         Client!Decodable, TypedValue, Client!TypedValue, EmptyValue, Client!EmptyValue
<1> QED
  BY <1>10, <1>11

\* Under the same assumption: when nothing is on its way any more, the client's
\* workspace was last told the value that the server's was last told, through
\* the conversions of both ends.
THEOREM BothEndsAgree ==
  ASSUME RunsActionsAfterFailure
  PROVE  LinkSpec => []EndsAgree
<1>1. LinkInv /\ ClientTheory!Inv => EndsAgree
  BY EndsAgreeFollows, SamePromises
<1> QED
  BY <1>1, LinkInvariant, ClientInvariant, PTL

=============================================================================
