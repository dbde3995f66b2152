--------------------- MODULE PvAccessServerVariablesProofs ---------------------
(***************************************************************************)
(* Proofs about PvAccessServerVariables, for every configuration that its  *)
(* assumptions allow.                                                      *)
(***************************************************************************)
EXTENDS PvAccessServerVariables, TLAPS

-----------------------------------------------------------------------------
(* The configuration                                                       *)

\* Where a variable belongs.
LEMMA VariableConfiguration ==
  ASSUME NEW v \in Variable
  PROVE  /\ WorkspaceOf[v] \in Workspace
         /\ AddressFor(v) = AddressOf[WorkspaceOf[v]]
         /\ AddressFor(v) \in Address
         /\ ChannelOf[v] \in Channel
BY ConfigurationAssumption DEF AddressFor

LEMMA NoEntryIsNoServer == NoEntry \notin SharedServer
BY ConfigurationAssumption

-----------------------------------------------------------------------------
(* Values and shared servers                                               *)

\* What a variable publishes is a value, of any type it may have.
LEMMA ToServerType ==
  ASSUME NEW v \in Variable, NEW t \in AnyType, NEW x \in Payload
  PROVE  ToServer(v, TypedValue(t, x)) \in AnyValue
BY DEF ToServer, TypedValue, PackIntoStructIfScalar, Encode, EmptyValue,
       AnyValue, AnyType, Form

\* What a callback makes of the content of a process variable is a value.
LEMMA FromServerType ==
  ASSUME NEW v \in Variable, NEW value \in AnyValue, anytype[v] \in AnyType
  PROVE  FromServer(v, value) \in AnyValue
BY DEF FromServer, ConvertToTypedAnyValue, ConvertibleForms, Decode, Decodable,
       TypedValue, EmptyValue, AnyValue, AnyType, Form

\* The type a variable is set up with, and its initial value.
LEMMA InitialValueType ==
  ASSUME NEW v \in Variable, NEW t \in AnyType
  PROVE  /\ SetupType(v) \in AnyType
         /\ GetInitialValue(v, t) \in AnyValue
         /\ ToServer(v, GetInitialValue(v, t)) \in AnyValue
<1> DEFINE x == IF ValueAttr[v] = "ok" THEN Initial[v] ELSE Default
<1>1. SetupType(v) \in AnyType
  BY ConfigurationAssumption DEF SetupType, AnyType
<1>2. x \in Payload
  BY ConfigurationAssumption
<1>3. ToServer(v, TypedValue(t, x)) \in AnyValue
  BY <1>2, ToServerType
<1>4. TypedValue(t, x) \in AnyValue
  BY <1>2 DEF TypedValue, EmptyValue, AnyValue, AnyType, Form
<1> QED
  BY <1>1, <1>3, <1>4 DEF GetInitialValue

LEMMA NewSharedServerType == NewSharedServer \in SharedServer
BY DEF NewSharedServer, SharedServer

\* Making the server, where there is none, changes nothing else.
LEMMA EnsureServerEffect ==
  ASSUME NEW s \in SharedServer
  PROVE  LET r == EnsureServer(s) IN
         /\ r \in SharedServer
         /\ r.server # "null"
         /\ r.pvs = s.pvs
         /\ r.events = s.events
         /\ r.callbacks = s.callbacks
         /\ s.server # "null" => r = s
BY DEF EnsureServer, SharedServer

\* Adding a variable creates the server if need be and touches one channel.
LEMMA AddVariableEffect ==
  ASSUME NEW s \in SharedServer, NEW c \in Channel, NEW value \in AnyValue,
         NEW v \in Variable
  PROVE  LET r == AddVariable(s, c, value, v) IN
         /\ r \in SharedServer
         /\ r.server # "null"
         /\ r.pvs[c] = value
         /\ r.callbacks[c] = v
         /\ \A d \in Channel \ {c} :
              r.pvs[d] = s.pvs[d] /\ r.callbacks[d] = s.callbacks[d]
BY DEF AddVariable, EnsureServer, SharedServer

\* Starting the server keeps what it serves.
LEMMA StartServerEffect ==
  ASSUME NEW s \in SharedServer
  PROVE  LET r == StartServer(s) IN
         /\ r \in SharedServer
         /\ r.server = "started"
         /\ r.pvs = s.pvs
         /\ r.callbacks = s.callbacks
BY DEF StartServer, EnsureServer, SharedServer

\* A change of a value keeps the server, its channels and its callbacks.
LEMMA ChangeEffect ==
  ASSUME NEW s \in SharedServer, NEW c \in Channel, NEW value \in AnyValue
  PROVE  LET r == Change(s, c, value) IN
         /\ r \in SharedServer
         /\ r.server = s.server
         /\ r.callbacks = s.callbacks
         /\ \A d \in Channel : r.pvs[d] = IF d = c THEN value ELSE s.pvs[d]
<1> DEFINE e == [channel |-> c, value |-> value]
<1>1. e \in Event
  BY DEF Event
<1>2. Append(s.events, e) \in Seq(Event)
  BY <1>1 DEF SharedServer
<1> QED
  BY <1>2 DEF Change, SharedServer

\* SetValue of a shared server neither adds nor removes a process variable.
LEMMA SetServerValueEffect ==
  ASSUME NEW s \in SharedServer, NEW c \in Channel, NEW value \in AnyValue
  PROVE  LET r == SetServerValue(s, c, value) IN
         /\ r \in SharedServer
         /\ r.server = s.server
         /\ r.callbacks = s.callbacks
         /\ \A d \in Channel : (r.pvs[d] = NoPV) <=> (s.pvs[d] = NoPV)
BY ChangeEffect, SharedServerAssumption DEF SetServerValue, Serves

\* Resuming after the oldest change was reported keeps everything else.
LEMMA TailEffect ==
  ASSUME NEW s \in SharedServer, s.events # << >>
  PROVE  LET r == [s EXCEPT !.events = Tail(@)] IN
         /\ Head(s.events) \in Event
         /\ r \in SharedServer
         /\ r.server = s.server
         /\ r.pvs = s.pvs
         /\ r.callbacks = s.callbacks
<1>1. s.events \in Seq(Event)
  BY DEF SharedServer
<1>2. Head(s.events) \in Event /\ Tail(s.events) \in Seq(Event)
  BY <1>1
<1> QED
  BY <1>2 DEF SharedServer

\* The registry's answer is always a shared server.
LEMMA GetServerType ==
  ASSUME TypeOK, NEW a \in Address
  PROVE  GetServer(a) \in SharedServer
BY NewSharedServerType DEF GetServer, TypeOK

\* A set-up that throws has at most made the server at its own address.
LEMMA ThrowsEffect ==
  ASSUME TypeOK, NEW v \in Variable, SetupThrows(v)
  PROVE  LET a == AddressFor(v) IN
         /\ registry' \in [Address -> SharedServer \cup {NoEntry}]
         /\ \A b \in Address \ {a} : registry'[b] = registry[b]
         /\ registry'[a] \in {registry[a], EnsureServer(GetServer(a))}
         /\ registry[a] # NoEntry =>
              /\ registry'[a] \in SharedServer
              /\ registry'[a].pvs = registry[a].pvs
              /\ registry'[a].events = registry[a].events
              /\ registry'[a].callbacks = registry[a].callbacks
              /\ registry[a].server # "null" => registry' = registry
<1> DEFINE a == AddressFor(v)
           r == EnsureServer(GetServer(a))
<1>1. a \in Address /\ GetServer(a) \in SharedServer
  BY VariableConfiguration, GetServerType
<1>2. /\ r \in SharedServer
      /\ registry[a] # NoEntry =>
           /\ r.pvs = registry[a].pvs
           /\ r.events = registry[a].events
           /\ r.callbacks = registry[a].callbacks
           /\ registry[a].server # "null" => r = registry[a]
  BY <1>1, EnsureServerEffect DEF GetServer
<1>3. CASE registry' = registry
  BY <1>1, <1>3 DEF TypeOK
<1>4. CASE registry' = [registry EXCEPT ![a] = r]
  <2> HIDE DEF r
  <2>1. /\ registry' \in [Address -> SharedServer \cup {NoEntry}]
        /\ registry'[a] = r
        /\ \A b \in Address \ {a} : registry'[b] = registry[b]
        /\ r = registry[a] => registry' = registry
    BY <1>1, <1>2, <1>4 DEF TypeOK
  <2> QED
    BY <1>2, <2>1 DEF r
<1> QED
  BY <1>3, <1>4 DEF SetupThrows

-----------------------------------------------------------------------------
(* Type correctness                                                        *)

LEMMA InitType == Init => TypeOK
BY DEF Init, TypeOK, AnyType, Phase

LEMMA FaultType ==
  ASSUME NEW k \in FaultKind, NEW w \in Workspace
  PROVE  [kind |-> k, workspace |-> w] \in Fault
BY DEF Fault

LEMMA RegistrySetupType ==
  ASSUME TypeOK, NEW w \in Workspace, RegistrySetup(w)
  PROVE  /\ registry' \in [Address -> SharedServer \cup {NoEntry}]
         /\ fault' \in Fault \cup {NoFault}
<1> DEFINE a == AddressOf[w]
<1>1. a \in Address
  BY ConfigurationAssumption
<1>2. CASE registry[a] = NoEntry
  <2>1. [kind |-> "unknown server", workspace |-> w] \in Fault
    BY FaultType DEF FaultKind
  <2> QED
    BY <1>2, <2>1 DEF RegistrySetup, TypeOK
<1>3. CASE registry[a] # NoEntry
  <2>1. StartServer(registry[a]) \in SharedServer
    BY <1>1, <1>3, StartServerEffect DEF TypeOK
  <2> QED
    BY <1>1, <1>3, <2>1 DEF RegistrySetup, TypeOK
<1> QED
  BY <1>2, <1>3

LEMMA RegistryTeardownType ==
  ASSUME TypeOK, NEW w \in Workspace, RegistryTeardown(w)
  PROVE  /\ registry' \in [Address -> SharedServer \cup {NoEntry}]
         /\ fault' \in Fault \cup {NoFault}
<1> DEFINE a == AddressOf[w]
<1>1. a \in Address
  BY ConfigurationAssumption
<1>2. CASE registry[a] = NoEntry
  <2>1. [kind |-> "unknown server", workspace |-> w] \in Fault
    BY FaultType DEF FaultKind
  <2> QED
    BY <1>2, <2>1 DEF RegistryTeardown, TypeOK
<1>3. CASE registry[a] # NoEntry
  BY <1>1, <1>3 DEF RegistryTeardown, TypeOK
<1> QED
  BY <1>2, <1>3

LEMMA OwnerStepType ==
  ASSUME TypeOK, NEW w \in Workspace, OwnerStep(w)
  PROVE  TypeOK'
<1> USE DEF TypeOK
<1>1. CASE Create(w)
  BY <1>1 DEF Create, Phase
<1>2. CASE BeginSetup(w)
  BY <1>2 DEF BeginSetup, Phase, VariablesOf
<1>3. CASE RunSetupActions(w)
  <2>1. AddressOf[w] \in Address
    BY ConfigurationAssumption
  <2>2. RegistrySetup(w) => registry' \in [Address -> SharedServer \cup {NoEntry}]
                            /\ fault' \in Fault \cup {NoFault}
    BY <2>1, RegistrySetupType
  <2> QED
    BY <1>3, <2>2 DEF RunSetupActions, Phase
<1>4. CASE BeginTeardown(w)
  BY <1>4 DEF BeginTeardown, Phase, VariablesOf
<1>5. CASE FinishTeardown(w)
  BY <1>5 DEF FinishTeardown, Phase
<1>6. CASE Destroy(w)
  BY <1>6 DEF Destroy, Phase
<1>7. ASSUME NEW k \in ActionKeys, RunTeardownAction(w, k)
      PROVE  TypeOK'
  <2>1. registry' \in [Address -> SharedServer \cup {NoEntry}] /\ fault' \in Fault \cup {NoFault}
    BY <1>7, RegistryTeardownType DEF RunTeardownAction
  <2> QED
    BY <1>7, <2>1 DEF RunTeardownAction
<1> QED
  BY <1>1, <1>2, <1>3, <1>4, <1>5, <1>6, <1>7 DEF OwnerStep

LEMMA CallServerType ==
  ASSUME TypeOK, NEW v \in Variable, NEW s1 \in SharedServer, CallServer(v, s1)
  PROVE  TypeOK'
<1>1. AddressFor(v) \in Address /\ WorkspaceOf[v] \in Workspace
  BY ConfigurationAssumption DEF AddressFor
<1>2. GetServer(AddressFor(v)) \in SharedServer
  BY <1>1, GetServerType
<1>3. [kind |-> "null server", workspace |-> WorkspaceOf[v]] \in Fault
  BY <1>1, FaultType DEF FaultKind
<1>4. registry' \in [Address -> SharedServer \cup {NoEntry}]
  BY <1>1, <1>2 DEF CallServer, TypeOK
<1>5. fault' \in Fault \cup {NoFault}
  BY <1>3 DEF CallServer, TypeOK
<1> QED
  BY <1>4, <1>5 DEF CallServer, TypeOK

LEMMA VariableStepType ==
  ASSUME TypeOK, NEW v \in Variable, VariableStep(v)
  PROVE  TypeOK'
<1> DEFINE a == AddressFor(v)
           s == GetServer(a)
           c == ChannelOf[v]
<1>1. a \in Address /\ WorkspaceOf[v] \in Workspace /\ c \in Channel /\ anytype[v] \in AnyType
  BY ConfigurationAssumption DEF AddressFor, TypeOK
<1>2. s \in SharedServer
  BY <1>1, GetServerType
<1>3. CASE SetupImpl(v)
  <2> DEFINE t == SetupType(v)
  <2>1. t \in AnyType /\ GetInitialValue(v, t) \in AnyValue
                     /\ ToServer(v, GetInitialValue(v, t)) \in AnyValue
    <3>1. t \in AnyType
      BY <1>1, InitialValueType
    <3> QED
      BY <3>1, InitialValueType
  <2>2. CASE SetupThrows(v)
    <3>1. registry' \in [Address -> SharedServer \cup {NoEntry}]
      BY <2>2, ThrowsEffect
    <3> QED
      BY <1>1, <1>3, <2>1, <2>2, <3>1 DEF SetupImpl, SetupThrows, TypeOK, Phase, AnyType
  <2>3. CASE SetupSucceeds(v)
    <3>1. AddVariable(s, c, ToServer(v, GetInitialValue(v, t)), v) \in SharedServer
      BY <1>1, <1>2, <2>1, AddVariableEffect
    <3> HIDE DEF t
    <3>2. registry' \in [Address -> SharedServer \cup {NoEntry}]
      BY <1>1, <2>3, <3>1 DEF SetupSucceeds, TypeOK, t
    <3>3. /\ anytype' \in [Variable -> AnyType]
          /\ notified' \in [Variable -> AnyValue \cup {NoPV}]
          /\ todo' \in [Workspace -> SUBSET Variable]
          /\ actions' \in [Workspace -> SUBSET ActionKeys]
          /\ phase' = phase
      BY <1>1, <2>1, <2>3 DEF SetupSucceeds, TypeOK, ActionKey, ActionKeys, t
    <3> QED
      BY <1>3, <3>2, <3>3 DEF SetupImpl, TypeOK
  <2> QED
    BY <1>3, <2>2, <2>3 DEF SetupImpl
<1>4. CASE GetValue(v)
  BY <1>2, <1>4, CallServerType DEF GetValue
<1>5. CASE ResetImpl(v)
  <2>1. ToServer(v, GetInitialValue(v, anytype[v])) \in AnyValue
    BY <1>1, InitialValueType
  <2>2. SetServerValue(s, c, ToServer(v, GetInitialValue(v, anytype[v]))) \in SharedServer
    BY <1>1, <1>2, <2>1, SetServerValueEffect
  <2> QED
    BY <1>5, <2>2, CallServerType DEF ResetImpl
<1>6. CASE TeardownImpl(v)
  BY <1>1, <1>6 DEF TeardownImpl, TypeOK, AnyType
<1>7. ASSUME NEW x \in Payload, SetValueImpl(v, x)
      PROVE  TypeOK'
  <2> DEFINE t == IF Kind[v] = "plain" THEN anytype[v] ELSE "scalar"
  <2>1. t \in AnyType
    BY <1>1 DEF AnyType
  <2>2. ToServer(v, TypedValue(t, x)) \in AnyValue
    BY <2>1, ToServerType
  <2>3. SetServerValue(s, c, ToServer(v, TypedValue(t, x))) \in SharedServer
    BY <1>1, <1>2, <2>2, SetServerValueEffect
  <2> QED
    BY <1>7, <2>3, CallServerType DEF SetValueImpl
<1> QED
  BY <1>3, <1>4, <1>5, <1>6, <1>7 DEF VariableStep

LEMMA ServerStepType ==
  ASSUME TypeOK, NEW a \in Address, ServerStep(a)
  PROVE  TypeOK'
<1>1. CASE Deliver(a)
  <2> DEFINE s == registry[a]
             v == CallbackTarget(s)
  <2>1. s \in SharedServer /\ s.events # << >>
    BY <1>1 DEF Deliver, TypeOK
  <2>2. Head(s.events) \in Event /\ [s EXCEPT !.events = Tail(@)] \in SharedServer
    BY <2>1, TailEffect
  <2>3. v \in Variable \cup {NoVariable}
    BY <2>1, <2>2 DEF CallbackTarget, SharedServer, Event
  <2>4. registry' \in [Address -> SharedServer \cup {NoEntry}]
    BY <1>1, <2>2 DEF Deliver, TypeOK
  <2>5. ASSUME v # NoVariable
        PROVE  FromServer(v, Head(s.events).value) \in AnyValue /\ WorkspaceOf[v] \in Workspace
    BY <2>2, <2>3, <2>5, FromServerType, ConfigurationAssumption DEF Event, TypeOK
  <2>6. notified' \in [Variable -> AnyValue \cup {NoPV}] /\ fault' \in Fault \cup {NoFault}
    <3>1. CASE v = NoVariable
      BY <1>1, <3>1 DEF Deliver, TypeOK
    <3>2. CASE v # NoVariable /\ Alive(WorkspaceOf[v])
      BY <1>1, <2>3, <2>5, <3>2 DEF Deliver, TypeOK
    <3>3. CASE v # NoVariable /\ ~Alive(WorkspaceOf[v])
      <4>1. [kind |-> "destroyed variable", workspace |-> WorkspaceOf[v]] \in Fault
        BY <2>5, <3>3, FaultType DEF FaultKind
      <4> QED
        BY <1>1, <3>3, <4>1 DEF Deliver, TypeOK
    <3> QED
      BY <3>1, <3>2, <3>3
  <2> QED
    BY <1>1, <2>4, <2>6 DEF Deliver, TypeOK
<1>2. ASSUME NEW c \in Channel, NEW value \in AnyValue, ClientPut(a, c, value)
      PROVE  TypeOK'
  <2>1. registry[a] \in SharedServer
    BY <1>2 DEF ClientPut, TypeOK
  <2>2. Change(registry[a], c, value) \in SharedServer
    BY <2>1, ChangeEffect
  <2> QED
    BY <1>2, <2>2 DEF ClientPut, TypeOK
<1> QED
  BY <1>1, <1>2 DEF ServerStep

LEMMA StepType == TypeOK /\ [Next]_vars => TypeOK'
<1>1. ASSUME TypeOK, UNCHANGED vars
      PROVE  TypeOK'
  BY <1>1 DEF vars, TypeOK
<1>2. ASSUME TypeOK, Next
      PROVE  TypeOK'
  BY <1>2, OwnerStepType, VariableStepType, ServerStepType DEF Next
<1> QED
  BY <1>1, <1>2

\* Every variable of the model stays within its type: in particular, the
\* registry only ever holds well-formed shared servers, with well-formed
\* values and pending events in them.
THEOREM TypeCorrect == Spec => []TypeOK
BY InitType, StepType, PTL DEF Spec

-----------------------------------------------------------------------------
(* Steps that leave the wiring alone                                       *)

\* Whatever server an address has keeps its state, its channels and callbacks.
SameWiring(a) ==
  registry[a] # NoEntry =>
    /\ registry'[a] # NoEntry
    /\ registry'[a].server = registry[a].server
    /\ registry'[a].callbacks = registry[a].callbacks
    /\ \A c \in Channel : (registry'[a].pvs[c] = NoPV) <=> (registry[a].pvs[c] = NoPV)

\* A call of an owner into a server, or a step of a server's own thread.
Quiet ==
  /\ \A a \in Address : SameWiring(a)
  /\ UNCHANGED <<workspace, anytype, phase, todo, actions>>
  /\ \/ fault' = fault
     \/ \E w \in Workspace :
          \/ fault' = [kind |-> "destroyed variable", workspace |-> w]
          \/ phase[w] = "failed" /\ fault' = [kind |-> "null server", workspace |-> w]

LEMMA QuietPreserves ==
  ASSUME TypeOK, WiringInv, fault = NoFault, Quiet
  PROVE  WiringInv'
<1>1. ASSUME NEW v \in Variable, Wired(v)
      PROVE  /\ WiredTo(registry'[AddressOf[WorkspaceOf[v]]], v)
             /\ registry'[AddressOf[WorkspaceOf[v]]].server =
                  registry[AddressOf[WorkspaceOf[v]]].server
  <2>1. AddressOf[WorkspaceOf[v]] \in Address /\ ChannelOf[v] \in Channel
    BY VariableConfiguration
  <2>2. SameWiring(AddressOf[WorkspaceOf[v]])
    BY <2>1 DEF Quiet
  <2>3. WiredTo(registry[AddressOf[WorkspaceOf[v]]], v)
    BY <1>1 DEF Wired, AddressFor
  <2> QED
    BY <2>1, <2>2, <2>3 DEF SameWiring, WiredTo, Serves
<1>2. ASSUME NEW w \in Workspace
      PROVE  WorkspaceInv(w)'
  <2>1. WorkspaceInv(w) /\ AddressOf[w] \in Address
    BY ConfigurationAssumption DEF WiringInv
  <2>2. ActionsAreBacked(w)'
    BY <2>1 DEF WorkspaceInv, ActionsAreBacked, Quiet, SameWiring
  <2>7. VariablesOf(w) \subseteq Variable
    BY DEF VariablesOf
  <2>3. SetupProgress(w)'
    <3>1. phase[w]' = phase[w] /\ todo[w]' = todo[w] /\ actions[w]' = actions[w]
      BY DEF Quiet
    <3>2. ASSUME phase[w] = "setup", NEW v \in VariablesOf(w) \ todo[w]
          PROVE  Wired(v)' /\ actions[w]' # {}
      <4>1. Wired(v) /\ actions[w] # {} /\ v \in Variable
        BY <2>1, <2>7, <3>1, <3>2 DEF WorkspaceInv, SetupProgress
      <4> QED
        BY <1>1, <3>1, <4>1 DEF Wired, AddressFor
    <3> QED
      BY <2>1, <3>1, <3>2 DEF WorkspaceInv, SetupProgress
  <2>6. VariablesServed(w)'
    <3>1. ASSUME phase[w] = "running", NEW v \in VariablesOf(w)
          PROVE  Served(v)'
      <4>1. Served(v) /\ v \in Variable
        BY <2>1, <2>7, <3>1 DEF WorkspaceInv, VariablesServed
      <4> QED
        BY <1>1, <4>1 DEF Served, Wired, AddressFor
    <3> QED
      BY <3>1 DEF VariablesServed, Quiet
  <2>4. VariablesBound(w)'
    BY <2>1 DEF WorkspaceInv, VariablesBound, Quiet
  <2>5. FailedPlainHasServer(w)'
    BY <2>1 DEF WorkspaceInv, FailedPlainHasServer, InitialValueParses, Quiet, SameWiring
  <2> QED
    BY <2>2, <2>3, <2>4, <2>5, <2>6 DEF WorkspaceInv
<1>3. ExclusiveAddresses'
  BY DEF WiringInv, ExclusiveAddresses, Alive, Quiet
<1>4. ActionsFindTheirServer' /\ NullServerOnlyAfterFailure'
  <2>1. CASE fault' = fault
    BY <2>1 DEF ActionsFindTheirServer, NullServerOnlyAfterFailure
  <2>2. ASSUME NEW w \in Workspace, fault' = [kind |-> "destroyed variable", workspace |-> w]
        PROVE  ActionsFindTheirServer' /\ NullServerOnlyAfterFailure'
    BY <2>2 DEF ActionsFindTheirServer, NullServerOnlyAfterFailure
  <2>3. ASSUME NEW w \in Workspace, phase[w] = "failed", phase' = phase,
               fault' = [kind |-> "null server", workspace |-> w]
        PROVE  ActionsFindTheirServer' /\ NullServerOnlyAfterFailure'
    BY <2>3 DEF ActionsFindTheirServer, NullServerOnlyAfterFailure
  <2> QED
    BY <2>1, <2>2, <2>3 DEF Quiet
<1> QED
  BY <1>2, <1>3, <1>4 DEF WiringInv

\* A call through GetSharedServer() meets a null server only if the set-up of
\* the workspace failed.
LEMMA CallServerQuiet ==
  ASSUME TypeOK, WiringInv, NEW v \in Variable, NEW s1 \in SharedServer,
         CallServer(v, s1),
         LET s == GetServer(AddressFor(v)) IN
           /\ s1.server = s.server
           /\ s1.callbacks = s.callbacks
           /\ \A c \in Channel : (s1.pvs[c] = NoPV) <=> (s.pvs[c] = NoPV)
  PROVE  Quiet
<1> DEFINE a == AddressFor(v)
           w == WorkspaceOf[v]
           s == GetServer(a)
<1>1. a \in Address /\ w \in Workspace /\ a = AddressOf[w] /\ v \in VariablesOf(w)
  BY ConfigurationAssumption DEF AddressFor, VariablesOf
<1>2. WorkspaceInv(w)
  BY <1>1 DEF WiringInv
<1>3. s.server = "null" => phase[w] = "failed"
  <2>1. phase[w] \in {"failed", "running"}
    BY <1>1, <1>2 DEF CallServer, Usable, WorkspaceInv, VariablesBound, Active
  <2>2. phase[w] = "running" => registry[a] # NoEntry /\ registry[a].server = "started"
    BY <1>1, <1>2 DEF WorkspaceInv, VariablesServed, Served, Wired, WiredTo
  <2> QED
    BY <2>1, <2>2 DEF GetServer
<1>4. \A b \in Address : SameWiring(b)
  <2>1. registry[a] # NoEntry => s = registry[a]
    BY DEF GetServer
  <2>2. PICK r \in {s, s1} : registry' = [registry EXCEPT ![a] = r]
    BY DEF CallServer
  <2>3. /\ r \in SharedServer
        /\ r.server = s.server
        /\ r.callbacks = s.callbacks
        /\ \A c \in Channel : (r.pvs[c] = NoPV) <=> (s.pvs[c] = NoPV)
    BY <1>1, GetServerType
  <2>4. SameWiring(a)
    BY <1>1, <2>1, <2>2, <2>3, ConfigurationAssumption DEF SameWiring, TypeOK
  <2>5. \A b \in Address \ {a} : SameWiring(b)
    BY <1>1, <2>2 DEF SameWiring, TypeOK
  <2> QED
    BY <2>4, <2>5
<1>5. \/ fault' = fault
      \/ fault' = [kind |-> "null server", workspace |-> w] /\ phase[w] = "failed"
  BY <1>3 DEF CallServer
<1> QED
  BY <1>1, <1>4, <1>5 DEF Quiet, CallServer

LEMMA ServerStepQuiet ==
  ASSUME TypeOK, WiringInv, NEW a \in Address, ServerStep(a)
  PROVE  Quiet
<1>1. CASE Deliver(a)
  <2> DEFINE s == registry[a]
             v == CallbackTarget(s)
  <2>1. s \in SharedServer /\ s.events # << >>
    BY <1>1 DEF Deliver, TypeOK
  <2>2. /\ Head(s.events) \in Event
        /\ [s EXCEPT !.events = Tail(@)] \in SharedServer
    BY <2>1, TailEffect
  <2>3. \A b \in Address : SameWiring(b)
    <3>1. /\ registry'[a] = [s EXCEPT !.events = Tail(@)]
          /\ \A b \in Address \ {a} : registry'[b] = registry[b]
      BY <1>1 DEF Deliver, TypeOK
    <3>2. registry'[a] # NoEntry
      BY <2>2, <3>1, NoEntryIsNoServer
    <3>3. /\ registry'[a].server = s.server
          /\ registry'[a].pvs = s.pvs
          /\ registry'[a].callbacks = s.callbacks
      BY <2>1, <3>1, TailEffect
    <3>4. SameWiring(a)
      BY <3>2, <3>3 DEF SameWiring
    <3> QED
      BY <3>1, <3>4 DEF SameWiring
  <2>4. v # NoVariable => WorkspaceOf[v] \in Workspace
    BY <2>1, <2>2, ConfigurationAssumption DEF CallbackTarget, SharedServer, Event
  <2>5. fault' = fault \/ \E w \in Workspace :
                           fault' = [kind |-> "destroyed variable", workspace |-> w]
    BY <1>1, <2>4 DEF Deliver
  <2> QED
    BY <1>1, <2>3, <2>5 DEF Deliver, Quiet
<1>2. ASSUME NEW c \in Channel, NEW value \in AnyValue, ClientPut(a, c, value)
      PROVE  Quiet
  <2> DEFINE r == Change(registry[a], c, value)
  <2>1. registry[a] \in SharedServer
    BY <1>2 DEF ClientPut, TypeOK
  <2>2. /\ r \in SharedServer
        /\ r.server = registry[a].server
        /\ r.callbacks = registry[a].callbacks
        /\ \A d \in Channel : r.pvs[d] = IF d = c THEN value ELSE registry[a].pvs[d]
    BY <2>1, ChangeEffect
  <2> HIDE DEF r
  <2>3. registry' = [registry EXCEPT ![a] = r]
    BY <1>2 DEF ClientPut, r
  <2>4. registry[a].pvs[c] # NoPV
    BY <1>2 DEF ClientPut
  <2>5. \A b \in Address : SameWiring(b)
    BY <2>2, <2>3, <2>4, ConfigurationAssumption, SharedServerAssumption DEF SameWiring, TypeOK
  <2> QED
    BY <1>2, <2>5 DEF ClientPut, Quiet
<1> QED
  BY <1>1, <1>2 DEF ServerStep

-----------------------------------------------------------------------------
(* Steps of one workspace                                                  *)

\* A step of w that touches no state of another workspace, and the registry
\* only at its own address.
Local(w) ==
  /\ \A x \in Workspace \ {w} :
       phase'[x] = phase[x] /\ todo'[x] = todo[x] /\ actions'[x] = actions[x]
  /\ \A v \in Variable : WorkspaceOf[v] # w =>
       workspace'[v] = workspace[v] /\ anytype'[v] = anytype[v]
  /\ \/ registry' = registry
     \/ Alive(w) /\ \A b \in Address \ {AddressOf[w]} : registry'[b] = registry[b]

\* Since live workspaces have different addresses, such a step preserves what
\* the invariant says of all the others.
LEMMA LocalPreservesOthers ==
  ASSUME TypeOK, WiringInv, NEW w \in Workspace, Local(w),
         NEW x \in Workspace \ {w}
  PROVE  WorkspaceInv(x)'
<1>1. WorkspaceInv(x) /\ AddressOf[x] \in Address /\ VariablesOf(x) \subseteq Variable
  BY ConfigurationAssumption DEF WiringInv, VariablesOf
<1>2. phase'[x] = phase[x] /\ todo'[x] = todo[x] /\ actions'[x] = actions[x]
  BY DEF Local
<1>3. ASSUME NEW v \in VariablesOf(x)
      PROVE  workspace'[v] = workspace[v] /\ anytype'[v] = anytype[v]
  BY <1>1, <1>3 DEF Local, VariablesOf
<1>4. phase[x] \in Active => registry'[AddressOf[x]] = registry[AddressOf[x]]
  BY <1>1 DEF Local, WiringInv, ExclusiveAddresses, Alive, Active
<1>5. ActionsAreBacked(x)'
  BY <1>1, <1>2, <1>4 DEF WorkspaceInv, ActionsAreBacked
<1>6. SetupProgress(x)'
  <2>1. ASSUME phase[x] = "setup", NEW v \in VariablesOf(x) \ todo[x]
        PROVE  Wired(v)' /\ actions'[x] # {}
    <3>1. Wired(v) /\ actions[x] # {} /\ WorkspaceOf[v] = x
      BY <1>1, <2>1 DEF WorkspaceInv, SetupProgress, VariablesOf
    <3> QED
      BY <1>2, <1>4, <2>1, <3>1 DEF Wired, AddressFor, Active
  <2> QED
    BY <1>1, <1>2, <2>1 DEF WorkspaceInv, SetupProgress
<1>7. VariablesServed(x)'
  <2>1. ASSUME phase[x] = "running", NEW v \in VariablesOf(x)
        PROVE  Served(v)'
    <3>1. Served(v) /\ WorkspaceOf[v] = x
      BY <1>1, <2>1 DEF WorkspaceInv, VariablesServed, VariablesOf
    <3> QED
      BY <1>4, <2>1, <3>1 DEF Served, Wired, AddressFor, Active
  <2> QED
    BY <1>2, <2>1 DEF VariablesServed
<1>8. VariablesBound(x)'
  BY <1>1, <1>2, <1>3 DEF WorkspaceInv, VariablesBound
<1>9. FailedPlainHasServer(x)'
  BY <1>1, <1>2, <1>3, <1>4 DEF WorkspaceInv, FailedPlainHasServer, InitialValueParses, Active
<1> QED
  BY <1>5, <1>6, <1>7, <1>8, <1>9 DEF WorkspaceInv

\* The invariant about w itself, and about addresses and faults, then suffices.
LEMMA LocalPreserves ==
  ASSUME TypeOK, WiringInv, NEW w \in Workspace, Local(w), WorkspaceInv(w)',
         ExclusiveAddresses', fault = NoFault, fault' = NoFault
  PROVE  WiringInv'
<1>1. \A x \in Workspace : WorkspaceInv(x)'
  BY LocalPreservesOthers
<1> QED
  BY <1>1 DEF WiringInv, ActionsFindTheirServer, NullServerOnlyAfterFailure

LEMMA SamePhases ==
  ASSUME WiringInv, \A w \in Workspace : Alive(w)' <=> Alive(w)
  PROVE  ExclusiveAddresses'
BY DEF WiringInv, ExclusiveAddresses, Alive

LEMMA CreatePreserves ==
  ASSUME TypeOK, WiringInv, fault = NoFault, NEW w \in Workspace, Create(w)
  PROVE  WiringInv'
<1>1. WorkspaceInv(w) /\ phase[w] = "unborn" /\ phase'[w] = "new"
  BY DEF WiringInv, Create, TypeOK
<1>2. Local(w)
  BY DEF Create, Local, TypeOK
<1>3. UNCHANGED <<registry, workspace, anytype, todo, actions, fault>>
  BY DEF Create
<1>4. actions[w] = {} /\ \A v \in VariablesOf(w) : ~workspace[v]
  BY <1>1 DEF WorkspaceInv, ActionsAreBacked, VariablesBound, Active
<1>5. WorkspaceInv(w)'
  BY <1>1, <1>3, <1>4 DEF WorkspaceInv, ActionsAreBacked, SetupProgress, VariablesServed,
                          VariablesBound, FailedPlainHasServer
<1>6. ExclusiveAddresses'
  BY DEF WiringInv, ExclusiveAddresses, Alive, Create, TypeOK
<1> QED
  BY <1>2, <1>3, <1>5, <1>6, LocalPreserves

LEMMA DestroyPreserves ==
  ASSUME TypeOK, WiringInv, fault = NoFault, NEW w \in Workspace, Destroy(w)
  PROVE  WiringInv'
<1>1. WorkspaceInv(w) /\ phase[w] = "new" /\ phase'[w] = "destroyed"
  BY DEF WiringInv, Destroy, TypeOK
<1>2. Local(w)
  BY DEF Destroy, Local, TypeOK
<1>3. UNCHANGED <<registry, workspace, anytype, todo, actions, fault>>
  BY DEF Destroy
<1>4. actions[w] = {} /\ \A v \in VariablesOf(w) : ~workspace[v]
  BY <1>1 DEF WorkspaceInv, ActionsAreBacked, VariablesBound, Active
<1>5. WorkspaceInv(w)'
  BY <1>1, <1>3, <1>4 DEF WorkspaceInv, ActionsAreBacked, SetupProgress, VariablesServed,
                          VariablesBound, FailedPlainHasServer
<1>6. ExclusiveAddresses'
  BY DEF WiringInv, ExclusiveAddresses, Alive, Destroy, TypeOK
<1> QED
  BY <1>2, <1>3, <1>5, <1>6, LocalPreserves

LEMMA BeginSetupPreserves ==
  ASSUME TypeOK, WiringInv, fault = NoFault, NEW w \in Workspace, BeginSetup(w)
  PROVE  WiringInv'
<1>1. /\ WorkspaceInv(w) /\ phase[w] = "new"
      /\ phase'[w] = "setup" /\ todo'[w] = VariablesOf(w)
  BY DEF WiringInv, BeginSetup, TypeOK
<1>2. Local(w)
  BY DEF BeginSetup, Local, TypeOK
<1>3. UNCHANGED <<registry, workspace, anytype, actions, fault>>
  BY DEF BeginSetup
<1>4. actions[w] = {} /\ \A v \in VariablesOf(w) : ~workspace[v]
  BY <1>1 DEF WorkspaceInv, ActionsAreBacked, VariablesBound, Active
<1>5. WorkspaceInv(w)'
  BY <1>1, <1>3, <1>4 DEF WorkspaceInv, ActionsAreBacked, SetupProgress, VariablesServed,
                          VariablesBound, FailedPlainHasServer
<1>6. ExclusiveAddresses'
  BY SamePhases DEF Alive, BeginSetup, TypeOK
<1> QED
  BY <1>2, <1>3, <1>5, <1>6, LocalPreserves

\* The workspace starts to run with every one of its variables served.
LEMMA RunSetupActionsPreserves ==
  ASSUME TypeOK, WiringInv, fault = NoFault, NEW w \in Workspace, RunSetupActions(w)
  PROVE  WiringInv'
<1> DEFINE a == AddressOf[w]
<1>1. /\ WorkspaceInv(w) /\ phase[w] = "setup" /\ todo[w] = {}
      /\ phase'[w] = "running" /\ Alive(w) /\ a \in Address
  BY ConfigurationAssumption DEF WiringInv, RunSetupActions, TypeOK, Alive
<1>2. UNCHANGED <<workspace, anytype, todo, actions>>
  BY DEF RunSetupActions
<1>3. \A v \in VariablesOf(w) : Wired(v) /\ actions[w] # {} /\ AddressFor(v) = a
  BY <1>1 DEF WorkspaceInv, SetupProgress, VariablesOf, AddressFor
<1>4. /\ fault' = NoFault
      /\ \A b \in Address \ {a} : registry'[b] = registry[b]
      /\ actions[w] # {} => registry[a] # NoEntry /\ registry'[a] = StartServer(registry[a])
  BY <1>1 DEF WorkspaceInv, ActionsAreBacked, RunSetupActions, RegistrySetup, TypeOK
<1>5. actions[w] # {} => /\ registry[a] \in SharedServer
                         /\ registry'[a] \in SharedServer
                         /\ registry'[a].server = "started"
                         /\ registry'[a].pvs = registry[a].pvs
                         /\ registry'[a].callbacks = registry[a].callbacks
  BY <1>1, <1>4, StartServerEffect DEF TypeOK
<1>6. Local(w)
  BY <1>1, <1>2, <1>4 DEF RunSetupActions, Local, TypeOK
<1>7. ActionsAreBacked(w)'
  BY <1>1, <1>2, <1>5, ConfigurationAssumption DEF WorkspaceInv, ActionsAreBacked, Active
<1>8. SetupProgress(w)' /\ FailedPlainHasServer(w)'
  BY <1>1, <1>2 DEF WorkspaceInv, SetupProgress, FailedPlainHasServer
<1>9. VariablesServed(w)'
  <2>1. ASSUME NEW v \in VariablesOf(w)
        PROVE  Served(v)'
    <3>1. WiredTo(registry[a], v) /\ actions[w] # {} /\ AddressOf[WorkspaceOf[v]] = a
      BY <1>3, <2>1 DEF Wired, AddressFor
    <3>2. registry'[a] # NoEntry /\ registry'[a].server = "started"
      BY <1>5, <3>1, ConfigurationAssumption
    <3>3. WiredTo(registry'[a], v)
      BY <1>5, <3>1, <3>2 DEF WiredTo, Serves
    <3> QED
      BY <3>1, <3>2, <3>3 DEF Served, Wired, AddressFor
  <2> QED
    BY <2>1 DEF VariablesServed
<1>10. VariablesBound(w)'
  BY <1>1, <1>2 DEF WorkspaceInv, VariablesBound, Active
<1>11. ExclusiveAddresses'
  BY <1>1, SamePhases DEF Alive, RunSetupActions, TypeOK
<1> QED
  BY <1>4, <1>6, <1>7, <1>8, <1>9, <1>10, <1>11, LocalPreserves DEF WorkspaceInv

LEMMA BeginTeardownPreserves ==
  ASSUME TypeOK, WiringInv, fault = NoFault, NEW w \in Workspace, BeginTeardown(w)
  PROVE  WiringInv'
<1>1. /\ WorkspaceInv(w) /\ phase[w] \in {"running", "failed"}
      /\ phase'[w] = "teardown" /\ todo'[w] = VariablesOf(w)
      /\ actions'[w] \in {{}, actions[w]}
  BY DEF WiringInv, BeginTeardown, TypeOK
<1>2. Local(w)
  BY DEF BeginTeardown, Local, TypeOK
<1>3. UNCHANGED <<registry, workspace, anytype, fault>>
  BY DEF BeginTeardown
<1>4. WorkspaceInv(w)'
  <2>1. ActionsAreBacked(w)'
    BY <1>1, <1>3 DEF WorkspaceInv, ActionsAreBacked, Active
  <2>2. SetupProgress(w)' /\ VariablesServed(w)' /\ FailedPlainHasServer(w)'
    BY <1>1 DEF SetupProgress, VariablesServed, FailedPlainHasServer
  <2>3. VariablesBound(w)'
    BY <1>1, <1>3 DEF WorkspaceInv, VariablesBound, Active
  <2> QED
    BY <2>1, <2>2, <2>3 DEF WorkspaceInv
<1>5. ExclusiveAddresses'
  BY <1>1, SamePhases DEF Alive, BeginTeardown, TypeOK
<1> QED
  BY <1>2, <1>3, <1>4, <1>5, LocalPreserves

\* The one registered action finds the server that it is to tear down.
LEMMA RunTeardownActionPreserves ==
  ASSUME TypeOK, WiringInv, fault = NoFault, NEW w \in Workspace, NEW k \in ActionKeys,
         RunTeardownAction(w, k)
  PROVE  WiringInv'
<1>1. /\ WorkspaceInv(w) /\ phase[w] = "teardown" /\ k \in actions[w] /\ Alive(w)
      /\ actions'[w] = actions[w] \ {k} /\ AddressOf[w] \in Address
  BY ConfigurationAssumption DEF WiringInv, RunTeardownAction, TypeOK, Alive
<1>2. actions[w] = {"PvAccessServer"} /\ registry[AddressOf[w]] # NoEntry
  BY <1>1 DEF WorkspaceInv, ActionsAreBacked
<1>3. fault' = NoFault /\ \A b \in Address \ {AddressOf[w]} : registry'[b] = registry[b]
  BY <1>1, <1>2 DEF RunTeardownAction, RegistryTeardown, TypeOK
<1>4. UNCHANGED <<workspace, anytype, phase, todo>>
  BY DEF RunTeardownAction
<1>5. Local(w)
  BY <1>1, <1>3, <1>4 DEF RunTeardownAction, Local, TypeOK
<1>6. actions'[w] = {}
  BY <1>1, <1>2
<1>7. WorkspaceInv(w)'
  BY <1>1, <1>4, <1>6 DEF WorkspaceInv, ActionsAreBacked, SetupProgress, VariablesServed,
                          VariablesBound, FailedPlainHasServer
<1>8. ExclusiveAddresses'
  BY <1>4, SamePhases DEF Alive
<1> QED
  BY <1>3, <1>5, <1>7, <1>8, LocalPreserves

LEMMA FinishTeardownPreserves ==
  ASSUME TypeOK, WiringInv, fault = NoFault, NEW w \in Workspace, FinishTeardown(w)
  PROVE  WiringInv'
<1>1. /\ WorkspaceInv(w) /\ phase[w] = "teardown" /\ phase'[w] = "new"
      /\ todo[w] = {} /\ actions[w] = {}
  BY DEF WiringInv, FinishTeardown, TypeOK
<1>2. Local(w)
  BY DEF FinishTeardown, Local, TypeOK
<1>3. UNCHANGED <<registry, workspace, anytype, todo, actions, fault>>
  BY DEF FinishTeardown
<1>4. WorkspaceInv(w)'
  BY <1>1, <1>3 DEF WorkspaceInv, ActionsAreBacked, SetupProgress, VariablesServed,
                    VariablesBound, FailedPlainHasServer
<1>5. ExclusiveAddresses'
  BY <1>1, SamePhases DEF Alive, FinishTeardown, TypeOK
<1> QED
  BY <1>2, <1>3, <1>4, <1>5, LocalPreserves

-----------------------------------------------------------------------------
(* Steps of one variable                                                   *)

LEMMA TeardownImplPreserves ==
  ASSUME TypeOK, WiringInv, fault = NoFault, NEW v \in Variable, TeardownImpl(v)
  PROVE  WiringInv'
<1> DEFINE w == WorkspaceOf[v]
<1>1. /\ w \in Workspace /\ WorkspaceInv(w) /\ phase[w] = "teardown"
      /\ todo'[w] = todo[w] \ {v} /\ ~workspace'[v] /\ anytype'[v] = "empty"
      /\ \A u \in Variable \ {v} :
           workspace'[u] = workspace[u] /\ anytype'[u] = anytype[u]
  <2>1. w \in Workspace /\ WorkspaceInv(w)
    BY VariableConfiguration DEF WiringInv
  <2> QED
    BY <2>1 DEF TeardownImpl, TypeOK
<1>2. UNCHANGED <<registry, phase, actions, fault>>
  BY DEF TeardownImpl
<1>3. Local(w)
  BY <1>1 DEF TeardownImpl, Local, TypeOK
<1>4. ActionsAreBacked(w)' /\ VariablesServed(w)' /\ FailedPlainHasServer(w)'
  BY <1>1, <1>2 DEF WorkspaceInv, ActionsAreBacked, VariablesServed, FailedPlainHasServer
<1>5. SetupProgress(w)'
  BY <1>1, <1>2 DEF WorkspaceInv, SetupProgress
<1>6. VariablesBound(w)'
  BY <1>1, <1>2 DEF WorkspaceInv, VariablesBound, VariablesOf
<1>7. ExclusiveAddresses'
  BY <1>2, SamePhases DEF Alive
<1> QED
  BY <1>1, <1>2, <1>3, <1>4, <1>5, <1>6, <1>7, LocalPreserves DEF WorkspaceInv

\* A set-up that throws fails its workspace: what it leaves of the variable is
\* either harmless to a Reset, or has a server.
LEMMA SetupThrowsPreserves ==
  ASSUME TypeOK, WiringInv, fault = NoFault, NEW v \in Variable,
         SetupImpl(v), SetupThrows(v)
  PROVE  WiringInv'
<1> DEFINE w == WorkspaceOf[v]
           a == AddressFor(v)
<1>1. /\ w \in Workspace /\ WorkspaceInv(w) /\ a = AddressOf[w] /\ a \in Address
      /\ phase[w] = "setup" /\ phase'[w] = "failed" /\ v \in todo[w]
  <2>1. w \in Workspace /\ WorkspaceInv(w) /\ a = AddressOf[w] /\ a \in Address
    BY VariableConfiguration DEF WiringInv
  <2>2. phase' = [phase EXCEPT ![w] = "failed"]
    BY DEF SetupThrows
  <2> QED
    BY <2>1, <2>2 DEF SetupImpl, TypeOK
<1>2. UNCHANGED <<todo, actions, fault>>
  BY DEF SetupImpl, SetupThrows
<1>10. /\ \A b \in Address \ {a} : registry'[b] = registry[b]
       /\ registry[a] # NoEntry =>
            registry'[a] # NoEntry /\ (registry[a].server # "null" => registry' = registry)
  BY ThrowsEffect, NoEntryIsNoServer
<1>3. /\ workspace'[v]
      /\ \A u \in Variable \ {v} : workspace'[u] = workspace[u] /\ anytype'[u] = anytype[u]
  BY DEF SetupImpl, SetupThrows, TypeOK
<1>4. Local(w)
  BY <1>1, <1>2, <1>3, <1>10 DEF SetupImpl, SetupThrows, Local, Alive, TypeOK
<1>5. ActionsAreBacked(w)' /\ VariablesServed(w)'
  BY <1>1, <1>2, <1>10 DEF WorkspaceInv, ActionsAreBacked, VariablesServed, Active
<1>9. VariablesBound(w)'
  BY <1>1, <1>3 DEF WorkspaceInv, VariablesBound, VariablesOf, Active
<1>6. SetupProgress(w)'
  BY <1>1, <1>2 DEF WorkspaceInv, SetupProgress
<1>7. FailedPlainHasServer(w)'
  <2>1. ASSUME NEW u \in VariablesOf(w), u # v, workspace'[u]
        PROVE  registry'[a] # NoEntry /\ registry'[a].server # "null"
    <3>1. u \in Variable /\ WorkspaceOf[u] = w /\ workspace[u]
      BY <1>3, <2>1 DEF VariablesOf
    <3>2. u \notin todo[w]
      BY <1>1, <2>1, <3>1 DEF WorkspaceInv, VariablesBound
    <3>3. Wired(u)
      BY <1>1, <2>1, <3>2 DEF WorkspaceInv, SetupProgress
    <3> QED
      BY <1>1, <1>10, <3>1, <3>3 DEF Wired, WiredTo, Serves, AddressFor
  <2>2. ASSUME Kind[v] = "plain", anytype'[v] # "empty", InitialValueParses(v, anytype'[v])
        PROVE  registry'[a] # NoEntry /\ registry'[a].server # "null"
    <3>1. TypeAttr[v] # "unparsable" /\ TypeAccepted(v) /\ anytype'[v] = SetupType(v)
      <4>1. CASE TypeAccepted(v)
        BY <2>2, <4>1 DEF SetupThrows, TypeAccepted, TypeOK
      <4>2. CASE ~TypeAccepted(v)
        <5>1. CASE TypeAttr[v] = "unparsable"
          <6>1. anytype[v] = "empty"
            BY <1>1 DEF WorkspaceInv, VariablesBound, VariablesOf
          <6>2. anytype'[v] = anytype[v]
            BY <4>2, <5>1 DEF SetupThrows
          <6> QED
            BY <2>2, <6>1, <6>2
        <5>2. CASE TypeAttr[v] # "unparsable"
          BY <2>2, <4>2, <5>2 DEF SetupThrows, TypeOK
        <5> QED
          BY <5>1, <5>2
      <4> QED
        BY <4>1, <4>2
    <3>2. registry' = [registry EXCEPT ![a] = EnsureServer(GetServer(a))]
      BY <2>2, <3>1 DEF SetupThrows
    <3>3. /\ EnsureServer(GetServer(a)) \in SharedServer
          /\ EnsureServer(GetServer(a)).server # "null"
      BY <1>1, GetServerType, EnsureServerEffect
    <3> QED
      BY <1>1, <3>2, <3>3, NoEntryIsNoServer DEF TypeOK
  <2> QED
    BY <1>1, <1>2, <2>1, <2>2 DEF FailedPlainHasServer, InitialValueParses, VariablesOf
<1>8. ExclusiveAddresses'
  BY <1>1, SamePhases DEF Alive, SetupThrows, TypeOK
<1> QED
  BY <1>1, <1>2, <1>4, <1>5, <1>6, <1>7, <1>8, <1>9,
     LocalPreserves DEF WorkspaceInv

\* A set-up that succeeds wires the variable, and no other variable of the
\* workspace loses its channel to it.
LEMMA SetupSucceedsPreserves ==
  ASSUME TypeOK, WiringInv, fault = NoFault, NEW v \in Variable,
         SetupImpl(v), SetupSucceeds(v)
  PROVE  WiringInv'
<1> DEFINE w == WorkspaceOf[v]
           a == AddressFor(v)
           t == SetupType(v)
           c == ChannelOf[v]
           value == ToServer(v, GetInitialValue(v, t))
           r == AddVariable(GetServer(a), c, value, v)
<1>1. /\ w \in Workspace /\ WorkspaceInv(w) /\ a = AddressOf[w] /\ a \in Address
      /\ phase[w] = "setup" /\ v \in todo[w] /\ c \in Channel
  <2>1. /\ w \in Workspace /\ WorkspaceInv(w) /\ a = AddressOf[w] /\ a \in Address
        /\ c \in Channel
    BY VariableConfiguration DEF WiringInv
  <2> QED
    BY <2>1 DEF SetupImpl
<1>2. value \in AnyValue
  <2>1. t \in AnyType
    <3>1. anytype[v] \in AnyType
      BY DEF TypeOK
    <3> QED
      BY <3>1, InitialValueType
  <2> QED
    BY <2>1, InitialValueType
<1>3. GetServer(a) \in SharedServer
  BY <1>1, GetServerType
<1>4. /\ r \in SharedServer
      /\ r.server # "null"
      /\ r.pvs[c] = value
      /\ r.callbacks[c] = v
      /\ \A d \in Channel \ {c} :
           r.pvs[d] = GetServer(a).pvs[d] /\ r.callbacks[d] = GetServer(a).callbacks[d]
  BY <1>1, <1>2, <1>3, AddVariableEffect
<1>5. registry' = [registry EXCEPT ![a] = r]
  BY DEF SetupSucceeds
<1> HIDE DEF r, value, t
<1>6. registry'[a] = r /\ \A b \in Address \ {a} : registry'[b] = registry[b]
  BY <1>1, <1>5 DEF TypeOK
<1>7. /\ UNCHANGED <<phase, fault>>
      /\ todo'[w] = todo[w] \ {v}
      /\ actions'[w] = actions[w] \cup {"PvAccessServer"}
      /\ workspace'[v]
      /\ \A u \in Variable \ {v} : workspace'[u] = workspace[u] /\ anytype'[u] = anytype[u]
  BY <1>1 DEF SetupImpl, SetupSucceeds, ActionKey, TypeOK
<1>8. Local(w)
  <2>1. \A x \in Workspace \ {w} :
          phase'[x] = phase[x] /\ todo'[x] = todo[x] /\ actions'[x] = actions[x]
    BY <1>7 DEF SetupSucceeds, TypeOK
  <2>2. \A u \in Variable : WorkspaceOf[u] # w =>
          workspace'[u] = workspace[u] /\ anytype'[u] = anytype[u]
    BY <1>7
  <2>3. Alive(w) /\ \A b \in Address \ {AddressOf[w]} : registry'[b] = registry[b]
    BY <1>1, <1>6 DEF Alive
  <2> QED
    BY <2>1, <2>2, <2>3 DEF Local
<1>9. ActionsAreBacked(w)'
  <2>1. actions'[w] = {"PvAccessServer"}
    BY <1>1, <1>7 DEF WorkspaceInv, ActionsAreBacked
  <2>2. registry'[AddressOf[w]] # NoEntry
    <3>1. NoEntry \notin SharedServer
      BY ConfigurationAssumption
    <3> QED
      BY <1>1, <1>4, <1>6, <3>1
  <2> QED
    BY <1>1, <1>7, <2>1, <2>2 DEF ActionsAreBacked, Active
<1>10. SetupProgress(w)'
  <2>1. ASSUME NEW u \in VariablesOf(w) \ todo'[w]
        PROVE  Wired(u)' /\ actions'[w] # {}
    <3>1. u \in Variable /\ WorkspaceOf[u] = w /\ AddressFor(u) = a
      BY <1>1, <2>1 DEF VariablesOf, AddressFor
    <3>2. CASE u = v
      <4>1. WiredTo(r, v)
        BY <1>2, <1>4, ConfigurationAssumption, SharedServerAssumption DEF WiredTo, Serves
      <4> QED
        BY <1>6, <1>7, <3>1, <3>2, <4>1 DEF Wired, AddressFor
    <3>3. CASE u # v
      <4>1. Wired(u) /\ ChannelOf[u] # c /\ ChannelOf[u] \in Channel
        <5>1. u \in VariablesOf(w) \ todo[w]
          BY <1>7, <2>1, <3>3
        <5>2. Wired(u)
          BY <1>1, <5>1 DEF WorkspaceInv, SetupProgress
        <5>3. ChannelOf[u] # c
          BY <3>1, <3>3, ChannelAssumption
        <5> QED
          BY <3>1, <5>2, <5>3, VariableConfiguration
      <4>2. WiredTo(GetServer(a), u)
        BY <3>1, <4>1 DEF Wired, WiredTo, GetServer
      <4>3. WiredTo(r, u)
        BY <1>4, <4>1, <4>2, ConfigurationAssumption DEF WiredTo, Serves
      <4> QED
        BY <1>6, <1>7, <3>1, <4>3 DEF Wired, AddressFor
    <3> QED
      BY <3>2, <3>3
  <2>2. todo'[w] \subseteq VariablesOf(w)
    BY <1>1, <1>7 DEF WorkspaceInv, SetupProgress
  <2> QED
    BY <2>1, <2>2 DEF SetupProgress
<1>11. VariablesServed(w)' /\ FailedPlainHasServer(w)'
  BY <1>1, <1>7 DEF VariablesServed, FailedPlainHasServer
<1>12. VariablesBound(w)'
  BY <1>1, <1>7 DEF WorkspaceInv, VariablesBound, VariablesOf, Active
<1>13. ExclusiveAddresses'
  BY <1>7, SamePhases DEF Alive
<1> QED
  BY <1>1, <1>7, <1>8, <1>9, <1>10, <1>11, <1>12, <1>13, LocalPreserves DEF WorkspaceInv

\* The calls of instructions into a variable are quiet.
LEMMA UseIsQuiet ==
  ASSUME TypeOK, WiringInv, NEW v \in Variable,
         \/ GetValue(v)
         \/ ResetImpl(v)
         \/ \E x \in Payload : SetValueImpl(v, x)
  PROVE  Quiet
<1> DEFINE s == GetServer(AddressFor(v))
           c == ChannelOf[v]
<1>1. s \in SharedServer /\ c \in Channel /\ anytype[v] \in AnyType
  BY ConfigurationAssumption, GetServerType DEF AddressFor, TypeOK
<1>2. ASSUME NEW value \in AnyValue, CallServer(v, SetServerValue(s, c, value))
      PROVE  Quiet
  BY <1>1, <1>2, SetServerValueEffect, CallServerQuiet
<1>3. CASE GetValue(v)
  BY <1>1, <1>3, CallServerQuiet DEF GetValue
<1>4. CASE ResetImpl(v)
  <2>1. ToServer(v, GetInitialValue(v, anytype[v])) \in AnyValue
    BY <1>1, InitialValueType
  <2> QED
    BY <1>2, <1>4, <2>1 DEF ResetImpl
<1>5. ASSUME NEW x \in Payload, SetValueImpl(v, x)
      PROVE  Quiet
  <2> DEFINE t == IF Kind[v] = "plain" THEN anytype[v] ELSE "scalar"
  <2>1. t \in AnyType
    BY <1>1 DEF AnyType
  <2>2. ToServer(v, TypedValue(t, x)) \in AnyValue
    BY <2>1, ToServerType
  <2> QED
    BY <1>2, <1>5, <2>2 DEF SetValueImpl
<1> QED
  BY <1>3, <1>4, <1>5

-----------------------------------------------------------------------------
(* The theorems about wiring                                               *)

LEMMA InitWiring == Init => WiringInv
<1> SUFFICES ASSUME Init PROVE WiringInv
  OBVIOUS
<1>1. ExclusiveAddresses /\ ActionsFindTheirServer /\ NullServerOnlyAfterFailure
  BY DEF Init, ExclusiveAddresses, Alive, ActionsFindTheirServer, NullServerOnlyAfterFailure
<1>2. ASSUME NEW w \in Workspace
      PROVE  WorkspaceInv(w)
  <2>1. phase[w] = "unborn" /\ actions[w] = {} /\ todo[w] = {}
    BY DEF Init
  <2>2. \A v \in VariablesOf(w) : ~workspace[v] /\ anytype[v] = "empty"
    BY DEF Init, VariablesOf
  <2> QED
    BY <2>1, <2>2 DEF WorkspaceInv, ActionsAreBacked, SetupProgress, VariablesServed,
                      VariablesBound, FailedPlainHasServer
<1> QED
  BY <1>1, <1>2 DEF WiringInv

LEMMA NextWiring ==
  ASSUME TypeOK, WiringInv, Next
  PROVE  WiringInv'
<1>1. fault = NoFault
  BY DEF Next
<1>2. ASSUME NEW w \in Workspace, OwnerStep(w)
      PROVE  WiringInv'
  BY <1>1, <1>2, CreatePreserves, BeginSetupPreserves, RunSetupActionsPreserves,
     BeginTeardownPreserves, FinishTeardownPreserves, DestroyPreserves,
     RunTeardownActionPreserves DEF OwnerStep
<1>3. ASSUME NEW v \in Variable, VariableStep(v)
      PROVE  WiringInv'
  <2>1. CASE SetupImpl(v)
    BY <1>1, <2>1, SetupThrowsPreserves, SetupSucceedsPreserves DEF SetupImpl
  <2>2. CASE TeardownImpl(v)
    BY <1>1, <2>2, TeardownImplPreserves
  <2>3. CASE GetValue(v) \/ ResetImpl(v) \/ \E x \in Payload : SetValueImpl(v, x)
    BY <1>1, <2>3, UseIsQuiet, QuietPreserves
  <2> QED
    BY <1>3, <2>1, <2>2, <2>3 DEF VariableStep
<1>4. ASSUME NEW a \in Address, ServerStep(a)
      PROVE  WiringInv'
  BY <1>1, <1>4, ServerStepQuiet, QuietPreserves
<1> QED
  BY <1>2, <1>3, <1>4 DEF Next

LEMMA StepWiring == TypeOK /\ WiringInv /\ [Next]_vars => WiringInv'
<1>1. ASSUME WiringInv, UNCHANGED vars
      PROVE  WiringInv'
  BY <1>1 DEF vars, WiringInv, ExclusiveAddresses, Alive, WorkspaceInv,
     ActionsAreBacked, SetupProgress, VariablesServed, VariablesBound,
     FailedPlainHasServer, InitialValueParses, ActionsFindTheirServer,
     NullServerOnlyAfterFailure, Served, Wired, AddressFor
<1> QED
  BY <1>1, NextWiring

\* The inductive invariant: an entry of the registry belongs to one live
\* workspace, which holds one pair of actions for it, and what was set up of
\* that workspace is wired (SetupImpl, TeardownImpl and the registry).
THEOREM WiringInvariant == Spec => []WiringInv
BY InitWiring, StepWiring, TypeCorrect, PTL DEF Spec

\* While a workspace runs, each of its variables is published by a started
\* server and wired to its own callback, whatever other workspaces do and
\* however often set-ups fail: the registry, the shared action key and the
\* callback map together keep what PvAccessServer variables promise.
THEOREM RunningVariablesAreServed == Spec => []ServedWhileRunning
<1>1. WiringInv => ServedWhileRunning
  BY ConfigurationAssumption
     DEF WiringInv, WorkspaceInv, VariablesServed, VariablesOf, ServedWhileRunning, Running
<1> QED
  BY <1>1, WiringInvariant, PTL

\* Setup() and Teardown() of the registry never throw: one teardown action for
\* both kinds of variable is neither missing nor one too many.
THEOREM RegistryActionsSucceed == Spec => []ActionsFindTheirServer
<1>1. WiringInv => ActionsFindTheirServer
  BY DEF WiringInv
<1> QED
  BY <1>1, WiringInvariant, PTL

\* A null m_server is dereferenced only for a workspace whose set-up failed.
THEOREM NullServerNeedsFailure == Spec => []NullServerOnlyAfterFailure
<1>1. WiringInv => NullServerOnlyAfterFailure
  BY DEF WiringInv
<1> QED
  BY <1>1, WiringInvariant, PTL

\* Reset of a plain variable never dereferences a null m_server, even after a
\* failed set-up (the guard of ResetImpl and the order of SetupImpl).
THEOREM PlainResetSucceeds == Spec => PlainResetIsSafe
<1>1. ASSUME WiringInv, NEW v \in Variable, Kind[v] = "plain", ResetImpl(v)
      PROVE  fault' = fault
  <2> DEFINE a == AddressFor(v)
             w == WorkspaceOf[v]
  <2>1. /\ w \in Workspace /\ v \in VariablesOf(w) /\ a = AddressOf[w]
        /\ WorkspaceInv(w)
    BY <1>1, ConfigurationAssumption DEF WiringInv, VariablesOf, AddressFor
  <2>2. /\ workspace[v] /\ anytype[v] # "empty" /\ InitialValueParses(v, anytype[v])
        /\ phase[w] \in {"failed", "running"}
    BY <1>1, <2>1 DEF ResetImpl, Resettable, CallServer, Usable, WorkspaceInv, VariablesBound, Active
  <2>3. registry[a] # NoEntry /\ registry[a].server # "null"
    <3>1. CASE phase[w] = "failed"
      BY <1>1, <2>1, <2>2, <3>1 DEF WorkspaceInv, FailedPlainHasServer
    <3>2. CASE phase[w] = "running"
      BY <2>1, <3>2 DEF WorkspaceInv, VariablesServed, Served, Wired, WiredTo
    <3> QED
      BY <2>2, <3>1, <3>2
  <2> QED
    BY <1>1, <2>3 DEF ResetImpl, CallServer, GetServer
<1>2. WiringInv /\ [Next]_vars =>
        [\A v \in Variable : Kind[v] = "plain" /\ ResetImpl(v) => fault' = fault]_vars
  BY <1>1
<1> QED
  BY <1>2, WiringInvariant, PTL DEF Spec, PlainResetIsSafe

\* A set-up or teardown touches the server of its own workspace only, which is
\* not running before and after, and calls and changes of values leave all
\* wiring alone: the callback map of a running workspace never changes under
\* DelegateCallbacks().
THEOREM WiringStaysPut == Spec => WiringIsStable
<1> DEFINE Stays(v) ==
      LET a == AddressFor(v)
      IN /\ registry'[a] # NoEntry
         /\ registry'[a].callbacks = registry[a].callbacks
         /\ \A c \in Channel : (registry'[a].pvs[c] = NoPV) <=> (registry[a].pvs[c] = NoPV)
<1>1. ASSUME TypeOK, WiringInv, Next, NEW v \in Variable, Running(v), Running(v)'
      PROVE  Stays(v)
  <2> DEFINE a == AddressFor(v)
             w == WorkspaceOf[v]
  <2>1. /\ w \in Workspace /\ a \in Address /\ a = AddressOf[w] /\ v \in VariablesOf(w)
        /\ phase[w] = "running" /\ phase'[w] = "running"
    BY <1>1, VariableConfiguration DEF VariablesOf, Running
  <2>2. registry[a] # NoEntry
    BY <1>1, <2>1 DEF WiringInv, WorkspaceInv, VariablesServed, Served, Wired, WiredTo
  <2>3. \A x \in Workspace : Alive(x) /\ x # w => AddressOf[x] # a
    BY <1>1, <2>1 DEF WiringInv, ExclusiveAddresses, Alive
  <2>4. Quiet => Stays(v)
    BY <2>1, <2>2 DEF Quiet, SameWiring
  <2>5. registry'[a] = registry[a] => Stays(v)
    BY <2>2
  <2>6. ASSUME NEW x \in Workspace, OwnerStep(x)
        PROVE  registry'[a] = registry[a]
    <3>1. CASE RunSetupActions(x)
      <4>1. AddressOf[x] # a
        BY <2>1, <2>3, <3>1 DEF RunSetupActions, Alive
      <4> QED
        BY <1>1, <2>1, <3>1, <4>1 DEF RunSetupActions, RegistrySetup, TypeOK
    <3>2. CASE \E k \in ActionKeys : RunTeardownAction(x, k)
      <4>1. AddressOf[x] # a
        BY <2>1, <2>3, <3>2 DEF RunTeardownAction, Alive
      <4> QED
        BY <1>1, <2>1, <3>2, <4>1 DEF RunTeardownAction, RegistryTeardown, TypeOK
    <3>3. CASE \/ Create(x) \/ BeginSetup(x) \/ BeginTeardown(x) \/ FinishTeardown(x)
               \/ Destroy(x)
      BY <3>3 DEF Create, BeginSetup, BeginTeardown, FinishTeardown, Destroy
    <3> QED
      BY <2>6, <3>1, <3>2, <3>3 DEF OwnerStep
  <2>7. ASSUME NEW u \in Variable, SetupImpl(u) \/ TeardownImpl(u)
        PROVE  registry'[a] = registry[a]
    <3>1. /\ WorkspaceOf[u] \in Workspace /\ AddressFor(u) = AddressOf[WorkspaceOf[u]]
          /\ phase[WorkspaceOf[u]] \in {"setup", "teardown"}
      BY <2>7, ConfigurationAssumption DEF SetupImpl, TeardownImpl, AddressFor
    <3>2. AddressFor(u) # a
      BY <2>1, <2>3, <3>1 DEF Alive
    <3> QED
      BY <1>1, <2>1, <2>7, <3>2
         DEF SetupImpl, SetupThrows, SetupSucceeds, TeardownImpl, TypeOK
  <2>8. ASSUME NEW u \in Variable, VariableStep(u)
        PROVE  Stays(v)
    BY <1>1, <2>4, <2>5, <2>7, <2>8, UseIsQuiet DEF VariableStep
  <2>9. ASSUME NEW b \in Address, ServerStep(b)
        PROVE  Stays(v)
    BY <1>1, <2>4, <2>9, ServerStepQuiet
  <2> QED
    BY <1>1, <2>5, <2>6, <2>8, <2>9 DEF Next
<1>2. TypeOK /\ WiringInv /\ [Next]_vars =>
        [\A v \in Variable : Running(v) /\ Running(v)' => Stays(v)]_vars
  BY <1>1
<1> QED
  BY <1>2, TypeCorrect, WiringInvariant, PTL DEF Spec, WiringIsStable
===============================================================================
