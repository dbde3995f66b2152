----------------------- MODULE PvAccessServerVariables -----------------------
(***************************************************************************)
(* The PvAccessServer and PvAccessEncodedServer variables of several       *)
(* workspaces, the process-wide registry that gives each workspace its     *)
(* PvAccessSharedServer, and the two parties that drive them: the owner of *)
(* a workspace, which sets it up, uses it and tears it down, and the       *)
(* PvAccess server's own thread, which takes puts from clients and calls   *)
(* the variables back.                                                     *)
(*                                                                         *)
(* The registry is keyed by the address of the workspace, and an address   *)
(* may be given to a new workspace once the old one is gone.               *)
(*                                                                         *)
(* One action is one call into a handler.  The calls of different owners   *)
(* are taken to exclude each other; SharedServerRegistry says when the     *)
(* registry, which has no lock, lets them.                                 *)
(***************************************************************************)
EXTENDS Naturals, FiniteSets, PvAccessSharedServer

CONSTANTS Workspace,   \* workspace objects
          Address,     \* what a const Workspace* can point to
          AddressOf,   \* [Workspace -> Address]
          WorkspaceOf, \* [Variable -> Workspace]
          Kind,        \* [Variable -> {"plain", "encoded"}]
          ChannelOf,   \* attribute "channel"
          TypeAttr,    \* attribute "type": what the JSON type parser makes of it
          ValueAttr,   \* attribute "value": what the JSON value parser makes of it
          ParsedType,  \* the type that a "type" attribute of "ok" describes
          Initial,     \* the payload in an "ok" attribute "value"
          Default,     \* the payload of a default-constructed value
          Refusable,   \* variables with a name, type or value that the PvAccess
                       \* server may refuse, also where it knows no such name yet
          NoEntry,     \* the registry has no entry for an address
          NoFault,     \* the program has not failed
          MaxEvents    \* bound: unreported changes in one server

CONSTANTS RunsActionsAfterFailure, \* does a workspace whose set-up failed still
                                   \* run the teardown actions it had collected?
          TeardownOrders           \* in which orders a workspace tears down

ASSUME ConfigurationAssumption ==
  /\ AddressOf \in [Workspace -> Address]
  /\ WorkspaceOf \in [Variable -> Workspace]
  /\ Kind \in [Variable -> {"plain", "encoded"}]
  /\ ChannelOf \in [Variable -> Channel]
  /\ TypeAttr \in [Variable -> {"absent", "empty", "ok", "unparsable"}]
  /\ ValueAttr \in [Variable -> {"absent", "ok", "unparsable"}]
  /\ ParsedType \in [Variable -> {"scalar", "struct"}]
  /\ Initial \in [Variable -> Payload]
  /\ Default \in Payload
  /\ Refusable \subseteq Variable
  /\ NoEntry \notin SharedServer
  /\ NoFault \notin [kind : {"null server", "unknown server", "destroyed variable"},
                     workspace : Workspace]
  /\ MaxEvents \in Nat
  /\ RunsActionsAfterFailure \in BOOLEAN
  /\ TeardownOrders \subseteq {"variables first", "actions first"}
  /\ TeardownOrders # {}

\* The attribute definitions and the constraint of the two constructors; the
\* decoded values of encoded variables are modelled as scalars.
ASSUME AttributeAssumption ==
  \A v \in Variable :
    /\ Kind[v] = "plain" => TypeAttr[v] # "absent"
    /\ Kind[v] = "encoded" => ParsedType[v] = "scalar"
    /\ TypeAttr[v] = "absent" => ValueAttr[v] = "absent"

\* Two variables of one workspace that name one channel are not covered.
ASSUME ChannelAssumption ==
  \A u, v \in Variable :
    u # v /\ WorkspaceOf[u] = WorkspaceOf[v] => ChannelOf[u] # ChannelOf[v]

VARIABLES
  registry,  \* [Address -> SharedServer or NoEntry], m_servers
  workspace, \* [Variable -> BOOLEAN], m_workspace # nullptr
  anytype,   \* [Variable -> AnyType], m_anytype or m_initial_type
  notified,  \* [Variable -> AnyValue or NoPV], the last value passed to Notify
  phase,     \* [Workspace -> Phase], the life of a workspace
  todo,      \* [Workspace -> SUBSET Variable], still to be set up or torn down
  actions,   \* [Workspace -> SUBSET STRING], keys of the SetupTeardownActions
  fault      \* NoFault, or what ended the defined behaviour of the program

vars == <<registry, workspace, anytype, notified, phase, todo, actions, fault>>

Phase == {"unborn", "new", "setup", "failed", "running", "teardown", "destroyed"}

\* null server:        m_server of the shared server is dereferenced but null
\* unknown server:     the registry throws in a setup or teardown action
\* destroyed variable: a registered lambda outlives the variable it captured
FaultKind == {"null server", "unknown server", "destroyed variable"}

Fault == [kind : FaultKind, workspace : Workspace]

ActionKeys == {"PvAccessServer", "PvAccessEncodedServer"}

TypeOK ==
  /\ registry \in [Address -> SharedServer \cup {NoEntry}]
  /\ workspace \in [Variable -> BOOLEAN]
  /\ anytype \in [Variable -> AnyType]
  /\ notified \in [Variable -> AnyValue \cup {NoPV}]
  /\ phase \in [Workspace -> Phase]
  /\ todo \in [Workspace -> SUBSET Variable]
  /\ actions \in [Workspace -> SUBSET ActionKeys]
  /\ fault \in Fault \cup {NoFault}

Init ==
  /\ registry = [a \in Address |-> NoEntry]
  /\ workspace = [v \in Variable |-> FALSE]
  /\ anytype = [v \in Variable |-> "empty"]
  /\ notified = [v \in Variable |-> NoPV]
  /\ phase = [w \in Workspace |-> "unborn"]
  /\ todo = [w \in Workspace |-> {}]
  /\ actions = [w \in Workspace |-> {}]
  /\ fault = NoFault

VariablesOf(w) == {v \in Variable : WorkspaceOf[v] = w}
AddressFor(v) == AddressOf[WorkspaceOf[v]]
Alive(w) == phase[w] \notin {"unborn", "destroyed"}

-----------------------------------------------------------------------------
(* PvAccessSharedServerRegistry                                            *)

GetServer(a) == IF registry[a] = NoEntry THEN NewSharedServer ELSE registry[a]

\* Setup() and Teardown() throw for an address that has no entry.
RegistrySetup(w) ==
  LET a == AddressOf[w] IN
  IF registry[a] = NoEntry
  THEN /\ fault' = [kind |-> "unknown server", workspace |-> w]
       /\ UNCHANGED registry
  ELSE /\ registry' = [registry EXCEPT ![a] = StartServer(@)]
       /\ UNCHANGED fault

\* Mutant: one server for the whole process.
RegistryTeardownOfAll(w) ==
  /\ registry' = [a \in Address |-> NoEntry]
  /\ UNCHANGED fault

\* Mutant: the server goes, its entry stays.
RegistryTeardownKeepsEntry(w) ==
  /\ registry' = [registry EXCEPT ![AddressOf[w]] =
                    IF @ = NoEntry THEN NoEntry ELSE ResetServer(@)]
  /\ UNCHANGED fault

\* Mutant: the teardown action does nothing.
RegistryTeardownForgotten(w) == UNCHANGED <<registry, fault>>

\* Teardown() resets the server of the entry and erases the entry.
RegistryTeardown(w) ==
  LET a == AddressOf[w] IN
  IF registry[a] = NoEntry
  THEN /\ fault' = [kind |-> "unknown server", workspace |-> w]
       /\ UNCHANGED registry
  ELSE /\ registry' = [registry EXCEPT ![a] = NoEntry]
       /\ UNCHANGED fault

-----------------------------------------------------------------------------
(* How the two kinds of variable see a process variable                    *)

\* The type that SetupImpl stores; "empty" where there is no "type" attribute.
SetupType(v) == IF TypeAttr[v] = "ok" THEN ParsedType[v] ELSE "empty"

TypeAccepted(v) == IF Kind[v] = "plain" THEN TypeAttr[v] = "ok"
                                        ELSE TypeAttr[v] # "unparsable"

\* GetInitialValue() throws when the value does not parse as one of type t.
InitialValueParses(v, t) ==
  \/ ValueAttr[v] = "absent"
  \/ ValueAttr[v] = "ok" /\ TypeAttr[v] # "unparsable" /\ t = SetupType(v)

GetInitialValue(v, t) ==
  TypedValue(t, IF ValueAttr[v] = "ok" THEN Initial[v] ELSE Default)

ToServer(v, value) ==
  IF Kind[v] = "plain" THEN PackIntoStructIfScalar(value) ELSE Encode(value)

\* Mutant: a plain variable passes on what the server reports.
FromServerMutant(v, value) == IF Kind[v] = "plain" THEN value ELSE Decode(value)

FromServer(v, value) ==
  IF Kind[v] = "plain" THEN ConvertToTypedAnyValue(value, anytype[v]) ELSE Decode(value)

\* Mutant: each kind registers actions of its own.
ActionKeyMutant(v) ==
  IF Kind[v] = "plain" THEN "PvAccessServer" ELSE "PvAccessEncodedServer"

\* Both kinds register their actions under PvAccessServerVariable::Type.
ActionKey(v) == "PvAccessServer"

-----------------------------------------------------------------------------
(* Setup of a workspace: each variable's SetupImpl, then the actions they  *)
(* returned, one for each key.                                             *)

Create(w) ==
  /\ phase[w] = "unborn"
  /\ \A x \in Workspace : Alive(x) => AddressOf[x] # AddressOf[w]
  /\ phase' = [phase EXCEPT ![w] = "new"]
  /\ UNCHANGED <<registry, workspace, anytype, notified, todo, actions, fault>>

BeginSetup(w) ==
  /\ phase[w] = "new"
  /\ phase' = [phase EXCEPT ![w] = "setup"]
  /\ todo' = [todo EXCEPT ![w] = VariablesOf(w)]
  /\ UNCHANGED <<registry, workspace, anytype, notified, actions, fault>>

\* The exceptions of SetupImpl: m_workspace is set before any of them, and the
\* shared server is found, or made, before its AddVariable() can throw.  Whether
\* the external server takes a name that it already has, or throws, is left
\* open, as is whether it takes a Refusable variable.
SetupThrows(v) ==
  LET t == SetupType(v)
      a == AddressFor(v)
  IN /\ \/ /\ ~TypeAccepted(v)
           /\ anytype' = IF TypeAttr[v] = "unparsable" THEN anytype
                         ELSE [anytype EXCEPT ![v] = "empty"]
           /\ UNCHANGED registry
        \/ /\ TypeAccepted(v) /\ ~InitialValueParses(v, t)
           /\ anytype' = [anytype EXCEPT ![v] = t]
           /\ UNCHANGED registry
        \/ /\ TypeAccepted(v) /\ InitialValueParses(v, t)
           /\ Serves(GetServer(a), ChannelOf[v]) \/ v \in Refusable
           /\ anytype' = [anytype EXCEPT ![v] = t]
           /\ registry' = [registry EXCEPT ![a] = EnsureServer(GetServer(a))]
     /\ phase' = [phase EXCEPT ![WorkspaceOf[v]] = "failed"]
     /\ UNCHANGED <<notified, todo, actions>>

SetupSucceeds(v) ==
  LET t   == SetupType(v)
      a   == AddressFor(v)
      w   == WorkspaceOf[v]
      val == GetInitialValue(v, t)
  IN /\ TypeAccepted(v) /\ InitialValueParses(v, t)
     /\ anytype' = [anytype EXCEPT ![v] = t]
     /\ registry' = [registry EXCEPT ![a] =
                       AddVariable(GetServer(a), ChannelOf[v], ToServer(v, val), v)]
     /\ notified' = [notified EXCEPT ![v] = val]
     /\ todo' = [todo EXCEPT ![w] = @ \ {v}]
     /\ actions' = [actions EXCEPT ![w] = @ \cup {ActionKey(v)}]
     /\ UNCHANGED phase

SetupImpl(v) ==
  /\ phase[WorkspaceOf[v]] = "setup"
  /\ v \in todo[WorkspaceOf[v]]
  /\ workspace' = [workspace EXCEPT ![v] = TRUE]
  /\ SetupThrows(v) \/ SetupSucceeds(v)
  /\ UNCHANGED fault

\* With several keys the registry is called for each of them, with the same
\* outcome.
RunSetupActions(w) ==
  /\ phase[w] = "setup"
  /\ todo[w] = {}
  /\ IF actions[w] = {} THEN UNCHANGED <<registry, fault>> ELSE RegistrySetup(w)
  /\ phase' = [phase EXCEPT ![w] = "running"]
  /\ UNCHANGED <<workspace, anytype, notified, todo, actions>>

-----------------------------------------------------------------------------
(* Use of a variable by instructions, also after a failed set-up.  A call  *)
(* that throws or returns false before it reaches the shared server        *)
(* changes nothing and is not a step.                                      *)

Usable(v) == phase[WorkspaceOf[v]] \in {"new", "failed", "running"}

\* GetSharedServer() throws without m_workspace, and m_server is then
\* dereferenced as it is; s1 is what the call makes of the shared server.
CallServer(v, s1) ==
  LET a == AddressFor(v)
      s == GetServer(a)
  IN /\ Usable(v)
     /\ workspace[v]
     /\ IF s.server = "null"
        THEN /\ registry' = [registry EXCEPT ![a] = s]
             /\ fault' = [kind |-> "null server", workspace |-> WorkspaceOf[v]]
        ELSE /\ registry' = [registry EXCEPT ![a] = s1]
             /\ UNCHANGED fault
     /\ UNCHANGED <<workspace, anytype, notified, phase, todo, actions>>

RoomForEvent(v) == Len(GetServer(AddressFor(v)).events) < MaxEvents

\* What GetValueImpl and IsAvailableImpl read of a variable.
Reading(v) == FromServer(v, GetServer(AddressFor(v)).pvs[ChannelOf[v]])

\* GetValueImpl and IsAvailableImpl leave the shared server as it is.
GetValue(v) == CallServer(v, GetServer(AddressFor(v)))

\* Mutant: a scalar is not packed.
SetValueImplUnpacked(v, x) ==
  LET t == IF Kind[v] = "plain" THEN anytype[v] ELSE "scalar"
  IN /\ t # "empty"
     /\ RoomForEvent(v)
     /\ CallServer(v, SetServerValue(GetServer(AddressFor(v)), ChannelOf[v],
                                     TypedValue(t, x)))

SetValueImpl(v, x) ==
  LET t == IF Kind[v] = "plain" THEN anytype[v] ELSE "scalar"
  IN /\ t # "empty"
     /\ RoomForEvent(v)
     /\ CallServer(v, SetServerValue(GetServer(AddressFor(v)), ChannelOf[v],
                                     ToServer(v, TypedValue(t, x))))

\* Mutant: the test for an empty type is dropped.
ResetImplMutant(v) ==
  /\ InitialValueParses(v, anytype[v])
  /\ RoomForEvent(v)
  /\ CallServer(v, SetServerValue(GetServer(AddressFor(v)), ChannelOf[v],
                                  ToServer(v, GetInitialValue(v, anytype[v]))))

\* Reset() returns at once for a variable that does not know its workspace and
\* for a plain one without a type; an encoded one may do without.
Resettable(v) == workspace[v] /\ (Kind[v] = "plain" => anytype[v] # "empty")

ResetImpl(v) ==
  /\ Resettable(v)
  /\ InitialValueParses(v, anytype[v])
  /\ RoomForEvent(v)
  /\ CallServer(v, SetServerValue(GetServer(AddressFor(v)), ChannelOf[v],
                                  ToServer(v, GetInitialValue(v, anytype[v]))))

-----------------------------------------------------------------------------
(* The thread of the PvAccess server                                       *)

\* A client's put.
ClientPut(a, c, value) ==
  /\ registry[a] # NoEntry
  /\ registry[a].server = "started"
  /\ registry[a].pvs[c] # NoPV
  /\ value \in ClientValues(registry[a].pvs[c])
  /\ Len(registry[a].events) < MaxEvents
  /\ registry' = [registry EXCEPT ![a] = Change(@, c, value)]
  /\ UNCHANGED <<workspace, anytype, notified, phase, todo, actions, fault>>

\* DelegateCallbacks() and the lambda of the variable that it finds.
Deliver(a) ==
  /\ registry[a] # NoEntry
  /\ registry[a].events # << >>
  /\ registry' = [registry EXCEPT ![a].events = Tail(@)]
  /\ LET v == CallbackTarget(registry[a]) IN
     IF v = NoVariable
     THEN UNCHANGED <<notified, fault>>
     ELSE IF Alive(WorkspaceOf[v])
          THEN /\ notified' = [notified EXCEPT ![v] =
                                 FromServer(v, Head(registry[a].events).value)]
               /\ UNCHANGED fault
          ELSE /\ fault' = [kind      |-> "destroyed variable",
                            workspace |-> WorkspaceOf[v]]
               /\ UNCHANGED notified
  /\ UNCHANGED <<workspace, anytype, phase, todo, actions>>

-----------------------------------------------------------------------------
(* Teardown of a workspace: the TeardownImpl of each variable and the      *)
(* teardown actions that the set-up collected.                             *)

BeginTeardown(w) ==
  /\ phase[w] \in {"running", "failed"}
  /\ phase' = [phase EXCEPT ![w] = "teardown"]
  /\ todo' = [todo EXCEPT ![w] = VariablesOf(w)]
  /\ actions' = IF phase[w] = "failed" /\ ~RunsActionsAfterFailure
                THEN [actions EXCEPT ![w] = {}] ELSE actions
  /\ UNCHANGED <<registry, workspace, anytype, notified, fault>>

\* Mutants: m_workspace, or m_anytype, is not reset.
TeardownImplKeepsWorkspace(v) ==
  LET w == WorkspaceOf[v]
  IN /\ phase[w] = "teardown"
     /\ v \in todo[w]
     /\ actions[w] = {} \/ "variables first" \in TeardownOrders
     /\ anytype' = [anytype EXCEPT ![v] = "empty"]
     /\ todo' = [todo EXCEPT ![w] = @ \ {v}]
     /\ UNCHANGED <<registry, workspace, notified, phase, actions, fault>>

TeardownImplKeepsType(v) ==
  LET w == WorkspaceOf[v]
  IN /\ phase[w] = "teardown"
     /\ v \in todo[w]
     /\ actions[w] = {} \/ "variables first" \in TeardownOrders
     /\ workspace' = [workspace EXCEPT ![v] = FALSE]
     /\ todo' = [todo EXCEPT ![w] = @ \ {v}]
     /\ UNCHANGED <<registry, anytype, notified, phase, actions, fault>>

TeardownImpl(v) ==
  LET w == WorkspaceOf[v]
  IN /\ phase[w] = "teardown"
     /\ v \in todo[w]
     /\ actions[w] = {} \/ "variables first" \in TeardownOrders
     /\ anytype' = [anytype EXCEPT ![v] = "empty"]
     /\ workspace' = [workspace EXCEPT ![v] = FALSE]
     /\ todo' = [todo EXCEPT ![w] = @ \ {v}]
     /\ UNCHANGED <<registry, notified, phase, actions, fault>>

RunTeardownAction(w, k) ==
  /\ phase[w] = "teardown"
  /\ k \in actions[w]
  /\ todo[w] = {} \/ "actions first" \in TeardownOrders
  /\ RegistryTeardown(w)
  /\ actions' = [actions EXCEPT ![w] = @ \ {k}]
  /\ UNCHANGED <<workspace, anytype, notified, phase, todo>>

\* A workspace that was torn down can be set up again, or is destroyed
\* together with its variables.
FinishTeardown(w) ==
  /\ phase[w] = "teardown"
  /\ todo[w] = {}
  /\ actions[w] = {}
  /\ phase' = [phase EXCEPT ![w] = "new"]
  /\ UNCHANGED <<registry, workspace, anytype, notified, todo, actions, fault>>

Destroy(w) ==
  /\ phase[w] = "new"
  /\ phase' = [phase EXCEPT ![w] = "destroyed"]
  /\ UNCHANGED <<registry, workspace, anytype, notified, todo, actions, fault>>

-----------------------------------------------------------------------------
OwnerStep(w) ==
  \/ Create(w) \/ BeginSetup(w) \/ RunSetupActions(w)
  \/ BeginTeardown(w) \/ FinishTeardown(w) \/ Destroy(w)
  \/ \E k \in ActionKeys : RunTeardownAction(w, k)

VariableStep(v) ==
  \/ SetupImpl(v) \/ GetValue(v) \/ ResetImpl(v) \/ TeardownImpl(v)
  \/ \E x \in Payload : SetValueImpl(v, x)

ServerStep(a) ==
  \/ Deliver(a)
  \/ \E c \in Channel, value \in AnyValue : ClientPut(a, c, value)

\* Nothing is said about a program whose behaviour is no longer defined.
Next ==
  /\ fault = NoFault
  /\ \/ \E w \in Workspace : OwnerStep(w)
     \/ \E v \in Variable : VariableStep(v)
     \/ \E a \in Address : ServerStep(a)

\* The PvAccess server's thread keeps reporting changes.
Fairness == \A a \in Address : WF_vars(fault = NoFault /\ Deliver(a))

Spec == Init /\ [][Next]_vars /\ Fairness

-----------------------------------------------------------------------------
(* Properties                                                              *)

Running(v) == phase[WorkspaceOf[v]] = "running"

\* s has the process variable of v and calls v back when it changes.
WiredTo(s, v) ==
  /\ s # NoEntry
  /\ Serves(s, ChannelOf[v])
  /\ s.callbacks[ChannelOf[v]] = v

Wired(v) == WiredTo(registry[AddressFor(v)], v)

Served(v) == Wired(v) /\ registry[AddressFor(v)].server = "started"

\* As long as a workspace runs, each of its server variables has its process
\* variable in a started server, wired to the callback of that variable and
\* no other: no set-up or teardown of another workspace, of an earlier
\* workspace at the same address, or of a variable of the other kind takes
\* it away (PvAccessSharedServerRegistry and the shared action key).
ServedWhileRunning == \A v \in Variable : Running(v) => Served(v)

\* The setup and teardown actions of a workspace never find the registry
\* without an entry for it, so Setup() and Teardown() of the registry do not
\* throw: the variables of both kinds register one teardown among them.
ActionsFindTheirServer == fault # NoFault => fault.kind # "unknown server"

\* A null m_server is only ever dereferenced on behalf of a workspace whose
\* set-up failed: GetValue, SetValue and Reset of a variable that was set up
\* are safe (GetSharedServer() and PvAccessSharedServer::SetValue()).
NullServerOnlyAfterFailure ==
  fault # NoFault /\ fault.kind = "null server" => phase[fault.workspace] = "failed"

\* No client's put reaches the lambda of a variable that no longer exists.
NoCallbackIntoDestroyedVariable ==
  fault # NoFault => fault.kind # "destroyed variable"

\* Set-ups that got no further than an AddVariable() which the PvAccess server
\* refused left this at an address: a server without process variables and
\* callbacks that nobody has started.
LeftByRefusal(a) ==
  /\ registry[a] = EnsureServer(NewSharedServer)
  /\ \E v \in Refusable : AddressFor(v) = a

\* A workspace that is torn down or gone leaves nothing in the process-wide
\* registry, whether its set-up succeeded or failed at a type or a value, before
\* or after others of its variables were added.  The one exception is a set-up
\* whose first AddVariable() is refused: it returns no actions, and leaves what
\* GetSharedServer() and EnsureServer() made, which serves no client, calls no
\* variable and is taken over by the next set-up at the address.
RegistryReleased ==
  \A a \in Address :
    (\A w \in Workspace :
       AddressOf[w] = a => phase[w] \in {"unborn", "new", "destroyed"})
      => registry[a] = NoEntry \/ LeftByRefusal(a)

NoEventFor(v) ==
  LET s == registry[AddressFor(v)]
  IN \A i \in 1..Len(s.events) : s.events[i].channel # ChannelOf[v]

\* When no change of its process variable is left to report, what a running
\* variable last told the workspace is what a GetValue would read.
NotificationsCatchUp ==
  \A v \in Variable : Running(v) /\ NoEventFor(v) => notified[v] = Reading(v)

\* A plain server variable tells the workspace only values of its own type,
\* never the structure that the process variable packs a scalar in.
NotifiesItsType ==
  \A v \in Variable :
    Kind[v] = "plain" /\ notified[v] # NoPV => notified[v].form = ParsedType[v]

\* While a workspace runs, nobody adds or removes a process variable or
\* rewires a callback of its server.
WiringIsStable ==
  [][\A v \in Variable :
       Running(v) /\ Running(v)' =>
         LET a == AddressFor(v)
         IN /\ registry'[a] # NoEntry
            /\ registry'[a].callbacks = registry[a].callbacks
            /\ \A c \in Channel : (registry'[a].pvs[c] = NoPV) <=>
                                   (registry[a].pvs[c] = NoPV)]_vars

\* Reset of a plain variable is safe at any time: after a failed set-up either
\* the type is empty and it returns, or the initial value does not parse and
\* it throws, or the server exists.
PlainResetIsSafe ==
  [][\A v \in Variable : Kind[v] = "plain" /\ ResetImpl(v) => fault' = fault]_vars

-----------------------------------------------------------------------------
(* The inductive invariant behind the safety properties                    *)

Active == {"setup", "failed", "running", "teardown"}

\* Two live workspaces have different addresses.
ExclusiveAddresses ==
  \A w, x \in Workspace :
    Alive(w) /\ Alive(x) /\ AddressOf[w] = AddressOf[x] => w = x

\* A workspace holds at most one pair of actions, and as long as it does the
\* registry has a server for it.
ActionsAreBacked(w) ==
  actions[w] # {} => /\ phase[w] \in Active
                     /\ actions[w] = {"PvAccessServer"}
                     /\ registry[AddressOf[w]] # NoEntry

\* What was set up so far is wired, and its actions were collected.
SetupProgress(w) ==
  /\ todo[w] \subseteq VariablesOf(w)
  /\ phase[w] = "setup" =>
       \A v \in VariablesOf(w) \ todo[w] : Wired(v) /\ actions[w] # {}

VariablesServed(w) ==
  phase[w] = "running" => \A v \in VariablesOf(w) : Served(v)

\* A variable knows its workspace, and has a type, at most from its set-up
\* until its teardown.
VariablesBound(w) ==
  \A v \in VariablesOf(w) :
    /\ anytype[v] # "empty" => workspace[v]
    /\ workspace[v] => /\ phase[w] \in Active
                       /\ phase[w] = "setup" => v \notin todo[w]
                       /\ phase[w] = "teardown" => v \in todo[w]

\* A plain variable whose initial value parses, of a failed set-up, has a server.
FailedPlainHasServer(w) ==
  \A v \in VariablesOf(w) :
    /\ phase[w] = "failed"
    /\ workspace[v]
    /\ Kind[v] = "plain" /\ anytype[v] # "empty"
    /\ InitialValueParses(v, anytype[v])
    => /\ registry[AddressOf[w]] # NoEntry
       /\ registry[AddressOf[w]].server # "null"

WorkspaceInv(w) ==
  /\ ActionsAreBacked(w)
  /\ SetupProgress(w)
  /\ VariablesServed(w)
  /\ VariablesBound(w)
  /\ FailedPlainHasServer(w)

\* The conjunction that every step preserves: from it follow the properties
\* about wiring and about null and unknown servers.
WiringInv ==
  /\ ExclusiveAddresses
  /\ \A w \in Workspace : WorkspaceInv(w)
  /\ ActionsFindTheirServer
  /\ NullServerOnlyAfterFailure

-----------------------------------------------------------------------------
(* The inductive invariant behind notifications and the end of workspaces, *)
(* if these run their teardown actions after a failed set-up too           *)

\* The set-up of v has succeeded and its teardown has not begun.
SetUp(v) ==
  LET w == WorkspaceOf[v]
  IN phase[w] = "running" \/ (phase[w] = "setup" /\ v \notin todo[w])

\* The server of an address belongs to a workspace that will tear it down, or
\* has nothing in it.
OwnedInv(a) ==
  \/ LeftByRefusal(a)
  \/ \E w \in Workspace : /\ AddressOf[w] = a
                          /\ phase[w] \in Active
                          /\ fault = NoFault => actions[w] # {}

\* The server has the process variables of its own workspace only, each with
\* the callback of the variable that added it.
CallbackInv(a) ==
  \A c \in Channel :
    LET u == registry[a].callbacks[c]
        w == WorkspaceOf[u]
    IN /\ u = NoVariable <=> registry[a].pvs[c] = NoPV
       /\ u # NoVariable => /\ ChannelOf[u] = c
                            /\ AddressOf[w] = a
                            /\ phase[w] \in Active
                            /\ phase[w] = "setup" => u \notin todo[w]

\* Only changes of its own process variables are left to report, the last one
\* of each being what the process variable holds.
QueueInv(s) ==
  \A i \in 1..Len(s.events) :
    LET c == s.events[i].channel
    IN /\ s.pvs[c] # NoPV
       /\ \/ s.events[i].value = s.pvs[c]
          \/ \E j \in 1..Len(s.events) : i < j /\ s.events[j].channel = c

CatchUpInv(v) ==
  SetUp(v) => /\ anytype[v] = SetupType(v)
              /\ NoEventFor(v) => notified[v] = Reading(v)

ReportInv ==
  /\ \A a \in Address : registry[a] # NoEntry =>
                          OwnedInv(a) /\ CallbackInv(a) /\ QueueInv(registry[a])
  /\ \A v \in Variable : CatchUpInv(v)

\* How the process variable of a plain variable looks, once it is there, and
\* every change of it that is still to be reported; the variable keeps the type
\* that it needs to undo it.
PublishedForm(v) == IF ParsedType[v] = "scalar" THEN "packed" ELSE "struct"

TypedInv(s) ==
  \A c \in Channel :
    LET v == s.callbacks[c]
    IN v # NoVariable /\ Kind[v] = "plain" =>
         /\ anytype[v] = ParsedType[v]
         /\ s.pvs[c].form = PublishedForm(v)
         /\ \A i \in 1..Len(s.events) :
              s.events[i].channel = c => s.events[i].value.form = PublishedForm(v)

ServersAreTyped == \A a \in Address : registry[a] # NoEntry => TypedInv(registry[a])

\* As long as the program has not failed, the registry has no entry for a
\* server that was never made or was reset.
EntriesHaveServers ==
  fault = NoFault =>
    \A a \in Address : registry[a] # NoEntry => registry[a].server # "null"

-----------------------------------------------------------------------------
(* What is promised of the variables, whoever shares a server with them    *)

\* The changes of one channel among those that a server has to report.
ChannelValues(events, c) ==
  LET own[i \in 0..Len(events)] ==
        IF i = 0 THEN << >>
        ELSE IF events[i].channel # c THEN own[i - 1]
        ELSE Append(own[i - 1], events[i].value)
  IN own[Len(events)]

\* The process variable that v has at the server s, if any, and the changes of
\* it that are left to report.
OwnPV(s, v) == IF WiredTo(s, v) THEN s.pvs[ChannelOf[v]] ELSE NoPV

OwnChanges(s, v) == IF WiredTo(s, v) THEN ChannelValues(s.events, ChannelOf[v]) ELSE << >>

\* What the workspace of v makes of what its process variable can hold.
ViewOf ==
  [v \in Variable |->
     [d \in AnyValue |-> IF Kind[v] = "plain" THEN ConvertToTypedAnyValue(d, ParsedType[v])
                                              ELSE Decode(d)]]

\* Sharing is invisible: the variables of all workspaces, on servers that they
\* share and at addresses that are used again, implement registers that have
\* nothing to do with each other; no change is lost, doubled, reordered or told
\* to another variable, and each is told in the type of the variable's "type".
\* Every change is told, unless a failed set-up ends the program before.
Registers == INSTANCE PublishedVariables WITH
  Value <- AnyValue,
  View <- ViewOf,
  published <- [v \in Variable |-> OwnPV(registry[AddressFor(v)], v)],
  changes <- [v \in Variable |-> OwnChanges(registry[AddressFor(v)], v)],
  notice <- notified

SharingIsInvisible ==
  /\ Registers!PubSafety
  /\ [](fault = NoFault) => Registers!PubLiveness
==============================================================================
