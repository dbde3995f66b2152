---------------------- MODULE PvAccessNotificationsProofs ----------------------
(***************************************************************************)
(* Proofs about what server variables tell their workspace, and about what *)
(* a workspace leaves behind, for workspaces that run their teardown       *)
(* actions also after a set-up that failed; and that each server variable  *)
(* is then a register of its own, as PublishedVariables specifies.         *)
(***************************************************************************)
EXTENDS PvAccessServerVariablesProofs, SequenceTheorems, WellFoundedInduction

-----------------------------------------------------------------------------
(* Queues of unreported changes                                            *)

LEMMA NewQueue == QueueInv(NewSharedServer)
BY DEF QueueInv, NewSharedServer

\* A change is reported after all others.
LEMMA ChangeQueue ==
  ASSUME NEW s \in SharedServer, NEW c \in Channel, NEW value \in AnyValue,
         QueueInv(s), s.pvs[c] # NoPV
  PROVE  LET r == Change(s, c, value) IN
         /\ QueueInv(r)
         /\ \E i \in 1..Len(r.events) : r.events[i].channel = c
         /\ \A i \in 1..Len(s.events) : i \in 1..Len(r.events) /\ r.events[i] = s.events[i]
<1> DEFINE e == [channel |-> c, value |-> value]
           r == Change(s, c, value)
           n == Len(s.events)
<1>1. s.events \in Seq(Event) /\ e \in Event
  BY DEF SharedServer, Event
<1>2. /\ r.events = Append(s.events, e)
      /\ \A d \in Channel : r.pvs[d] = IF d = c THEN value ELSE s.pvs[d]
  BY DEF Change, SharedServer
<1>3. /\ n \in Nat
      /\ Len(r.events) = n + 1
      /\ r.events[n + 1] = e
      /\ \A i \in 1..n : r.events[i] = s.events[i] /\ s.events[i] \in Event
  BY <1>1, <1>2, AppendProperties
<1>4. value # NoPV
  BY SharedServerAssumption
<1> HIDE DEF r, n
<1>5. ASSUME NEW i \in 1..Len(r.events)
      PROVE  LET d == r.events[i].channel IN
             /\ r.pvs[d] # NoPV
             /\ \/ r.events[i].value = r.pvs[d]
                \/ \E j \in 1..Len(r.events) : i < j /\ r.events[j].channel = d
  <2>1. CASE i = n + 1
    BY <1>2, <1>3, <1>4, <2>1
  <2>2. CASE i \in 1..n
    <3> DEFINE d == s.events[i].channel
    <3>1. d \in Channel /\ r.events[i] = s.events[i]
      BY <1>3, <2>2 DEF Event
    <3>2. /\ s.pvs[d] # NoPV
          /\ \/ s.events[i].value = s.pvs[d]
             \/ \E j \in 1..n : i < j /\ s.events[j].channel = d
      BY <2>2 DEF QueueInv, n
    <3>3. CASE d = c
      <4>1. n + 1 \in 1..Len(r.events) /\ i < n + 1 /\ r.events[n + 1].channel = d
        BY <1>3, <2>2, <3>3
      <4> QED
        BY <1>2, <1>4, <3>1, <3>3, <4>1
    <3>4. CASE d # c
      BY <1>2, <1>3, <3>1, <3>2, <3>4
    <3> QED
      BY <3>3, <3>4
  <2> QED
    BY <1>3, <2>1, <2>2
<1>6. QueueInv(r)
  BY <1>5 DEF QueueInv
<1> QED
  BY <1>3, <1>6 DEF r, n

\* The oldest change leaves the queue.
LEMMA TailQueue ==
  ASSUME NEW s \in SharedServer, QueueInv(s), s.events # << >>
  PROVE  LET r == [s EXCEPT !.events = Tail(@)]
             e == Head(s.events)
         IN /\ QueueInv(r)
            /\ e = s.events[1] /\ 1 \in 1..Len(s.events)
            /\ s.pvs[e.channel] # NoPV
            /\ \/ e.value = s.pvs[e.channel]
               \/ \E i \in 1..Len(r.events) : r.events[i].channel = e.channel
            /\ \A i \in 1..Len(s.events) :
                 i # 1 => \E j \in 1..Len(r.events) : r.events[j] = s.events[i]
<1> DEFINE r == [s EXCEPT !.events = Tail(@)]
           n == Len(s.events)
<1>1. s.events \in Seq(Event) /\ r.events = Tail(s.events) /\ r.pvs = s.pvs
  BY DEF SharedServer
<1>2. /\ n \in Nat \ {0}
      /\ Len(r.events) = n - 1
      /\ Head(s.events) = s.events[1]
      /\ \A i \in 1..(n - 1) : r.events[i] = s.events[i + 1]
  BY <1>1, HeadTailProperties, EmptySeq, LenProperties
<1>3. r.pvs = s.pvs
  BY <1>1
<1> HIDE DEF r, n
<1>4. \A i \in 1..n : /\ s.pvs[s.events[i].channel] # NoPV
                      /\ \/ s.events[i].value = s.pvs[s.events[i].channel]
                         \/ \E j \in 1..n : i < j /\ s.events[j].channel = s.events[i].channel
  BY DEF QueueInv, n
<1>5. ASSUME NEW i \in 1..n, i # 1
      PROVE  i - 1 \in 1..Len(r.events) /\ r.events[i - 1] = s.events[i]
  BY <1>2, <1>5
<1>6. ASSUME NEW i \in 1..Len(r.events)
      PROVE  LET d == r.events[i].channel IN
             /\ r.pvs[d] # NoPV
             /\ \/ r.events[i].value = r.pvs[d]
                \/ \E j \in 1..Len(r.events) : i < j /\ r.events[j].channel = d
  <2>1. i + 1 \in 1..n /\ r.events[i] = s.events[i + 1]
    BY <1>2
  <2>2. ASSUME NEW j \in 1..n, i + 1 < j
        PROVE  j - 1 \in 1..Len(r.events) /\ i < j - 1 /\ r.events[j - 1] = s.events[j]
    <3>1. i \in Nat /\ j \in Nat /\ n \in Nat
      BY <1>2
    <3>2. j # 1 /\ i < j - 1
      BY <2>2, <3>1
    <3> QED
      BY <1>5, <3>2
  <2> QED
    BY <1>3, <1>4, <2>1, <2>2
<1>7. QueueInv(r)
  BY <1>6 DEF QueueInv
<1>8. 1 \in 1..n
  BY <1>2
<1>9. \/ s.events[1].value = s.pvs[s.events[1].channel]
      \/ \E i \in 1..Len(r.events) : r.events[i].channel = s.events[1].channel
  <2>1. ASSUME NEW j \in 1..n, 1 < j
        PROVE  j - 1 \in 1..Len(r.events) /\ r.events[j - 1] = s.events[j]
    BY <1>5, <2>1
  <2> QED
    BY <1>4, <1>8, <2>1
<1> QED
  BY <1>2, <1>4, <1>5, <1>7, <1>8, <1>9 DEF r, n

\* A process variable that is added has no unreported changes.
LEMMA AddQueue ==
  ASSUME NEW s \in SharedServer, NEW c \in Channel, NEW value \in AnyValue,
         NEW v \in Variable, QueueInv(s), s.pvs[c] = NoPV
  PROVE  LET r == AddVariable(s, c, value, v) IN
         /\ QueueInv(r)
         /\ r.events = s.events
         /\ \A i \in 1..Len(s.events) : s.events[i].channel # c
<1> DEFINE r == AddVariable(s, c, value, v)
<1>1. r.events = s.events
  BY DEF AddVariable, EnsureServer, SharedServer
<1>2. \A d \in Channel \ {c} : r.pvs[d] = s.pvs[d]
  BY AddVariableEffect
<1>3. \A i \in 1..Len(s.events) : s.events[i].channel \in Channel \ {c}
  <2>1. s.events \in Seq(Event)
    BY DEF SharedServer
  <2>2. \A i \in 1..Len(s.events) : s.events[i] \in Event
    BY <2>1, ElementOfSeq
  <2> QED
    BY <2>2 DEF QueueInv, Event
<1> HIDE DEF r
<1>4. QueueInv(r)
  BY <1>1, <1>2, <1>3 DEF QueueInv
<1> QED
  BY <1>1, <1>3, <1>4 DEF r

\* What a refused AddVariable() leaves where it made the server: nothing in it.
LEMMA UnusedServer ==
  LET s == EnsureServer(NewSharedServer) IN
  /\ s \in SharedServer /\ s # NoEntry
  /\ s.server = "stopped"
  /\ s.events = << >>
  /\ QueueInv(s)
  /\ \A c \in Channel : s.pvs[c] = NoPV /\ s.callbacks[c] = NoVariable
<1> DEFINE s == EnsureServer(NewSharedServer)
<1>1. s \in SharedServer /\ s # NoEntry
  BY NewSharedServerType, EnsureServerEffect, NoEntryIsNoServer
<1>2. /\ s.server = "stopped"
      /\ s.events = << >>
      /\ \A c \in Channel : s.pvs[c] = NoPV /\ s.callbacks[c] = NoVariable
  BY DEF EnsureServer, NewSharedServer
<1> HIDE DEF s
<1>3. QueueInv(s)
  BY <1>2 DEF QueueInv
<1> QED
  BY <1>1, <1>2, <1>3 DEF s

-----------------------------------------------------------------------------
(* What the invariant says of one server and of one variable               *)

ServerInv(a) ==
  registry[a] # NoEntry => OwnedInv(a) /\ CallbackInv(a) /\ QueueInv(registry[a])

LEMMA ReportInvParts ==
  ReportInv <=> (\A a \in Address : ServerInv(a)) /\ (\A v \in Variable : CatchUpInv(v))
BY DEF ReportInv, ServerInv

\* A variable that is set up is wired, and its workspace is the only live one
\* at its address.
LEMMA SetUpIsWired ==
  ASSUME TypeOK, WiringInv, NEW v \in Variable, SetUp(v)
  PROVE  LET a == AddressFor(v)
             w == WorkspaceOf[v]
         IN /\ w \in Workspace /\ a \in Address /\ a = AddressOf[w]
            /\ phase[w] \in Active /\ Alive(w)
            /\ registry[a] # NoEntry /\ registry[a] \in SharedServer
            /\ GetServer(a) = registry[a]
            /\ registry[a].server # "null"
            /\ ChannelOf[v] \in Channel
            /\ registry[a].pvs[ChannelOf[v]] # NoPV
            /\ registry[a].callbacks[ChannelOf[v]] = v
            /\ \A x \in Workspace : Alive(x) /\ AddressOf[x] = a => x = w
<1> DEFINE a == AddressFor(v)
           w == WorkspaceOf[v]
<1>1. w \in Workspace /\ a \in Address /\ a = AddressOf[w] /\ ChannelOf[v] \in Channel
  BY ConfigurationAssumption DEF AddressFor
<1>2. phase[w] \in Active /\ Alive(w)
  BY DEF SetUp, Active, Alive
<1>3. v \in VariablesOf(w) /\ WorkspaceInv(w)
  BY <1>1 DEF VariablesOf, WiringInv
<1>4. Wired(v)
  BY <1>3 DEF SetUp, WorkspaceInv, SetupProgress, VariablesServed, Served
<1>5. /\ registry[a] # NoEntry
      /\ Serves(registry[a], ChannelOf[v])
      /\ registry[a].callbacks[ChannelOf[v]] = v
  BY <1>4 DEF Wired, WiredTo
<1> QED
  BY <1>1, <1>2, <1>5 DEF TypeOK, Serves, GetServer, WiringInv, ExclusiveAddresses

\* The workspace of a callback owns the server that has the callback.
LEMMA CallbackOwner ==
  ASSUME TypeOK, WiringInv, ReportInv, fault = NoFault,
         NEW a \in Address, registry[a] # NoEntry,
         NEW c \in Channel, registry[a].callbacks[c] # NoVariable
  PROVE  LET u == registry[a].callbacks[c]
             w == WorkspaceOf[u]
         IN /\ u \in Variable /\ w \in Workspace
            /\ ChannelOf[u] = c /\ AddressOf[w] = a /\ AddressFor(u) = a
            /\ phase[w] \in Active /\ actions[w] # {}
            /\ phase[w] = "setup" => u \notin todo[w]
            /\ \A x \in Workspace : Alive(x) /\ AddressOf[x] = a => x = w
<1> DEFINE u == registry[a].callbacks[c]
           w == WorkspaceOf[u]
<1>1. u \in Variable /\ w \in Workspace
  <2>1. registry[a] \in SharedServer
    BY DEF TypeOK
  <2>2. u \in Variable
    BY <2>1 DEF SharedServer
  <2> QED
    BY <2>2, ConfigurationAssumption
<1>2. OwnedInv(a) /\ CallbackInv(a)
  BY DEF ReportInv
<1>3. /\ ChannelOf[u] = c /\ AddressOf[w] = a
      /\ phase[w] \in Active
      /\ phase[w] = "setup" => u \notin todo[w]
  BY <1>2 DEF CallbackInv
<1>4. \A x \in Workspace : Alive(x) /\ AddressOf[x] = a => x = w
  BY <1>1, <1>3 DEF WiringInv, ExclusiveAddresses, Active, Alive
<1>5. PICK x \in Workspace : AddressOf[x] = a /\ phase[x] \in Active /\ actions[x] # {}
  BY <1>2, UnusedServer DEF OwnedInv, LeftByRefusal
<1>6. x = w
  BY <1>4, <1>5 DEF Active, Alive
<1> QED
  BY <1>1, <1>3, <1>4, <1>5, <1>6 DEF AddressFor

-----------------------------------------------------------------------------
(* Steps of a workspace that leave process variables and queues alone     *)

SameContents(a) ==
  /\ registry[a] = NoEntry /\ registry'[a] # NoEntry => LeftByRefusal(a)'
  /\ registry[a] # NoEntry => /\ registry'[a] # NoEntry
                              /\ registry'[a].pvs = registry[a].pvs
                              /\ registry'[a].events = registry[a].events
                              /\ registry'[a].callbacks = registry[a].callbacks
  /\ registry'[a] = registry[a] \/ OwnedInv(a)'

LEMMA SameRegistry ==
  ASSUME registry' = registry
  PROVE  \A a \in Address : SameContents(a)
BY DEF SameContents

\* Workspace w goes on; if it owns a server it keeps on owning it, and nothing
\* is set up by the step.
OwnerGoesOn(w) ==
  /\ \A x \in Workspace \ {w} :
       phase'[x] = phase[x] /\ todo'[x] = todo[x] /\ actions'[x] = actions[x]
  /\ phase[w] \in Active /\ actions[w] # {} => phase'[w] \in Active /\ actions'[w] # {}
  /\ phase[w] \in Active /\ phase'[w] = "setup" =>
       phase[w] = "setup" /\ todo'[w] \subseteq todo[w]
  /\ \A v \in Variable : SetUp(v)' => SetUp(v) /\ anytype'[v] = anytype[v]
  /\ notified' = notified
  /\ fault' = NoFault

LEMMA OwnerKeeps ==
  ASSUME fault = NoFault, NEW w \in Workspace, OwnerGoesOn(w), NEW a \in Address,
         OwnedInv(a), ~LeftByRefusal(a)
  PROVE  OwnedInv(a)'
<1>1. PICK x \in Workspace : AddressOf[x] = a /\ phase[x] \in Active /\ actions[x] # {}
  BY DEF OwnedInv
<1>2. phase'[x] \in Active /\ actions'[x] # {}
  BY <1>1 DEF OwnerGoesOn
<1> QED
  BY <1>1, <1>2 DEF OwnedInv

LEMMA OwnerStepPreservesReports ==
  ASSUME TypeOK, WiringInv, ReportInv, fault = NoFault,
         NEW w \in Workspace, OwnerGoesOn(w), \A a \in Address : SameContents(a)
  PROVE  ReportInv'
<1>3. ASSUME NEW a \in Address, registry[a] = NoEntry, registry'[a] # NoEntry
      PROVE  (OwnedInv(a) /\ CallbackInv(a) /\ QueueInv(registry[a]))'
  <2>1. LeftByRefusal(a)' /\ registry'[a] = EnsureServer(NewSharedServer)
    BY <1>3 DEF SameContents, LeftByRefusal
  <2> QED
    BY <2>1, UnusedServer DEF OwnedInv, CallbackInv, QueueInv
<1>4. ASSUME NEW a \in Address, registry[a] # NoEntry, registry'[a] # NoEntry
      PROVE  (OwnedInv(a) /\ CallbackInv(a) /\ QueueInv(registry[a]))'
  <2>1. /\ registry[a] # NoEntry
        /\ registry'[a].pvs = registry[a].pvs
        /\ registry'[a].events = registry[a].events
        /\ registry'[a].callbacks = registry[a].callbacks
        /\ registry'[a] = registry[a] \/ OwnedInv(a)'
    BY <1>4 DEF SameContents
  <2>2. OwnedInv(a) /\ CallbackInv(a) /\ QueueInv(registry[a])
    BY <2>1 DEF ReportInv
  <2>3. OwnedInv(a)'
    <3>1. CASE registry'[a] = registry[a] /\ LeftByRefusal(a)
      BY <3>1 DEF OwnedInv, LeftByRefusal, AddressFor
    <3>2. CASE registry'[a] = registry[a] /\ ~LeftByRefusal(a)
      BY <2>2, <3>2, OwnerKeeps DEF OwnedInv
    <3> QED
      BY <2>1, <3>1, <3>2
  <2>4. ASSUME NEW c \in Channel, registry[a].callbacks[c] # NoVariable
        PROVE  LET u == registry[a].callbacks[c]
                   x == WorkspaceOf[u]
               IN /\ ChannelOf[u] = c /\ AddressOf[x] = a
                  /\ phase'[x] \in Active
                  /\ phase'[x] = "setup" => u \notin todo'[x]
    BY <2>1, <2>4, CallbackOwner DEF OwnerGoesOn
  <2>5. CallbackInv(a)'
    BY <2>1, <2>2, <2>4 DEF CallbackInv
  <2>6. QueueInv(registry[a])'
    BY <2>1, <2>2 DEF QueueInv
  <2> QED
    BY <2>3, <2>5, <2>6
<1>2. ASSUME NEW v \in Variable, SetUp(v)'
      PROVE  anytype'[v] = SetupType(v) /\ (NoEventFor(v)' => notified'[v] = Reading(v)')
  <2> DEFINE a == AddressFor(v)
  <2>1. SetUp(v) /\ anytype'[v] = anytype[v] /\ notified'[v] = notified[v]
    BY <1>2 DEF OwnerGoesOn
  <2>2. registry[a] # NoEntry /\ GetServer(a) = registry[a] /\ a \in Address
    BY <2>1, SetUpIsWired
  <2>3. /\ registry'[a] # NoEntry
        /\ registry'[a].pvs = registry[a].pvs
        /\ registry'[a].events = registry[a].events
    BY <2>2 DEF SameContents
  <2>4. anytype[v] = SetupType(v) /\ (NoEventFor(v) => notified[v] = Reading(v))
    BY <2>1 DEF ReportInv, CatchUpInv
  <2>5. NoEventFor(v)' => NoEventFor(v)
    BY <2>3 DEF NoEventFor, AddressFor
  <2>6. Reading(v)' = Reading(v)
    BY <2>1, <2>2, <2>3 DEF Reading, GetServer, FromServer, AddressFor
  <2> QED
    BY <2>1, <2>4, <2>5, <2>6
<1> QED
  BY <1>2, <1>3, <1>4 DEF ReportInv, CatchUpInv, SetupType

LEMMA LifeGoesOn ==
  ASSUME TypeOK, WiringInv, fault = NoFault, RunsActionsAfterFailure,
         NEW w \in Workspace,
         \/ Create(w) \/ BeginSetup(w) \/ BeginTeardown(w) \/ FinishTeardown(w)
         \/ Destroy(w)
  PROVE  OwnerGoesOn(w) /\ \A a \in Address : SameContents(a)
<1>1. UNCHANGED <<registry, anytype, notified, fault>>
  BY DEF Create, BeginSetup, BeginTeardown, FinishTeardown, Destroy
<1>2. \A x \in Workspace \ {w} :
        phase'[x] = phase[x] /\ todo'[x] = todo[x] /\ actions'[x] = actions[x]
  BY DEF TypeOK, Create, BeginSetup, BeginTeardown, FinishTeardown, Destroy
<1>3. phase[w] \in Active /\ actions[w] # {} => phase'[w] \in Active /\ actions'[w] # {}
  BY DEF TypeOK, Active, Create, BeginSetup, BeginTeardown, FinishTeardown, Destroy
<1>4. phase[w] \in Active => phase'[w] # "setup"
  BY DEF TypeOK, Active, Create, BeginSetup, BeginTeardown, FinishTeardown, Destroy
<1>5. ASSUME NEW v \in Variable, SetUp(v)'
      PROVE  SetUp(v)
  <2>1. CASE WorkspaceOf[v] = w
    <3>1. v \in VariablesOf(w)
      BY <2>1 DEF VariablesOf
    <3> QED
      BY <1>5, <2>1, <3>1 DEF SetUp, TypeOK, Create, BeginSetup, BeginTeardown,
         FinishTeardown, Destroy
  <2>2. CASE WorkspaceOf[v] # w
    BY <1>2, <1>5, <2>2, ConfigurationAssumption DEF SetUp
  <2> QED
    BY <2>1, <2>2
<1> QED
  BY <1>1, <1>2, <1>3, <1>4, <1>5, SameRegistry DEF OwnerGoesOn

LEMMA RunSetupActionsGoesOn ==
  ASSUME TypeOK, WiringInv, fault = NoFault, NEW w \in Workspace, RunSetupActions(w)
  PROVE  OwnerGoesOn(w) /\ \A a \in Address : SameContents(a)
<1> DEFINE b == AddressOf[w]
<1>1. /\ UNCHANGED <<anytype, notified, todo, actions>>
      /\ phase[w] = "setup" /\ todo[w] = {}
      /\ phase' = [phase EXCEPT ![w] = "running"]
  BY DEF RunSetupActions
<1>2. fault' = fault /\ \A a \in Address : SameContents(a)
  <2>1. CASE actions[w] = {}
    BY <2>1, SameRegistry DEF RunSetupActions
  <2>2. CASE actions[w] # {}
    <3>1. b \in Address /\ registry[b] # NoEntry
      BY <2>2, ConfigurationAssumption DEF WiringInv, WorkspaceInv, ActionsAreBacked
    <3>2. fault' = fault /\ registry' = [registry EXCEPT ![b] = StartServer(@)]
      BY <2>2, <3>1 DEF RunSetupActions, RegistrySetup
    <3>3. registry[b] \in SharedServer
      BY <3>1 DEF TypeOK
    <3>4. /\ StartServer(registry[b]) \in SharedServer
          /\ StartServer(registry[b]).pvs = registry[b].pvs
          /\ StartServer(registry[b]).callbacks = registry[b].callbacks
          /\ StartServer(registry[b]).events = registry[b].events
      BY <3>3 DEF StartServer, EnsureServer, SharedServer
    <3>5. NoEntry # StartServer(registry[b])
      BY <3>4, ConfigurationAssumption
    <3>6. OwnedInv(b)'
      BY <1>1, <2>2, ConfigurationAssumption DEF OwnedInv, Active, TypeOK
    <3> HIDE DEF b
    <3> QED
      BY <3>1, <3>2, <3>4, <3>5, <3>6 DEF SameContents, TypeOK
  <2> QED
    BY <2>1, <2>2
<1>3. \A v \in Variable : SetUp(v)' => SetUp(v)
  BY <1>1, ConfigurationAssumption DEF SetUp, TypeOK
<1>4. phase'[w] \in Active /\ phase'[w] # "setup" /\ \A x \in Workspace \ {w} : phase'[x] = phase[x]
  BY <1>1 DEF TypeOK, Active
<1> QED
  BY <1>1, <1>2, <1>3, <1>4 DEF OwnerGoesOn

LEMMA TeardownImplGoesOn ==
  ASSUME TypeOK, fault = NoFault, NEW v \in Variable, TeardownImpl(v)
  PROVE  OwnerGoesOn(WorkspaceOf[v]) /\ \A a \in Address : SameContents(a)
<1> DEFINE w == WorkspaceOf[v]
<1>1. w \in Workspace
  BY ConfigurationAssumption
<1>2. /\ UNCHANGED <<registry, notified, phase, actions, fault>>
      /\ phase[w] = "teardown"
      /\ todo' = [todo EXCEPT ![w] = @ \ {v}]
      /\ \A u \in Variable \ {v} : anytype'[u] = anytype[u]
  BY DEF TeardownImpl, TypeOK
<1>3. ASSUME NEW u \in Variable, SetUp(u)'
      PROVE  SetUp(u) /\ u # v
  <2>1. \A x \in Workspace : todo'[x] = IF x = w THEN todo[x] \ {v} ELSE todo[x]
    BY <1>2 DEF TypeOK
  <2>2. WorkspaceOf[u] \in Workspace
    BY ConfigurationAssumption
  <2> QED
    BY <1>2, <1>3, <2>1, <2>2 DEF SetUp
<1> QED
  BY <1>1, <1>2, <1>3, SameRegistry DEF OwnerGoesOn, TypeOK

\* Where there was no entry, AddVariable() was refused: a server that was made
\* only now has no name that it could know already.
LEMMA ThrowsMayLeaveServer ==
  ASSUME TypeOK, NEW v \in Variable, SetupThrows(v),
         NEW a \in Address, registry[a] = NoEntry, registry'[a] # NoEntry
  PROVE  LeftByRefusal(a)'
<1> DEFINE b == AddressFor(v)
<1>1. b \in Address /\ a = b
  BY VariableConfiguration, ThrowsEffect
<1>2. GetServer(b) = NewSharedServer /\ ~Serves(NewSharedServer, ChannelOf[v])
  BY <1>1 DEF GetServer, Serves, NewSharedServer
<1>3. v \in Refusable /\ registry' = [registry EXCEPT ![b] = EnsureServer(NewSharedServer)]
  BY <1>1, <1>2 DEF SetupThrows
<1>4. registry'[a] = EnsureServer(NewSharedServer)
  BY <1>1, <1>3 DEF TypeOK
<1> QED
  BY <1>1, <1>3, <1>4 DEF LeftByRefusal, AddressFor

LEMMA SetupThrowsGoesOn ==
  ASSUME TypeOK, ReportInv, fault = NoFault, NEW v \in Variable,
         SetupImpl(v), SetupThrows(v)
  PROVE  OwnerGoesOn(WorkspaceOf[v]) /\ \A a \in Address : SameContents(a)
<1> DEFINE w == WorkspaceOf[v]
<1>1. w \in Workspace
  BY ConfigurationAssumption
<1>2. /\ UNCHANGED <<notified, todo, actions, fault>>
      /\ phase[w] = "setup"
      /\ phase' = [phase EXCEPT ![w] = "failed"]
      /\ \A u \in Variable \ {v} : anytype'[u] = anytype[u]
  BY DEF SetupImpl, SetupThrows, TypeOK
<1>3. \A u \in Variable : SetUp(u)' => SetUp(u) /\ u # v
  <2>1. ASSUME NEW u \in Variable, SetUp(u)'
        PROVE  SetUp(u) /\ u # v
    <3>1. WorkspaceOf[u] \in Workspace
      BY VariableConfiguration
    <3>2. WorkspaceOf[u] # w
      BY <1>1, <1>2, <2>1 DEF SetUp, TypeOK
    <3> QED
      BY <1>1, <1>2, <2>1, <3>1, <3>2 DEF SetUp, TypeOK
  <2> QED
    BY <2>1
<1>4. OwnerGoesOn(w)
  BY <1>1, <1>2, <1>3 DEF OwnerGoesOn, Active, TypeOK
<1>5. ASSUME NEW a \in Address
      PROVE  SameContents(a)
  <2>1. CASE registry[a] = NoEntry
    BY <2>1, ThrowsMayLeaveServer DEF SameContents, OwnedInv
  <2>2. CASE registry[a] # NoEntry
    <3>1. /\ registry'[a] # NoEntry
          /\ registry'[a].pvs = registry[a].pvs
          /\ registry'[a].events = registry[a].events
          /\ registry'[a].callbacks = registry[a].callbacks
      BY <2>2, ThrowsEffect, NoEntryIsNoServer
    <3>2. CASE LeftByRefusal(a)
      <4>1. registry[a].server # "null"
        BY <3>2, UnusedServer DEF LeftByRefusal
      <4>2. registry'[a] = registry[a]
        BY <2>2, <4>1, ThrowsEffect
      <4> QED
        BY <2>2, <3>1, <4>2 DEF SameContents
    <3>3. CASE ~LeftByRefusal(a)
      <4>1. OwnedInv(a)'
        BY <1>1, <1>4, <2>2, <3>3, OwnerKeeps DEF ReportInv
      <4> QED
        BY <2>2, <3>1, <4>1 DEF SameContents
    <3> QED
      BY <3>2, <3>3
  <2> QED
    BY <2>1, <2>2
<1> QED
  BY <1>1, <1>4, <1>5

-----------------------------------------------------------------------------
(* The end of a server                                                     *)

LEMMA TeardownActionPreservesReports ==
  ASSUME TypeOK, WiringInv, ReportInv, fault = NoFault,
         NEW w \in Workspace, NEW k \in ActionKeys, RunTeardownAction(w, k)
  PROVE  ReportInv'
<1> DEFINE b == AddressOf[w]
<1>1. /\ phase[w] = "teardown" /\ k \in actions[w]
      /\ UNCHANGED <<anytype, notified, phase, todo>>
      /\ actions' = [actions EXCEPT ![w] = @ \ {k}]
  BY DEF RunTeardownAction
<1>2. b \in Address /\ registry[b] # NoEntry
  BY <1>1, ConfigurationAssumption DEF WiringInv, WorkspaceInv, ActionsAreBacked
<1>3. registry' = [registry EXCEPT ![b] = NoEntry] /\ fault' = fault
  BY <1>2 DEF RunTeardownAction, RegistryTeardown
<1>4. ASSUME NEW a \in Address, registry'[a] # NoEntry
      PROVE  (OwnedInv(a) /\ CallbackInv(a) /\ QueueInv(registry[a]))'
  <2>1. a # b /\ registry'[a] = registry[a] /\ registry[a] # NoEntry
    BY <1>2, <1>3, <1>4 DEF TypeOK
  <2>2. OwnedInv(a) /\ CallbackInv(a) /\ QueueInv(registry[a])
    BY <2>1 DEF ReportInv
  <2>3. OwnedInv(a)'
    <3>1. CASE LeftByRefusal(a)
      BY <2>1, <3>1 DEF OwnedInv, LeftByRefusal, AddressFor
    <3>2. CASE ~LeftByRefusal(a)
      BY <1>1, <1>3, <2>1, <2>2, <3>2 DEF OwnedInv, TypeOK
    <3> QED
      BY <3>1, <3>2
  <2>4. CallbackInv(a)'
    BY <1>1, <2>1, <2>2 DEF CallbackInv
  <2>5. QueueInv(registry[a])'
    BY <2>1, <2>2 DEF QueueInv
  <2> QED
    BY <2>3, <2>4, <2>5
<1>5. ASSUME NEW v \in Variable, SetUp(v)'
      PROVE  anytype'[v] = SetupType(v) /\ (NoEventFor(v)' => notified'[v] = Reading(v)')
  <2> DEFINE a == AddressFor(v)
  <2>1. SetUp(v)
    BY <1>1, <1>5 DEF SetUp
  <2>2. /\ WorkspaceOf[v] # w
        /\ a \in Address /\ a # b
    <3>1. WorkspaceOf[v] # w
      BY <1>1, <2>1 DEF SetUp
    <3>2. Alive(w)
      BY <1>1 DEF Alive
    <3> QED
      BY <2>1, <3>1, <3>2, SetUpIsWired
  <2>3. registry'[a] = registry[a]
    BY <1>2, <1>3, <2>2 DEF TypeOK
  <2>4. anytype[v] = SetupType(v) /\ (NoEventFor(v) => notified[v] = Reading(v))
    BY <2>1 DEF ReportInv, CatchUpInv
  <2>5. NoEventFor(v)' => NoEventFor(v)
    BY <2>3 DEF NoEventFor, AddressFor
  <2>6. Reading(v)' = Reading(v)
    BY <1>1, <2>3 DEF Reading, GetServer, FromServer, AddressFor
  <2> QED
    BY <1>1, <2>4, <2>5, <2>6
<1> QED
  BY <1>4, <1>5 DEF ReportInv, CatchUpInv, SetupType

-----------------------------------------------------------------------------
(* Values change                                                           *)

\* A step that changes a process variable of one server, at most, and leaves
\* workspaces and notifications alone.
ValueStep(b) ==
  /\ \A a \in Address \ {b} : registry'[a] = registry[a]
  /\ registry[b] # NoEntry
  /\ \/ registry'[b] = registry[b]
     \/ \E c \in Channel, value \in AnyValue :
          registry[b].pvs[c] # NoPV /\ registry'[b] = Change(registry[b], c, value)
  /\ UNCHANGED <<anytype, notified, phase, todo, actions>>

\* What such a step makes of the record s of that server.
GrownFrom(r, s) ==
  /\ r # NoEntry
  /\ r.callbacks = s.callbacks
  /\ \A c \in Channel : r.pvs[c] = NoPV <=> s.pvs[c] = NoPV
  /\ QueueInv(r)
  /\ \A c \in Channel :
       (\A i \in 1..Len(r.events) : r.events[i].channel # c) =>
         /\ r.pvs[c] = s.pvs[c]
         /\ \A i \in 1..Len(s.events) : s.events[i].channel # c

\* Each change of a process variable leaves a report of it behind, so that the
\* variable has nothing to catch up with only if the change was another's.
LEMMA ValueStepPreservesReports ==
  ASSUME TypeOK, WiringInv, ReportInv, fault = NoFault, NEW b \in Address, ValueStep(b)
  PROVE  ReportInv'
<1>1. UNCHANGED <<anytype, notified, phase, todo, actions>> /\ registry[b] # NoEntry
  BY DEF ValueStep
<1>2. registry[b] \in SharedServer /\ QueueInv(registry[b])
  BY <1>1 DEF TypeOK, ReportInv
<1>3. GrownFrom(registry'[b], registry[b])
  <2>1. CASE registry'[b] = registry[b]
    BY <1>1, <1>2, <2>1 DEF GrownFrom
  <2>2. ASSUME NEW d \in Channel, NEW value \in AnyValue, registry[b].pvs[d] # NoPV,
               registry'[b] = Change(registry[b], d, value)
        PROVE  GrownFrom(registry'[b], registry[b])
    <3> DEFINE s == registry[b]
               r == Change(s, d, value)
    <3>1. /\ r \in SharedServer
          /\ r.callbacks = s.callbacks
          /\ \A c \in Channel : r.pvs[c] = IF c = d THEN value ELSE s.pvs[c]
      BY <1>2, ChangeEffect
    <3>2. /\ QueueInv(r)
          /\ \E i \in 1..Len(r.events) : r.events[i].channel = d
          /\ \A i \in 1..Len(s.events) : i \in 1..Len(r.events) /\ r.events[i] = s.events[i]
      BY <1>2, <2>2, ChangeQueue
    <3>3. r # NoEntry /\ value # NoPV
      BY <3>1, ConfigurationAssumption, SharedServerAssumption
    <3> HIDE DEF r
    <3>4. registry'[b] = r
      BY <2>2 DEF r
    <3> QED
      BY <2>2, <3>1, <3>2, <3>3, <3>4 DEF GrownFrom
  <2> QED
    BY <2>1, <2>2 DEF ValueStep
<1>4. ASSUME NEW a \in Address, registry'[a] # NoEntry
      PROVE  (OwnedInv(a) /\ CallbackInv(a) /\ QueueInv(registry[a]))'
  <2>1. /\ registry[a] # NoEntry
        /\ registry'[a].callbacks = registry[a].callbacks
        /\ \A c \in Channel : registry'[a].pvs[c] = NoPV <=> registry[a].pvs[c] = NoPV
    BY <1>1, <1>3, <1>4 DEF ValueStep, GrownFrom
  <2>2. OwnedInv(a) /\ CallbackInv(a) /\ QueueInv(registry[a])
    BY <2>1 DEF ReportInv
  <2>3. OwnedInv(a)'
    <3>1. CASE LeftByRefusal(a)
      <4>1. registry'[a] = registry[a]
        BY <3>1, UnusedServer DEF ValueStep, LeftByRefusal
      <4> QED
        BY <3>1, <4>1 DEF OwnedInv, LeftByRefusal, AddressFor
    <3>2. CASE ~LeftByRefusal(a)
      BY <1>1, <2>2, <3>2 DEF OwnedInv
    <3> QED
      BY <3>1, <3>2
  <2>4. CallbackInv(a)'
    BY <1>1, <2>1, <2>2 DEF CallbackInv
  <2>5. QueueInv(registry[a])'
    <3>1. CASE a = b
      BY <1>3, <3>1 DEF GrownFrom, QueueInv
    <3>2. CASE a # b
      BY <2>2, <3>2 DEF ValueStep, QueueInv
    <3> QED
      BY <3>1, <3>2
  <2> QED
    BY <2>3, <2>4, <2>5
<1>5. ASSUME NEW v \in Variable, SetUp(v)'
      PROVE  anytype'[v] = SetupType(v) /\ (NoEventFor(v)' => notified'[v] = Reading(v)')
  <2> DEFINE a == AddressFor(v)
             c == ChannelOf[v]
  <2>1. SetUp(v)
    BY <1>1, <1>5 DEF SetUp
  <2>2. a \in Address /\ c \in Channel /\ registry[a] # NoEntry /\ GetServer(a) = registry[a]
    BY <2>1, SetUpIsWired
  <2>3. anytype[v] = SetupType(v) /\ (NoEventFor(v) => notified[v] = Reading(v))
    BY <2>1 DEF ReportInv, CatchUpInv
  <2>4. ASSUME NoEventFor(v)'
        PROVE  registry'[a].pvs[c] = registry[a].pvs[c] /\ NoEventFor(v) /\ registry'[a] # NoEntry
    <3>1. \A i \in 1..Len(registry'[a].events) : registry'[a].events[i].channel # c
      BY <2>4 DEF NoEventFor, AddressFor
    <3>2. CASE a = b
      BY <1>3, <2>2, <3>1, <3>2 DEF NoEventFor, GrownFrom
    <3>3. CASE a # b
      BY <2>2, <3>1, <3>3 DEF NoEventFor, ValueStep
    <3> QED
      BY <3>2, <3>3
  <2>5. NoEventFor(v)' => Reading(v)' = Reading(v)
    BY <1>1, <2>2, <2>4 DEF Reading, GetServer, FromServer, AddressFor
  <2> QED
    BY <1>1, <2>3, <2>4, <2>5
<1> QED
  BY <1>4, <1>5 DEF ReportInv, CatchUpInv, SetupType

LEMMA ClientPutIsValueStep ==
  ASSUME TypeOK, NEW a \in Address, NEW c \in Channel, NEW value \in AnyValue,
         ClientPut(a, c, value)
  PROVE  ValueStep(a)
BY DEF ClientPut, ValueStep, TypeOK

\* A call through GetSharedServer() that finds no server ends the program and
\* leaves an empty server behind; all others read or change a value.
LEMMA CallServerPreservesReports ==
  ASSUME TypeOK, WiringInv, ReportInv, fault = NoFault, NEW v \in Variable,
         NEW value \in AnyValue, NEW s1,
         LET s == GetServer(AddressFor(v))
         IN s1 = s \/ s1 = SetServerValue(s, ChannelOf[v], value),
         CallServer(v, s1)
  PROVE  ReportInv'
<1> DEFINE b == AddressFor(v)
           w == WorkspaceOf[v]
           s == GetServer(b)
<1>1. b \in Address /\ w \in Workspace /\ b = AddressOf[w] /\ ChannelOf[v] \in Channel
  BY ConfigurationAssumption DEF AddressFor
<1>2. UNCHANGED <<anytype, notified, phase, todo, actions>>
  BY DEF CallServer
<1>3. CASE registry[b] # NoEntry
  <2>1. s = registry[b]
    BY <1>3 DEF GetServer
  <2>2. PICK r \in {s, s1} : registry' = [registry EXCEPT ![b] = r]
    BY DEF CallServer
  <2>3. r = s \/ (s.pvs[ChannelOf[v]] # NoPV /\ r = Change(s, ChannelOf[v], value))
    BY <2>2 DEF SetServerValue, Serves
  <2>4. ValueStep(b)
    BY <1>1, <1>2, <1>3, <2>1, <2>2, <2>3 DEF ValueStep, TypeOK
  <2> QED
    BY <1>1, <2>4, ValueStepPreservesReports
<1>4. CASE registry[b] = NoEntry
  <2>1. s = NewSharedServer /\ s.server = "null"
    BY <1>4 DEF GetServer, NewSharedServer
  <2>2. /\ registry' = [registry EXCEPT ![b] = NewSharedServer]
        /\ fault' = [kind |-> "null server", workspace |-> w]
        /\ workspace[v]
    BY <2>1 DEF CallServer
  <2>3. fault' # NoFault
    <3>1. fault' \in Fault
      BY <1>1, <2>2, FaultType DEF FaultKind
    <3>2. NoFault \notin Fault
      BY ConfigurationAssumption DEF Fault, FaultKind
    <3> QED
      BY <3>1, <3>2
  <2>4. phase[w] \in Active
    BY <1>1, <2>2 DEF WiringInv, WorkspaceInv, VariablesBound, VariablesOf
  <2>5. ASSUME NEW a \in Address, registry'[a] # NoEntry
        PROVE  (OwnedInv(a) /\ CallbackInv(a) /\ QueueInv(registry[a]))'
    <3>1. CASE a = b
      <4>1. registry'[a] = NewSharedServer
        BY <1>1, <2>2, <3>1 DEF TypeOK
      <4>2. OwnedInv(a)'
        BY <1>1, <1>2, <2>3, <2>4, <3>1 DEF OwnedInv
      <4>3. CallbackInv(a)'
        BY <4>1 DEF CallbackInv, NewSharedServer
      <4>4. QueueInv(registry[a])'
        BY <4>1, NewQueue DEF QueueInv
      <4> QED
        BY <4>2, <4>3, <4>4
    <3>2. CASE a # b
      <4>1. registry'[a] = registry[a] /\ registry[a] # NoEntry
        BY <1>1, <2>2, <2>5, <3>2 DEF TypeOK
      <4>2. OwnedInv(a) /\ CallbackInv(a) /\ QueueInv(registry[a])
        BY <4>1 DEF ReportInv
      <4> QED
        BY <1>2, <2>3, <4>1, <4>2
           DEF OwnedInv, LeftByRefusal, AddressFor, CallbackInv, QueueInv
    <3> QED
      BY <3>1, <3>2
  <2>6. ASSUME NEW u \in Variable, SetUp(u)'
        PROVE  anytype'[u] = SetupType(u) /\ (NoEventFor(u)' => notified'[u] = Reading(u)')
    <3> DEFINE a == AddressFor(u)
    <3>1. SetUp(u)
      BY <1>2, <2>6 DEF SetUp
    <3>2. a \in Address /\ registry[a] # NoEntry
      BY <3>1, SetUpIsWired
    <3>3. registry'[a] = registry[a]
      BY <1>1, <1>4, <2>2, <3>2 DEF TypeOK
    <3>4. anytype[u] = SetupType(u) /\ (NoEventFor(u) => notified[u] = Reading(u))
      BY <3>1 DEF ReportInv, CatchUpInv
    <3>5. NoEventFor(u)' => NoEventFor(u)
      BY <3>3 DEF NoEventFor, AddressFor
    <3>6. Reading(u)' = Reading(u)
      BY <1>2, <3>3 DEF Reading, GetServer, FromServer, AddressFor
    <3> QED
      BY <1>2, <3>4, <3>5, <3>6
  <2> QED
    BY <2>5, <2>6 DEF ReportInv, CatchUpInv, SetupType
<1> QED
  BY <1>3, <1>4

-----------------------------------------------------------------------------
(* Changes are reported                                                    *)

\* Who is called back for a change is a variable that exists.
LEMMA TargetIsAlive ==
  ASSUME TypeOK, WiringInv, ReportInv, fault = NoFault, NEW a \in Address,
         registry[a] # NoEntry, registry[a].events # << >>
  PROVE  LET s == registry[a]
             c == Head(s.events).channel
             v == CallbackTarget(s)
         IN /\ s \in SharedServer /\ c \in Channel
            /\ v = s.callbacks[c] /\ v \in Variable /\ v # NoVariable
            /\ ChannelOf[v] = c /\ AddressFor(v) = a
            /\ Alive(WorkspaceOf[v])
<1> DEFINE s == registry[a]
           c == Head(s.events).channel
           v == CallbackTarget(s)
<1>1. s \in SharedServer /\ QueueInv(s)
  BY DEF TypeOK, ReportInv
<1>2. s.pvs[c] # NoPV /\ c \in Channel
  BY <1>1, TailQueue, TailEffect DEF Event
<1>3. v = s.callbacks[c] /\ v # NoVariable
  <2>1. CallbackInv(a)
    BY DEF ReportInv
  <2> QED
    BY <1>2, <2>1 DEF CallbackInv, CallbackTarget
<1>4. /\ v \in Variable /\ ChannelOf[v] = c /\ AddressFor(v) = a
      /\ phase[WorkspaceOf[v]] \in Active
  <2>1. registry[a].callbacks[c] # NoVariable
    BY <1>3
  <2> HIDE DEF c, v
  <2> QED
    BY <1>2, <1>3, <2>1, CallbackOwner
<1> HIDE DEF c, v
<1>5. Alive(WorkspaceOf[v])
  BY <1>4 DEF Alive, Active
<1> QED
  BY <1>1, <1>2, <1>3, <1>4, <1>5 DEF c, v

\* The variable that is called back takes the value that was reported, which
\* is the current one unless another report follows; no other variable hears
\* of it.
LEMMA DeliverPreservesReports ==
  ASSUME TypeOK, WiringInv, ReportInv, fault = NoFault, NEW b \in Address, Deliver(b)
  PROVE  ReportInv' /\ fault' = fault
<1> DEFINE s == registry[b]
           e == Head(s.events)
           r == [s EXCEPT !.events = Tail(@)]
           t == CallbackTarget(s)
<1>1. s # NoEntry /\ s.events # << >> /\ registry' = [registry EXCEPT ![b] = r]
  BY DEF Deliver
<1>2. /\ s \in SharedServer /\ e.channel \in Channel
      /\ t = s.callbacks[e.channel] /\ t \in Variable /\ t # NoVariable
      /\ ChannelOf[t] = e.channel /\ AddressFor(t) = b
      /\ Alive(WorkspaceOf[t])
  BY <1>1, TargetIsAlive
<1>3. /\ notified' = [notified EXCEPT ![t] = FromServer(t, e.value)]
      /\ UNCHANGED <<fault, anytype, phase, todo, actions>>
  BY <1>2 DEF Deliver
<1>4. QueueInv(s)
  BY <1>1 DEF ReportInv
<1>5. /\ QueueInv(r)
      /\ \/ e.value = s.pvs[e.channel]
         \/ \E i \in 1..Len(r.events) : r.events[i].channel = e.channel
      /\ \A i \in 1..Len(s.events) :
           i # 1 => \E j \in 1..Len(r.events) : r.events[j] = s.events[i]
      /\ e = s.events[1]
  BY <1>1, <1>2, <1>4, TailQueue
<1>6. r \in SharedServer /\ r.pvs = s.pvs /\ r.callbacks = s.callbacks /\ r # NoEntry
  BY <1>1, <1>2, TailEffect, ConfigurationAssumption
<1> HIDE DEF r
<1>7. registry'[b] = r /\ \A a \in Address \ {b} : registry'[a] = registry[a]
  BY <1>1 DEF TypeOK
<1>8. ASSUME NEW a \in Address, registry'[a] # NoEntry
      PROVE  (OwnedInv(a) /\ CallbackInv(a) /\ QueueInv(registry[a]))'
  <2>1. /\ registry[a] # NoEntry
        /\ registry'[a].callbacks = registry[a].callbacks
        /\ registry'[a].pvs = registry[a].pvs
    BY <1>1, <1>6, <1>7, <1>8
  <2>2. OwnedInv(a) /\ CallbackInv(a) /\ QueueInv(registry[a])
    BY <2>1 DEF ReportInv
  <2>3. OwnedInv(a)'
    <3>1. CASE LeftByRefusal(a)
      <4>1. registry'[a] = registry[a]
        BY <1>1, <1>7, <3>1, UnusedServer DEF LeftByRefusal
      <4> QED
        BY <3>1, <4>1 DEF OwnedInv, LeftByRefusal, AddressFor
    <3>2. CASE ~LeftByRefusal(a)
      BY <1>3, <2>2, <3>2 DEF OwnedInv
    <3> QED
      BY <3>1, <3>2
  <2>4. CallbackInv(a)'
    BY <1>3, <2>1, <2>2 DEF CallbackInv
  <2>5. QueueInv(registry[a])'
    <3>1. CASE a = b
      BY <1>5, <1>7, <3>1 DEF QueueInv
    <3>2. CASE a # b
      BY <1>7, <2>2, <3>2 DEF QueueInv
    <3> QED
      BY <3>1, <3>2
  <2> QED
    BY <2>3, <2>4, <2>5
<1>9. ASSUME NEW v \in Variable, SetUp(v)'
      PROVE  anytype'[v] = SetupType(v) /\ (NoEventFor(v)' => notified'[v] = Reading(v)')
  <2> DEFINE a == AddressFor(v)
             c == ChannelOf[v]
  <2>1. SetUp(v)
    BY <1>3, <1>9 DEF SetUp
  <2>2. /\ a \in Address /\ c \in Channel
        /\ registry[a] # NoEntry /\ GetServer(a) = registry[a]
        /\ registry[a].callbacks[c] = v
    BY <2>1, SetUpIsWired
  <2>3. anytype[v] = SetupType(v) /\ (NoEventFor(v) => notified[v] = Reading(v))
    BY <2>1 DEF ReportInv, CatchUpInv
  <2>4. registry'[a] # NoEntry /\ registry'[a].pvs = registry[a].pvs
    BY <1>6, <1>7, <2>2
  <2>5. Reading(v)' = Reading(v)
    BY <1>3, <2>2, <2>4 DEF Reading, GetServer, FromServer, AddressFor
  <2>6. CASE v = t
    <3>1. a = b /\ c = e.channel
      BY <1>2, <2>6
    <3>2. NoEventFor(v)' => e.value = s.pvs[c]
      BY <1>5, <1>7, <3>1 DEF NoEventFor, AddressFor
    <3>3. notified'[v] = FromServer(v, e.value)
      BY <1>3, <2>6 DEF TypeOK
    <3>4. Reading(v) = FromServer(v, s.pvs[c])
      BY <2>2, <3>1 DEF Reading
    <3> QED
      BY <1>3, <2>3, <2>5, <3>2, <3>3, <3>4
  <2>7. CASE v # t
    <3>1. ~(a = b /\ c = e.channel)
      BY <1>2, <2>2, <2>7
    <3>2. NoEventFor(v)' => NoEventFor(v)
      <4>1. CASE a # b
        BY <1>7, <2>2, <4>1 DEF NoEventFor, AddressFor
      <4>2. CASE a = b
        BY <1>5, <1>7, <3>1, <4>2 DEF NoEventFor, AddressFor
      <4> QED
        BY <4>1, <4>2
    <3>3. notified'[v] = notified[v]
      BY <1>2, <1>3, <2>7 DEF TypeOK
    <3> QED
      BY <1>3, <2>3, <2>5, <3>2, <3>3
  <2> QED
    BY <2>6, <2>7
<1> QED
  BY <1>3, <1>8, <1>9 DEF ReportInv, CatchUpInv, SetupType

-----------------------------------------------------------------------------
(* A variable is set up                                                    *)

\* What a variable publishes first is read back as the initial value.
LEMMA InitialValueIsRead ==
  ASSUME NEW v \in Variable, TypeAccepted(v)
  PROVE  LET t   == SetupType(v)
             val == GetInitialValue(v, t)
             pub == ToServer(v, val)
         IN (IF Kind[v] = "plain" THEN ConvertToTypedAnyValue(pub, t) ELSE Decode(pub)) = val
<1> DEFINE t == SetupType(v)
           x == IF ValueAttr[v] = "ok" THEN Initial[v] ELSE Default
<1>1. x \in Payload /\ x # NoPayload
  <2>1. x \in Payload
    BY ConfigurationAssumption
  <2> HIDE DEF x
  <2> QED
    BY <2>1, PayloadAssumption
<1>2. GetInitialValue(v, t) = TypedValue(t, x)
  BY DEF GetInitialValue
<1> HIDE DEF x
<1>3. CASE Kind[v] = "plain"
  <2>1. t \in {"scalar", "struct"}
    BY <1>3, ConfigurationAssumption DEF TypeAccepted, SetupType
  <2> HIDE DEF t
  <2>2. ConvertToTypedAnyValue(PackIntoStructIfScalar(TypedValue(t, x)), t) = TypedValue(t, x)
    BY <2>1 DEF ConvertToTypedAnyValue, ConvertibleForms, PackIntoStructIfScalar, TypedValue
  <2> QED
    BY <1>2, <1>3, <2>2 DEF ToServer, t
<1>4. CASE Kind[v] # "plain"
  <2>1. t \in {"scalar", "empty"}
    <3>1. ParsedType[v] = "scalar"
      BY <1>4, ConfigurationAssumption, AttributeAssumption
    <3> QED
      BY <3>1 DEF SetupType
  <2> HIDE DEF t
  <2>2. Decode(Encode(TypedValue(t, x))) = TypedValue(t, x)
    BY <1>1, <2>1 DEF Decode, Decodable, Encode, TypedValue, EmptyValue
  <2> QED
    BY <1>2, <1>4, <2>2 DEF ToServer, t
<1> QED
  BY <1>3, <1>4

\* The channel of a variable that is being set up is not served yet: all that
\* its server has belongs to other variables of the workspace.
LEMMA ChannelIsFree ==
  ASSUME TypeOK, WiringInv, ReportInv, fault = NoFault, NEW v \in Variable,
         phase[WorkspaceOf[v]] = "setup", v \in todo[WorkspaceOf[v]]
  PROVE  LET s == GetServer(AddressFor(v))
             c == ChannelOf[v]
         IN s \in SharedServer /\ QueueInv(s) /\ s.pvs[c] = NoPV
<1> DEFINE a == AddressFor(v)
           w == WorkspaceOf[v]
           c == ChannelOf[v]
<1>1. a \in Address /\ w \in Workspace /\ c \in Channel /\ AddressOf[w] = a
  BY VariableConfiguration
<1>2. GetServer(a) \in SharedServer
  BY <1>1, GetServerType
<1>3. CASE registry[a] = NoEntry
  <2>1. GetServer(a) = NewSharedServer
    BY <1>3 DEF GetServer
  <2>2. NewSharedServer.pvs[c] = NoPV
    BY <1>1 DEF NewSharedServer
  <2> QED
    BY <1>2, <2>1, <2>2, NewQueue
<1>4. CASE registry[a] # NoEntry
  <2> DEFINE u == registry[a].callbacks[c]
  <2>1. GetServer(a) = registry[a]
    BY <1>4 DEF GetServer
  <2>2. QueueInv(registry[a]) /\ CallbackInv(a)
    BY <1>1, <1>4 DEF ReportInv
  <2>3. u = NoVariable
    <3>1. SUFFICES ASSUME u # NoVariable PROVE FALSE
      OBVIOUS
    <3>2. /\ u \in Variable /\ ChannelOf[u] = c
          /\ phase[WorkspaceOf[u]] = "setup" => u \notin todo[WorkspaceOf[u]]
          /\ \A x \in Workspace : Alive(x) /\ AddressOf[x] = a => x = WorkspaceOf[u]
      BY <1>1, <1>4, <3>1, CallbackOwner
    <3>3. WorkspaceOf[u] = w
      BY <1>1, <3>2 DEF Alive
    <3> QED
      BY <3>2, <3>3, ChannelAssumption
  <2> QED
    BY <1>1, <1>2, <2>1, <2>2, <2>3 DEF CallbackInv
<1> QED
  BY <1>3, <1>4

LEMMA SetupSucceedsPreservesReports ==
  ASSUME TypeOK, WiringInv, ReportInv, fault = NoFault, NEW v \in Variable,
         SetupImpl(v), SetupSucceeds(v)
  PROVE  ReportInv'
<1> DEFINE b   == AddressFor(v)
           w   == WorkspaceOf[v]
           c   == ChannelOf[v]
           t   == SetupType(v)
           val == GetInitialValue(v, t)
           pub == ToServer(v, val)
           s   == GetServer(b)
           r   == AddVariable(s, c, pub, v)
<1>1. b \in Address /\ w \in Workspace /\ c \in Channel /\ AddressOf[w] = b /\ Alive(w)
  <2>1. phase[w] = "setup"
    BY DEF SetupImpl
  <2> QED
    BY <2>1, VariableConfiguration DEF Alive
<1>2. /\ phase[w] = "setup" /\ v \in todo[w] /\ TypeAccepted(v)
      /\ anytype' = [anytype EXCEPT ![v] = t]
      /\ registry' = [registry EXCEPT ![b] = r]
      /\ notified' = [notified EXCEPT ![v] = val]
      /\ todo' = [todo EXCEPT ![w] = @ \ {v}]
      /\ actions' = [actions EXCEPT ![w] = @ \cup {ActionKey(v)}]
      /\ UNCHANGED <<phase, fault>>
  BY DEF SetupImpl, SetupSucceeds
<1>3. s \in SharedServer /\ QueueInv(s) /\ s.pvs[c] = NoPV
  BY <1>2, ChannelIsFree
<1>4. t \in AnyType /\ pub \in AnyValue /\ pub # NoPV
  <2>1. t \in AnyType
    BY InitialValueType DEF AnyType
  <2>2. pub \in AnyValue
    BY <2>1, InitialValueType
  <2> QED
    BY <2>1, <2>2, SharedServerAssumption
<1>5. /\ r \in SharedServer /\ r # NoEntry
      /\ r.pvs[c] = pub /\ r.callbacks[c] = v
      /\ \A d \in Channel \ {c} : r.pvs[d] = s.pvs[d] /\ r.callbacks[d] = s.callbacks[d]
  <2> HIDE DEF s, pub
  <2>1. /\ r \in SharedServer
        /\ r.pvs[c] = pub /\ r.callbacks[c] = v
        /\ \A d \in Channel \ {c} : r.pvs[d] = s.pvs[d] /\ r.callbacks[d] = s.callbacks[d]
    BY <1>1, <1>3, <1>4, AddVariableEffect
  <2> QED
    BY <2>1, ConfigurationAssumption
<1>6. /\ QueueInv(r)
      /\ r.events = s.events
      /\ \A i \in 1..Len(s.events) : s.events[i].channel # c
  BY <1>1, <1>3, <1>4, AddQueue
<1>7. (IF Kind[v] = "plain" THEN ConvertToTypedAnyValue(pub, t) ELSE Decode(pub)) = val
  BY <1>2, InitialValueIsRead
<1> HIDE DEF r, pub, val, t
<1>8. registry'[b] = r /\ \A a \in Address \ {b} : registry'[a] = registry[a]
  BY <1>1, <1>2 DEF TypeOK
<1>9. ASSUME NEW a \in Address, registry'[a] # NoEntry
      PROVE  (OwnedInv(a) /\ CallbackInv(a) /\ QueueInv(registry[a]))'
  <2>1. CASE a = b
    <3>1. OwnedInv(a)'
      <4>1. phase'[w] \in Active /\ actions'[w] # {}
        BY <1>1, <1>2 DEF Active, TypeOK
      <4> QED
        BY <1>1, <2>1, <4>1 DEF OwnedInv
    <3>2. ASSUME NEW d \in Channel \ {c}
          PROVE  LET u == r.callbacks[d]
                     x == WorkspaceOf[u]
                 IN /\ u = NoVariable <=> r.pvs[d] = NoPV
                    /\ u # NoVariable => /\ ChannelOf[u] = d
                                         /\ AddressOf[x] = a
                                         /\ phase'[x] \in Active
                                         /\ phase'[x] = "setup" => u \notin todo'[x]
      <4>1. r.pvs[d] = s.pvs[d] /\ r.callbacks[d] = s.callbacks[d]
        BY <1>5
      <4>2. CASE registry[b] = NoEntry
        <5>1. s.pvs[d] = NoPV /\ s.callbacks[d] = NoVariable
          BY <4>2 DEF GetServer, NewSharedServer
        <5> QED
          BY <4>1, <5>1
      <4>3. CASE registry[b] # NoEntry
        <5>1. s = registry[b]
          BY <4>3 DEF GetServer
        <5>2. CallbackInv(b)
          BY <1>1, <4>3 DEF ReportInv
        <5>3. \A x \in Workspace : todo'[x] \subseteq todo[x]
          BY <1>1, <1>2 DEF TypeOK
        <5>4. s.callbacks[d] # NoVariable => WorkspaceOf[s.callbacks[d]] \in Workspace
          BY <1>1, <4>3, <5>1, CallbackOwner
        <5> QED
          BY <1>2, <2>1, <4>1, <5>1, <5>2, <5>3, <5>4 DEF CallbackInv
      <4> QED
        BY <4>2, <4>3
    <3>3. /\ v # NoVariable /\ pub # NoPV
          /\ phase'[w] \in Active /\ v \notin todo'[w]
      BY <1>1, <1>2, <1>4, SharedServerAssumption DEF Active, TypeOK
    <3>4. CallbackInv(a)'
      BY <1>1, <1>5, <1>8, <2>1, <3>2, <3>3 DEF CallbackInv
    <3>5. QueueInv(registry[a])'
      BY <1>6, <1>8, <2>1 DEF QueueInv
    <3> QED
      BY <3>1, <3>4, <3>5
  <2>2. CASE a # b
    <3>1. registry'[a] = registry[a] /\ registry[a] # NoEntry
      BY <1>8, <1>9, <2>2
    <3>2. OwnedInv(a) /\ CallbackInv(a) /\ QueueInv(registry[a])
      BY <3>1 DEF ReportInv
    <3>3. OwnedInv(a)'
      <4>1. CASE LeftByRefusal(a)
        BY <3>1, <4>1 DEF OwnedInv, LeftByRefusal, AddressFor
      <4>2. CASE ~LeftByRefusal(a)
        BY <1>1, <1>2, <2>2, <3>2, <4>2 DEF OwnedInv, TypeOK
      <4> QED
        BY <4>1, <4>2
    <3>4. \A x \in Workspace : todo'[x] \subseteq todo[x]
      BY <1>1, <1>2 DEF TypeOK
    <3>5. \A d \in Channel : registry[a].callbacks[d] # NoVariable =>
                               WorkspaceOf[registry[a].callbacks[d]] \in Workspace
      BY <3>1, CallbackOwner
    <3>6. CallbackInv(a)'
      BY <1>2, <3>1, <3>2, <3>4, <3>5 DEF CallbackInv
    <3>7. QueueInv(registry[a])'
      BY <3>1, <3>2 DEF QueueInv
    <3> QED
      BY <3>3, <3>6, <3>7
  <2> QED
    BY <2>1, <2>2
<1>10. ASSUME NEW u \in Variable, SetUp(u)'
       PROVE  anytype'[u] = SetupType(u) /\ (NoEventFor(u)' => notified'[u] = Reading(u)')
  <2>1. CASE u = v
    <3>1. anytype'[v] = t /\ notified'[v] = val
      BY <1>2 DEF TypeOK
    <3>2. Reading(v)' = val
      BY <1>5, <1>7, <1>8, <3>1 DEF Reading, GetServer, FromServer, AddressFor
    <3> QED
      BY <2>1, <3>1, <3>2 DEF t
  <2>2. CASE u # v
    <3> DEFINE a == AddressFor(u)
               d == ChannelOf[u]
    <3>1. SetUp(u) /\ anytype'[u] = anytype[u] /\ notified'[u] = notified[u]
      <4>1. anytype'[u] = anytype[u] /\ notified'[u] = notified[u]
        BY <1>2, <2>2 DEF TypeOK
      <4>2. SetUp(u)
        BY <1>1, <1>2, <1>10, <2>2, ConfigurationAssumption DEF SetUp, TypeOK
      <4> QED
        BY <4>1, <4>2
    <3>2. /\ a \in Address /\ d \in Channel
          /\ registry[a] # NoEntry /\ GetServer(a) = registry[a]
          /\ \A x \in Workspace : Alive(x) /\ AddressOf[x] = a => x = WorkspaceOf[u]
      BY <3>1, SetUpIsWired
    <3>3. anytype[u] = SetupType(u) /\ (NoEventFor(u) => notified[u] = Reading(u))
      BY <3>1 DEF ReportInv, CatchUpInv
    <3>4. /\ registry'[a] # NoEntry
          /\ registry'[a].pvs[d] = registry[a].pvs[d]
          /\ registry'[a].events = registry[a].events
      <4>1. CASE a = b
        <5>1. WorkspaceOf[u] = w
          BY <1>1, <3>2, <4>1
        <5>2. d # c
          BY <2>2, <5>1, ChannelAssumption
        <5> QED
          BY <1>5, <1>6, <1>8, <3>2, <4>1, <5>2
      <4>2. CASE a # b
        BY <1>8, <3>2, <4>2
      <4> QED
        BY <4>1, <4>2
    <3>5. NoEventFor(u)' => NoEventFor(u)
      BY <3>4 DEF NoEventFor, AddressFor
    <3>6. Reading(u)' = Reading(u)
      BY <3>1, <3>2, <3>4 DEF Reading, GetServer, FromServer, AddressFor
    <3> QED
      BY <3>1, <3>3, <3>5, <3>6
  <2> QED
    BY <2>1, <2>2
<1> QED
  BY <1>9, <1>10 DEF ReportInv, CatchUpInv, SetupType

-----------------------------------------------------------------------------
(* The theorems                                                            *)

LEMMA InitReports == Init => ReportInv
<1> SUFFICES ASSUME Init PROVE ReportInv
  OBVIOUS
<1>1. \A a \in Address : registry[a] = NoEntry
  BY DEF Init
<1>2. \A v \in Variable : ~SetUp(v)
  BY ConfigurationAssumption DEF Init, SetUp
<1> QED
  BY <1>1, <1>2 DEF ReportInv, CatchUpInv

LEMMA NextReports ==
  ASSUME TypeOK, WiringInv, ReportInv, RunsActionsAfterFailure, Next
  PROVE  ReportInv'
<1>1. fault = NoFault
  BY DEF Next
<1>2. ASSUME NEW w \in Workspace, OwnerStep(w)
      PROVE  ReportInv'
  <2>1. CASE RunSetupActions(w)
    BY <1>1, <2>1, RunSetupActionsGoesOn, OwnerStepPreservesReports
  <2>2. CASE \E k \in ActionKeys : RunTeardownAction(w, k)
    BY <1>1, <2>2, TeardownActionPreservesReports
  <2>3. CASE \/ Create(w) \/ BeginSetup(w) \/ BeginTeardown(w) \/ FinishTeardown(w)
             \/ Destroy(w)
    BY <1>1, <2>3, LifeGoesOn, OwnerStepPreservesReports
  <2> QED
    BY <1>2, <2>1, <2>2, <2>3 DEF OwnerStep
<1>3. ASSUME NEW v \in Variable, VariableStep(v)
      PROVE  ReportInv'
  <2> DEFINE a == AddressFor(v)
  <2>1. WorkspaceOf[v] \in Workspace /\ anytype[v] \in AnyType
    BY ConfigurationAssumption DEF TypeOK
  <2>2. CASE SetupImpl(v)
    <3>1. CASE SetupThrows(v)
      BY <1>1, <2>1, <2>2, <3>1, SetupThrowsGoesOn, OwnerStepPreservesReports
    <3>2. CASE SetupSucceeds(v)
      BY <1>1, <2>2, <3>2, SetupSucceedsPreservesReports
    <3> QED
      BY <2>2, <3>1, <3>2 DEF SetupImpl
  <2>3. CASE TeardownImpl(v)
    BY <1>1, <2>1, <2>3, TeardownImplGoesOn, OwnerStepPreservesReports
  <2>4. CASE GetValue(v)
    <3>1. EmptyValue \in AnyValue
      BY DEF EmptyValue, AnyValue, Form
    <3> QED
      BY <1>1, <2>4, <3>1, CallServerPreservesReports DEF GetValue
  <2>5. CASE ResetImpl(v)
    <3>1. ToServer(v, GetInitialValue(v, anytype[v])) \in AnyValue
      BY <2>1, InitialValueType
    <3> QED
      BY <1>1, <2>5, <3>1, CallServerPreservesReports DEF ResetImpl
  <2>6. ASSUME NEW x \in Payload, SetValueImpl(v, x)
        PROVE  ReportInv'
    <3> DEFINE t == IF Kind[v] = "plain" THEN anytype[v] ELSE "scalar"
    <3>1. t \in AnyType
      BY <2>1 DEF AnyType
    <3>2. ToServer(v, TypedValue(t, x)) \in AnyValue
      BY <3>1, ToServerType
    <3> QED
      BY <1>1, <2>6, <3>2, CallServerPreservesReports DEF SetValueImpl
  <2> QED
    BY <1>3, <2>2, <2>3, <2>4, <2>5, <2>6 DEF VariableStep
<1>4. ASSUME NEW a \in Address, ServerStep(a)
      PROVE  ReportInv'
  BY <1>1, <1>4, DeliverPreservesReports, ClientPutIsValueStep, ValueStepPreservesReports
     DEF ServerStep
<1> QED
  BY <1>2, <1>3, <1>4 DEF Next

LEMMA StepReports ==
  ASSUME RunsActionsAfterFailure, TypeOK, WiringInv, ReportInv, [Next]_vars
  PROVE  ReportInv'
<1>1. CASE UNCHANGED vars
  <2>1. UNCHANGED <<registry, anytype, notified, phase, todo, actions, fault>>
    BY <1>1 DEF vars
  <2>2. \A a \in Address : registry'[a] # NoEntry =>
          OwnedInv(a)' /\ CallbackInv(a)' /\ QueueInv(registry[a])'
    BY <2>1 DEF ReportInv, OwnedInv, LeftByRefusal, AddressFor, CallbackInv, QueueInv
  <2>3. \A v \in Variable : CatchUpInv(v)'
    BY <2>1 DEF ReportInv, CatchUpInv, SetUp, SetupType, NoEventFor, Reading,
                FromServer, GetServer, AddressFor
  <2> QED
    BY <2>2, <2>3 DEF ReportInv
<1>2. CASE Next
  BY <1>2, NextReports
<1> QED
  BY <1>1, <1>2

LEMMA ReportInvariant ==
  ASSUME RunsActionsAfterFailure
  PROVE  Spec => []ReportInv
<1>1. TypeOK /\ WiringInv /\ ReportInv /\ [Next]_vars => ReportInv'
  BY StepReports
<1> QED
  BY <1>1, InitReports, TypeCorrect, WiringInvariant, PTL DEF Spec

\* If every workspace runs the teardown actions that it collected, then once
\* all changes of the process variable of a running variable are reported, its
\* workspace was last told what GetValue would read: no report is lost, none
\* is left over from an earlier user of the channel, and none is delivered to,
\* or taken from, another variable (DelegateCallbacks() and the two lambdas).
THEOREM NotificationsAgree ==
  ASSUME RunsActionsAfterFailure
  PROVE  Spec => []NotificationsCatchUp
<1>1. ReportInv => NotificationsCatchUp
  BY DEF ReportInv, CatchUpInv, NotificationsCatchUp, Running, SetUp
<1> QED
  BY <1>1, ReportInvariant, PTL

LEMMA ReleasedFollows == ReportInv => RegistryReleased
<1>1. ASSUME NEW a \in Address, OwnedInv(a), ~LeftByRefusal(a)
      PROVE  \E w \in Workspace :
               AddressOf[w] = a /\ phase[w] \notin {"unborn", "new", "destroyed"}
  BY <1>1 DEF OwnedInv, Active
<1> QED
  BY <1>1 DEF ReportInv, RegistryReleased

\* Under the same assumption, a workspace that is torn down or gone has left no
\* entry for the next one to find, whatever of its set-up failed; except for a
\* server without process variables and callbacks, never started, where the
\* first AddVariable() was refused.
THEOREM NothingStaysBehind ==
  ASSUME RunsActionsAfterFailure
  PROVE  Spec => []RegistryReleased
BY ReleasedFollows, ReportInvariant, PTL

\* No step calls the lambda of a variable that is gone.
LEMMA StepCallsNothingDestroyed ==
  ASSUME TypeOK, WiringInv, ReportInv, NoCallbackIntoDestroyedVariable, [Next]_vars
  PROVE  NoCallbackIntoDestroyedVariable'
<1>1. CASE UNCHANGED vars
  BY <1>1 DEF vars, NoCallbackIntoDestroyedVariable
<1>2. ASSUME NEW w \in Workspace, OwnerStep(w), fault = NoFault
      PROVE  NoCallbackIntoDestroyedVariable'
  <2>1. \/ fault' = fault
        \/ fault' = [kind |-> "unknown server", workspace |-> w]
    <3>1. CASE RunSetupActions(w)
      BY <3>1 DEF RunSetupActions, RegistrySetup
    <3>2. CASE \E k \in ActionKeys : RunTeardownAction(w, k)
      BY <3>2 DEF RunTeardownAction, RegistryTeardown
    <3>3. CASE \/ Create(w) \/ BeginSetup(w) \/ BeginTeardown(w) \/ FinishTeardown(w)
               \/ Destroy(w)
      BY <3>3 DEF Create, BeginSetup, BeginTeardown, FinishTeardown, Destroy
    <3> QED
      BY <1>2, <3>1, <3>2, <3>3 DEF OwnerStep
  <2>2. CASE fault' = fault
    BY <1>2, <2>2 DEF NoCallbackIntoDestroyedVariable
  <2>3. CASE fault' = [kind |-> "unknown server", workspace |-> w]
    BY <2>3 DEF NoCallbackIntoDestroyedVariable
  <2> QED
    BY <2>1, <2>2, <2>3
<1>3. ASSUME NEW v \in Variable, VariableStep(v), fault = NoFault
      PROVE  NoCallbackIntoDestroyedVariable'
  <2>1. ASSUME NEW s1, CallServer(v, s1)
        PROVE  \/ fault' = fault
               \/ fault' = [kind |-> "null server", workspace |-> WorkspaceOf[v]]
    BY <2>1 DEF CallServer
  <2>2. \/ fault' = fault
        \/ fault' = [kind |-> "null server", workspace |-> WorkspaceOf[v]]
    BY <1>3, <2>1 DEF VariableStep, SetupImpl, TeardownImpl, GetValue, ResetImpl, SetValueImpl
  <2>3. CASE fault' = fault
    BY <1>3, <2>3 DEF NoCallbackIntoDestroyedVariable
  <2>4. CASE fault' = [kind |-> "null server", workspace |-> WorkspaceOf[v]]
    BY <2>4 DEF NoCallbackIntoDestroyedVariable
  <2> QED
    BY <2>2, <2>3, <2>4
<1>4. CASE fault = NoFault /\ \E a \in Address : ServerStep(a)
  BY <1>4, DeliverPreservesReports
     DEF ServerStep, ClientPut, NoCallbackIntoDestroyedVariable
<1> QED
  BY <1>1, <1>2, <1>3, <1>4 DEF Next

LEMMA InitCallsNothing == Init => NoCallbackIntoDestroyedVariable
BY DEF Init, NoCallbackIntoDestroyedVariable

\* And no lambda is called after its variable is gone: the server that could
\* call it went with the workspace.
THEOREM NoDanglingCallback ==
  ASSUME RunsActionsAfterFailure
  PROVE  Spec => []NoCallbackIntoDestroyedVariable
<1>1. TypeOK /\ WiringInv /\ ReportInv /\ NoCallbackIntoDestroyedVariable /\ [Next]_vars
        => NoCallbackIntoDestroyedVariable'
  BY StepCallsNothingDestroyed
<1> QED
  BY <1>1, InitCallsNothing, TypeCorrect, WiringInvariant, ReportInvariant, PTL DEF Spec

-----------------------------------------------------------------------------
(* Values keep their type, where teardown actions come first               *)

LEMMA InitTyped == Init => ServersAreTyped /\ NotifiesItsType
<1> SUFFICES ASSUME Init PROVE ServersAreTyped /\ NotifiesItsType
  OBVIOUS
<1>1. \A a \in Address : registry[a] = NoEntry
  BY DEF Init
<1>2. \A v \in Variable : notified[v] = NoPV
  BY DEF Init
<1> QED
  BY <1>1, <1>2 DEF ServersAreTyped, NotifiesItsType

\* Steps of owners that leave contents alone, and take the type of no variable
\* that can be called back.
LEMMA OwnerStepKeepsTypes ==
  ASSUME TypeOK, WiringInv, ReportInv, fault = NoFault, ServersAreTyped, NotifiesItsType,
         \A a \in Address : SameContents(a),
         notified' = notified,
         \A a \in Address, c \in Channel :
           registry[a] # NoEntry /\ registry[a].callbacks[c] # NoVariable =>
             anytype'[registry[a].callbacks[c]] = anytype[registry[a].callbacks[c]]
  PROVE  ServersAreTyped' /\ NotifiesItsType'
<1>3. ASSUME NEW a \in Address, registry[a] = NoEntry, registry'[a] # NoEntry
      PROVE  TypedInv(registry[a])'
  <2>1. registry'[a] = EnsureServer(NewSharedServer)
    BY <1>3 DEF SameContents, LeftByRefusal
  <2> QED
    BY <2>1, UnusedServer DEF TypedInv
<1>1. ASSUME NEW a \in Address, registry[a] # NoEntry, registry'[a] # NoEntry
      PROVE  TypedInv(registry[a])'
  <2>1. /\ registry[a] # NoEntry
        /\ registry'[a].pvs = registry[a].pvs
        /\ registry'[a].events = registry[a].events
        /\ registry'[a].callbacks = registry[a].callbacks
    BY <1>1 DEF SameContents
  <2>2. TypedInv(registry[a])
    BY <2>1 DEF ServersAreTyped
  <2> QED
    BY <2>1, <2>2 DEF TypedInv, PublishedForm
<1>2. NotifiesItsType'
  BY DEF NotifiesItsType
<1> QED
  BY <1>1, <1>2, <1>3 DEF ServersAreTyped

LEMMA ThrowsKeepsTypes ==
  ASSUME TypeOK, WiringInv, ReportInv, fault = NoFault, ServersAreTyped, NotifiesItsType,
         NEW v \in Variable, SetupImpl(v), SetupThrows(v)
  PROVE  ServersAreTyped' /\ NotifiesItsType'
<1>1. /\ notified' = notified
      /\ phase[WorkspaceOf[v]] = "setup" /\ v \in todo[WorkspaceOf[v]]
      /\ \A u \in Variable \ {v} : anytype'[u] = anytype[u]
  BY DEF SetupImpl, SetupThrows, TypeOK
<1>2. \A a \in Address, c \in Channel :
        registry[a] # NoEntry /\ registry[a].callbacks[c] # NoVariable =>
          registry[a].callbacks[c] \in Variable \ {v}
  BY <1>1, CallbackOwner
<1>3. \A a \in Address : SameContents(a)
  BY SetupThrowsGoesOn
<1> QED
  BY <1>1, <1>2, <1>3, OwnerStepKeepsTypes

\* The type goes when nobody is left to use it.
LEMMA TeardownImplKeepsTypes ==
  ASSUME TypeOK, WiringInv, ReportInv, fault = NoFault, ServersAreTyped, NotifiesItsType,
         "variables first" \notin TeardownOrders,
         NEW v \in Variable, TeardownImpl(v)
  PROVE  ServersAreTyped' /\ NotifiesItsType'
<1>1. /\ UNCHANGED <<registry, notified>>
      /\ actions[WorkspaceOf[v]] = {}
      /\ \A u \in Variable \ {v} : anytype'[u] = anytype[u]
  BY DEF TeardownImpl, TypeOK
<1>2. \A a \in Address, c \in Channel :
        registry[a] # NoEntry /\ registry[a].callbacks[c] # NoVariable =>
          registry[a].callbacks[c] \in Variable \ {v}
  <2>1. ASSUME NEW a \in Address, NEW c \in Channel, registry[a] # NoEntry,
               registry[a].callbacks[c] # NoVariable
        PROVE  /\ registry[a].callbacks[c] \in Variable
               /\ actions[WorkspaceOf[registry[a].callbacks[c]]] # {}
    BY <2>1, CallbackOwner
  <2> QED
    BY <1>1, <2>1
<1>3. \A a \in Address : SameContents(a)
  BY <1>1, SameRegistry
<1> QED
  BY <1>1, <1>2, <1>3, OwnerStepKeepsTypes

LEMMA TeardownActionKeepsTypes ==
  ASSUME TypeOK, WiringInv, ServersAreTyped, NotifiesItsType,
         NEW w \in Workspace, NEW k \in ActionKeys, RunTeardownAction(w, k)
  PROVE  ServersAreTyped' /\ NotifiesItsType'
<1>1. UNCHANGED <<anytype, notified>>
  BY DEF RunTeardownAction
<1>2. ASSUME NEW a \in Address
      PROVE  registry'[a] \in {registry[a], NoEntry}
  <2>1. RegistryTeardown(w)
    BY DEF RunTeardownAction
  <2>2. CASE registry[AddressOf[w]] = NoEntry
    BY <2>1, <2>2 DEF RegistryTeardown
  <2>3. CASE registry[AddressOf[w]] # NoEntry
    BY <2>1, <2>3 DEF RegistryTeardown, TypeOK
  <2> QED
    BY <2>2, <2>3
<1>3. ASSUME NEW a \in Address, registry'[a] # NoEntry
      PROVE  TypedInv(registry[a])'
  <2>1. registry'[a] = registry[a] /\ TypedInv(registry[a])
    BY <1>2, <1>3 DEF ServersAreTyped
  <2> QED
    BY <1>1, <2>1 DEF TypedInv, PublishedForm
<1> QED
  BY <1>1, <1>3 DEF ServersAreTyped, NotifiesItsType

\* A change that has the form that the variable of the channel publishes.
TypedValueStep(b) ==
  /\ \A a \in Address \ {b} : registry'[a] = registry[a]
  /\ registry[b] # NoEntry
  /\ \/ registry'[b] = registry[b]
     \/ \E c \in Channel, value \in AnyValue :
          /\ registry'[b] = Change(registry[b], c, value)
          /\ LET v == registry[b].callbacks[c]
             IN v # NoVariable /\ Kind[v] = "plain" => value.form = PublishedForm(v)
  /\ UNCHANGED <<anytype, notified>>

LEMMA ValueStepKeepsTypes ==
  ASSUME TypeOK, ServersAreTyped, NotifiesItsType, NEW b \in Address, TypedValueStep(b)
  PROVE  ServersAreTyped' /\ NotifiesItsType'
<1>1. UNCHANGED <<anytype, notified>> /\ registry[b] # NoEntry
  BY DEF TypedValueStep
<1>2. registry[b] \in SharedServer /\ TypedInv(registry[b])
  BY <1>1 DEF TypeOK, ServersAreTyped
<1>3. ASSUME NEW c \in Channel, NEW value \in AnyValue,
             registry'[b] = Change(registry[b], c, value),
             LET v == registry[b].callbacks[c]
             IN v # NoVariable /\ Kind[v] = "plain" => value.form = PublishedForm(v)
      PROVE  TypedInv(registry[b])'
  <2> DEFINE s == registry[b]
             r == Change(s, c, value)
             e == [channel |-> c, value |-> value]
             n == Len(s.events)
  <2>1. /\ r.callbacks = s.callbacks
        /\ \A d \in Channel : r.pvs[d] = IF d = c THEN value ELSE s.pvs[d]
    BY <1>2, ChangeEffect
  <2>2. s.events \in Seq(Event) /\ e \in Event /\ r.events = Append(s.events, e)
    BY <1>2 DEF Change, SharedServer, Event
  <2>3. \A i \in 1..Len(r.events) : r.events[i] = e \/ \E j \in 1..n : r.events[i] = s.events[j]
    BY <2>2, AppendProperties
  <2> HIDE DEF r
  <2>4. registry'[b] = r
    BY <1>3 DEF r
  <2>5. ASSUME NEW d \in Channel, r.callbacks[d] # NoVariable, Kind[r.callbacks[d]] = "plain"
        PROVE  LET v == r.callbacks[d]
               IN /\ anytype'[v] = ParsedType[v]
                  /\ r.pvs[d].form = PublishedForm(v)
                  /\ \A i \in 1..Len(r.events) :
                       r.events[i].channel = d => r.events[i].value.form = PublishedForm(v)
    <3> DEFINE v == r.callbacks[d]
    <3>1. /\ v = s.callbacks[d]
          /\ anytype[v] = ParsedType[v]
          /\ s.pvs[d].form = PublishedForm(v)
          /\ \A i \in 1..n : s.events[i].channel = d => s.events[i].value.form = PublishedForm(v)
      BY <1>2, <2>1, <2>5 DEF TypedInv
    <3>2. d = c => value.form = PublishedForm(v)
      BY <1>3, <2>5, <3>1
    <3>3. r.pvs[d].form = PublishedForm(v)
      BY <2>1, <3>1, <3>2
    <3>4. ASSUME NEW i \in 1..Len(r.events), r.events[i].channel = d
          PROVE  r.events[i].value.form = PublishedForm(v)
      BY <2>3, <3>1, <3>2, <3>4
    <3> QED
      BY <1>1, <3>1, <3>3, <3>4
  <2> QED
    BY <2>4, <2>5 DEF TypedInv, PublishedForm
<1>4. ASSUME NEW a \in Address, registry'[a] = registry[a], registry[a] # NoEntry
      PROVE  TypedInv(registry[a])'
  <2>1. TypedInv(registry[a])
    BY <1>4 DEF ServersAreTyped
  <2> QED
    BY <1>1, <1>4, <2>1 DEF TypedInv, PublishedForm
<1>5. \A a \in Address : registry'[a] # NoEntry => TypedInv(registry[a])'
  <2>1. TypedInv(registry[b])'
    BY <1>1, <1>3, <1>4 DEF TypedValueStep
  <2>2. ASSUME NEW a \in Address \ {b}, registry'[a] # NoEntry
        PROVE  TypedInv(registry[a])'
    BY <1>4, <2>2 DEF TypedValueStep
  <2> QED
    BY <2>1, <2>2
<1> QED
  BY <1>1, <1>5 DEF ServersAreTyped, NotifiesItsType

LEMMA ClientPutIsTyped ==
  ASSUME TypeOK, ServersAreTyped, NEW a \in Address, NEW c \in Channel,
         NEW value \in AnyValue, ClientPut(a, c, value)
  PROVE  TypedValueStep(a)
<1> DEFINE s == registry[a]
           v == s.callbacks[c]
<1>1. s # NoEntry /\ value \in ClientValues(s.pvs[c]) /\ TypedInv(s)
  BY DEF ClientPut, ServersAreTyped
<1>2. ASSUME v # NoVariable, Kind[v] = "plain"
      PROVE  value.form = PublishedForm(v)
  <2>1. s.pvs[c].form = PublishedForm(v) /\ PublishedForm(v) \in {"packed", "struct"}
    BY <1>1, <1>2 DEF TypedInv, PublishedForm
  <2>2. ClientValues(s.pvs[c]) = [form : {s.pvs[c].form}, val : Payload]
    BY <2>1 DEF ClientValues
  <2> QED
    BY <1>1, <2>1, <2>2
<1>3. registry' = [registry EXCEPT ![a] = Change(s, c, value)] /\ UNCHANGED <<anytype, notified>>
  BY DEF ClientPut
<1>4. registry'[a] = Change(s, c, value) /\ \A b \in Address \ {a} : registry'[b] = registry[b]
  BY <1>3 DEF TypeOK
<1> QED
  BY <1>1, <1>2, <1>3, <1>4 DEF TypedValueStep

\* A variable writes what it publishes: it has its type as long as its channel
\* is served, and nobody else of its workspace has that channel.
LEMMA CallServerKeepsTypes ==
  ASSUME TypeOK, WiringInv, ReportInv, fault = NoFault, ServersAreTyped, NotifiesItsType,
         NEW v \in Variable, NEW value \in AnyValue, NEW s1,
         LET s == GetServer(AddressFor(v))
         IN s1 = s \/ s1 = SetServerValue(s, ChannelOf[v], value),
         Kind[v] = "plain" /\ anytype[v] = ParsedType[v] => value.form = PublishedForm(v),
         CallServer(v, s1)
  PROVE  ServersAreTyped' /\ NotifiesItsType'
<1> DEFINE b == AddressFor(v)
           w == WorkspaceOf[v]
           c == ChannelOf[v]
           s == GetServer(b)
<1>1. b \in Address /\ w \in Workspace /\ b = AddressOf[w] /\ c \in Channel
  BY ConfigurationAssumption DEF AddressFor
<1>2. UNCHANGED <<anytype, notified>> /\ Alive(w)
  BY DEF CallServer, Usable, Alive
<1>3. PICK r \in {s, s1} : registry' = [registry EXCEPT ![b] = r]
  BY DEF CallServer
<1>4. CASE registry[b] # NoEntry
  <2> DEFINE u == registry[b].callbacks[c]
  <2>1. s = registry[b] /\ TypedInv(registry[b])
    BY <1>1, <1>4 DEF GetServer, ServersAreTyped
  <2>2. ASSUME u # NoVariable, Kind[u] = "plain"
        PROVE  value.form = PublishedForm(u)
    <3>1. /\ u \in Variable /\ ChannelOf[u] = c
          /\ \A x \in Workspace : Alive(x) /\ AddressOf[x] = b => x = WorkspaceOf[u]
      BY <1>1, <1>4, <2>2, CallbackOwner
    <3>2. u = v
      BY <1>1, <1>2, <3>1, ChannelAssumption
    <3>3. anytype[u] = ParsedType[u]
      BY <1>1, <2>1, <2>2 DEF TypedInv
    <3> QED
      BY <2>2, <3>2, <3>3
  <2>3. r = registry[b] \/ r = Change(registry[b], c, value)
    BY <1>3, <2>1 DEF SetServerValue
  <2>4. TypedValueStep(b)
    BY <1>1, <1>2, <1>3, <1>4, <2>2, <2>3 DEF TypedValueStep, TypeOK
  <2> QED
    BY <1>1, <2>4, ValueStepKeepsTypes
<1>5. CASE registry[b] = NoEntry
  <2>1. s = NewSharedServer /\ s.server = "null"
    BY <1>5 DEF GetServer, NewSharedServer
  <2>2. registry' = [registry EXCEPT ![b] = NewSharedServer]
    BY <2>1 DEF CallServer
  <2>3. ASSUME NEW a \in Address, registry'[a] # NoEntry
        PROVE  TypedInv(registry[a])'
    <3>1. CASE a = b
      <4>1. registry'[a] = NewSharedServer
        BY <1>1, <2>2, <3>1 DEF TypeOK
      <4> QED
        BY <4>1 DEF TypedInv, NewSharedServer
    <3>2. CASE a # b
      <4>1. registry'[a] = registry[a] /\ TypedInv(registry[a])
        BY <2>2, <2>3, <3>2 DEF TypeOK, ServersAreTyped
      <4> QED
        BY <1>2, <4>1 DEF TypedInv, PublishedForm
    <3> QED
      BY <3>1, <3>2
  <2> QED
    BY <1>2, <2>3 DEF ServersAreTyped, NotifiesItsType
<1> QED
  BY <1>4, <1>5

\* Both a first value and a later one of a type are published in its form.
LEMMA PublishedFormOf ==
  ASSUME NEW v \in Variable, Kind[v] = "plain", NEW x
  PROVE  ToServer(v, TypedValue(ParsedType[v], x)).form = PublishedForm(v)
<1>1. ParsedType[v] \in {"scalar", "struct"}
  BY ConfigurationAssumption
<1> QED
  BY <1>1 DEF ToServer, TypedValue, PackIntoStructIfScalar, PublishedForm

LEMMA SetupSucceedsKeepsTypes ==
  ASSUME TypeOK, WiringInv, ReportInv, fault = NoFault, ServersAreTyped, NotifiesItsType,
         NEW v \in Variable, SetupImpl(v), SetupSucceeds(v)
  PROVE  ServersAreTyped' /\ NotifiesItsType'
<1> DEFINE b   == AddressFor(v)
           w   == WorkspaceOf[v]
           c   == ChannelOf[v]
           t   == SetupType(v)
           x   == IF ValueAttr[v] = "ok" THEN Initial[v] ELSE Default
           val == GetInitialValue(v, t)
           pub == ToServer(v, val)
           s   == GetServer(b)
           r   == AddVariable(s, c, pub, v)
<1>1. b \in Address /\ w \in Workspace /\ c \in Channel
  BY ConfigurationAssumption DEF AddressFor
<1>2. /\ phase[w] = "setup" /\ v \in todo[w] /\ TypeAccepted(v)
      /\ anytype' = [anytype EXCEPT ![v] = t]
      /\ registry' = [registry EXCEPT ![b] = r]
      /\ notified' = [notified EXCEPT ![v] = val]
  BY DEF SetupImpl, SetupSucceeds
<1>3. s \in SharedServer /\ QueueInv(s) /\ s.pvs[c] = NoPV
  BY <1>2, ChannelIsFree
<1>4. t \in AnyType /\ pub \in AnyValue
  <2>1. t \in AnyType
    BY InitialValueType DEF AnyType
  <2> QED
    BY <2>1, InitialValueType
<1>5. Kind[v] = "plain" => t = ParsedType[v]
  BY <1>2 DEF TypeAccepted, SetupType
<1>6. val = TypedValue(t, x)
  BY DEF GetInitialValue
<1>7. Kind[v] = "plain" => pub.form = PublishedForm(v) /\ val.form = ParsedType[v]
  <2>1. ParsedType[v] \in {"scalar", "struct"}
    BY ConfigurationAssumption
  <2> QED
    BY <1>5, <1>6, <2>1, PublishedFormOf DEF TypedValue
<1>8. /\ r.pvs[c] = pub /\ r.callbacks[c] = v
      /\ \A d \in Channel \ {c} : r.pvs[d] = s.pvs[d] /\ r.callbacks[d] = s.callbacks[d]
  <2> HIDE DEF s, pub
  <2> QED
    BY <1>1, <1>3, <1>4, AddVariableEffect
<1>9. r.events = s.events /\ \A i \in 1..Len(s.events) : s.events[i].channel # c
  BY <1>1, <1>3, <1>4, AddQueue
<1> HIDE DEF r, pub, val, t
<1>10. ASSUME NEW a \in Address, registry[a] # NoEntry, NEW d \in Channel,
              registry[a].callbacks[d] # NoVariable
       PROVE  registry[a].callbacks[d] \in Variable \ {v}
  BY <1>2, <1>10, CallbackOwner
<1>11. ASSUME NEW a \in Address \ {b}, registry'[a] # NoEntry
       PROVE  TypedInv(registry[a])'
  <2>1. registry'[a] = registry[a] /\ registry[a] # NoEntry /\ TypedInv(registry[a])
    BY <1>2, <1>11 DEF TypeOK, ServersAreTyped
  <2>2. \A d \in Channel : registry[a].callbacks[d] # NoVariable =>
          anytype'[registry[a].callbacks[d]] = anytype[registry[a].callbacks[d]]
    BY <1>2, <1>10, <2>1 DEF TypeOK
  <2> QED
    BY <2>1, <2>2 DEF TypedInv, PublishedForm
<1>12. TypedInv(registry[b])'
  <2>1. registry'[b] = r
    BY <1>1, <1>2 DEF TypeOK
  <2>2. ASSUME NEW d \in Channel, r.callbacks[d] # NoVariable, Kind[r.callbacks[d]] = "plain"
        PROVE  LET u == r.callbacks[d]
               IN /\ anytype'[u] = ParsedType[u]
                  /\ r.pvs[d].form = PublishedForm(u)
                  /\ \A i \in 1..Len(r.events) :
                       r.events[i].channel = d => r.events[i].value.form = PublishedForm(u)
    <3>1. CASE d = c
      <4>1. anytype'[v] = t
        BY <1>2 DEF TypeOK
      <4> QED
        BY <1>5, <1>7, <1>8, <1>9, <2>2, <3>1, <4>1
    <3>2. CASE d # c
      <4>1. r.pvs[d] = s.pvs[d] /\ r.callbacks[d] = s.callbacks[d]
        BY <1>8, <3>2
      <4>2. registry[b] # NoEntry /\ s = registry[b]
        BY <2>2, <4>1 DEF GetServer, NewSharedServer
      <4>3. TypedInv(s)
        BY <1>1, <4>2 DEF ServersAreTyped
      <4>4. anytype'[s.callbacks[d]] = anytype[s.callbacks[d]]
        BY <1>1, <1>2, <1>10, <2>2, <4>1, <4>2 DEF TypeOK
      <4> QED
        BY <1>9, <2>2, <4>1, <4>3, <4>4 DEF TypedInv
    <3> QED
      BY <3>1, <3>2
  <2> QED
    BY <2>1, <2>2 DEF TypedInv, PublishedForm
<1>13. NotifiesItsType'
  BY <1>2, <1>7 DEF NotifiesItsType, TypeOK
<1> QED
  BY <1>11, <1>12, <1>13 DEF ServersAreTyped

LEMMA DeliverKeepsTypes ==
  ASSUME TypeOK, WiringInv, ReportInv, fault = NoFault, ServersAreTyped, NotifiesItsType,
         NEW b \in Address, Deliver(b)
  PROVE  ServersAreTyped' /\ NotifiesItsType'
<1> DEFINE s == registry[b]
           e == Head(s.events)
           r == [s EXCEPT !.events = Tail(@)]
           t == CallbackTarget(s)
<1>1. s # NoEntry /\ s.events # << >> /\ registry' = [registry EXCEPT ![b] = r]
  BY DEF Deliver
<1>2. /\ s \in SharedServer /\ e.channel \in Channel
      /\ t = s.callbacks[e.channel] /\ t \in Variable /\ t # NoVariable
      /\ Alive(WorkspaceOf[t])
  BY <1>1, TargetIsAlive
<1>3. notified' = [notified EXCEPT ![t] = FromServer(t, e.value)] /\ anytype' = anytype
  BY <1>2 DEF Deliver
<1>4. TypedInv(s)
  BY <1>1 DEF ServersAreTyped
<1>5. r.pvs = s.pvs /\ r.callbacks = s.callbacks
  BY <1>1, <1>2, TailEffect
<1>6. /\ e = s.events[1] /\ 1 \in 1..Len(s.events)
      /\ \A i \in 1..Len(r.events) : \E j \in 1..Len(s.events) : r.events[i] = s.events[j]
  <2>1. s.events \in Seq(Event) /\ r.events = Tail(s.events)
    BY <1>2 DEF SharedServer
  <2>2. /\ Len(s.events) \in Nat \ {0}
        /\ Len(r.events) = Len(s.events) - 1
        /\ e = s.events[1]
        /\ \A i \in 1..(Len(s.events) - 1) : r.events[i] = s.events[i + 1]
    BY <1>1, <2>1, HeadTailProperties, EmptySeq, LenProperties
  <2> HIDE DEF r
  <2>3. \A i \in 1..Len(r.events) : i + 1 \in 1..Len(s.events)
    BY <2>2
  <2> QED
    BY <2>2, <2>3
<1> HIDE DEF r
<1>7. ASSUME NEW a \in Address, registry'[a] # NoEntry
      PROVE  TypedInv(registry[a])'
  <2>1. CASE a = b
    <3>1. registry'[a] = r
      BY <1>1, <2>1 DEF TypeOK
    <3> QED
      BY <1>3, <1>4, <1>5, <1>6, <3>1 DEF TypedInv, PublishedForm
  <2>2. CASE a # b
    <3>1. registry'[a] = registry[a] /\ TypedInv(registry[a])
      BY <1>1, <1>7, <2>2 DEF TypeOK, ServersAreTyped
    <3> QED
      BY <1>3, <3>1 DEF TypedInv, PublishedForm
  <2> QED
    BY <2>1, <2>2
<1>8. Kind[t] = "plain" => FromServer(t, e.value).form = ParsedType[t]
  <2>1. SUFFICES ASSUME Kind[t] = "plain" PROVE FromServer(t, e.value).form = ParsedType[t]
    OBVIOUS
  <2>2. anytype[t] = ParsedType[t] /\ e.value.form = PublishedForm(t)
    BY <1>2, <1>4, <1>6, <2>1 DEF TypedInv
  <2>3. ParsedType[t] \in {"scalar", "struct"}
    BY <1>2, ConfigurationAssumption
  <2> QED
    BY <2>1, <2>2, <2>3
       DEF FromServer, ConvertToTypedAnyValue, ConvertibleForms, PublishedForm
<1>9. NotifiesItsType'
  BY <1>2, <1>3, <1>8 DEF NotifiesItsType, TypeOK
<1> QED
  BY <1>7, <1>9 DEF ServersAreTyped

LEMMA NextKeepsTypes ==
  ASSUME TypeOK, WiringInv, ReportInv, ServersAreTyped, NotifiesItsType, Next,
         RunsActionsAfterFailure, "variables first" \notin TeardownOrders
  PROVE  ServersAreTyped' /\ NotifiesItsType'
<1>1. fault = NoFault
  BY DEF Next
<1>2. ASSUME NEW w \in Workspace, OwnerStep(w)
      PROVE  ServersAreTyped' /\ NotifiesItsType'
  <2>1. CASE RunSetupActions(w)
    <3>1. notified' = notified /\ anytype' = anytype
      BY <2>1 DEF RunSetupActions
    <3> QED
      BY <1>1, <2>1, <3>1, RunSetupActionsGoesOn, OwnerStepKeepsTypes
  <2>2. CASE \E k \in ActionKeys : RunTeardownAction(w, k)
    BY <2>2, TeardownActionKeepsTypes
  <2>3. CASE \/ Create(w) \/ BeginSetup(w) \/ BeginTeardown(w) \/ FinishTeardown(w)
             \/ Destroy(w)
    <3>1. notified' = notified /\ anytype' = anytype
      BY <2>3 DEF Create, BeginSetup, BeginTeardown, FinishTeardown, Destroy
    <3> QED
      BY <1>1, <2>3, <3>1, LifeGoesOn, OwnerStepKeepsTypes
  <2> QED
    BY <1>2, <2>1, <2>2, <2>3 DEF OwnerStep
<1>3. ASSUME NEW v \in Variable, VariableStep(v)
      PROVE  ServersAreTyped' /\ NotifiesItsType'
  <2>1. anytype[v] \in AnyType
    BY DEF TypeOK
  <2>2. CASE SetupImpl(v)
    BY <1>1, <2>2, ThrowsKeepsTypes, SetupSucceedsKeepsTypes DEF SetupImpl
  <2>3. CASE TeardownImpl(v)
    BY <1>1, <2>3, TeardownImplKeepsTypes
  <2>4. CASE GetValue(v)
    <3> DEFINE value == IF Kind[v] = "plain" THEN ToServer(v, TypedValue(ParsedType[v], Default))
                                             ELSE EmptyValue
    <3>1. value \in AnyValue
      <4>1. EmptyValue \in AnyValue
        BY DEF EmptyValue, AnyValue, Form
      <4>2. Default \in Payload /\ ParsedType[v] \in AnyType
        BY ConfigurationAssumption DEF AnyType
      <4> QED
        BY <4>1, <4>2, ToServerType
    <3>2. Kind[v] = "plain" => value.form = PublishedForm(v)
      BY PublishedFormOf
    <3> HIDE DEF value
    <3> QED
      BY <1>1, <2>4, <3>1, <3>2, CallServerKeepsTypes DEF GetValue
  <2>5. CASE ResetImpl(v)
    <3> DEFINE value == ToServer(v, GetInitialValue(v, anytype[v]))
    <3>1. value \in AnyValue
      BY <2>1, InitialValueType
    <3>2. Kind[v] = "plain" /\ anytype[v] = ParsedType[v] => value.form = PublishedForm(v)
      BY PublishedFormOf DEF GetInitialValue
    <3> QED
      BY <1>1, <2>5, <3>1, <3>2, CallServerKeepsTypes DEF ResetImpl
  <2>6. ASSUME NEW x \in Payload, SetValueImpl(v, x)
        PROVE  ServersAreTyped' /\ NotifiesItsType'
    <3> DEFINE t == IF Kind[v] = "plain" THEN anytype[v] ELSE "scalar"
               value == ToServer(v, TypedValue(t, x))
    <3>1. t \in AnyType
      BY <2>1 DEF AnyType
    <3>2. value \in AnyValue
      BY <3>1, ToServerType
    <3>3. Kind[v] = "plain" /\ anytype[v] = ParsedType[v] => value.form = PublishedForm(v)
      BY PublishedFormOf
    <3> QED
      BY <1>1, <2>6, <3>2, <3>3, CallServerKeepsTypes DEF SetValueImpl
  <2> QED
    BY <1>3, <2>2, <2>3, <2>4, <2>5, <2>6 DEF VariableStep
<1>4. ASSUME NEW a \in Address, ServerStep(a)
      PROVE  ServersAreTyped' /\ NotifiesItsType'
  BY <1>1, <1>4, DeliverKeepsTypes, ClientPutIsTyped, ValueStepKeepsTypes DEF ServerStep
<1> QED
  BY <1>2, <1>3, <1>4 DEF Next

LEMMA StepKeepsTypes ==
  ASSUME TypeOK, WiringInv, ReportInv, ServersAreTyped, NotifiesItsType, [Next]_vars,
         RunsActionsAfterFailure, "variables first" \notin TeardownOrders
  PROVE  ServersAreTyped' /\ NotifiesItsType'
<1>1. CASE UNCHANGED vars
  BY <1>1 DEF vars, ServersAreTyped, TypedInv, PublishedForm, NotifiesItsType
<1>2. CASE Next
  BY <1>2, NextKeepsTypes
<1> QED
  BY <1>1, <1>2

\* A plain variable tells its workspace only values of its own type if teardown
\* actions, which end the server, come before the TeardownImpl of variables,
\* which empties the type that the lambda uses.  The run server_variables_first
\* shows that this assumption on the order cannot be dropped.
THEOREM NotifiedTypes ==
  ASSUME RunsActionsAfterFailure, "variables first" \notin TeardownOrders
  PROVE  Spec => []NotifiesItsType
<1>1. TypeOK /\ WiringInv /\ ReportInv /\ ServersAreTyped /\ NotifiesItsType /\ [Next]_vars
        => ServersAreTyped' /\ NotifiesItsType'
  BY StepKeepsTypes
<1> QED
  BY <1>1, InitTyped, TypeCorrect, WiringInvariant, ReportInvariant, PTL DEF Spec

-----------------------------------------------------------------------------
(* Induction up to a natural number, on sets                               *)

\* A nonempty set of natural numbers has a least element, which stands in here
\* for induction.
LEMMA LeastNatural ==
  ASSUME NEW T, T \subseteq Nat, T # {}
  PROVE  \E m \in T : \A k \in T : ~(k < m)
<1>1. PICK m \in T : \A k \in T : ~(<<k, m>> \in OpToRel(<, Nat))
  BY NatLessThanWellFounded, WFMin
<1>2. ASSUME NEW k \in T, k < m
      PROVE  FALSE
  <2>1. <<k, m>> \in {p \in Nat \X Nat : p[1] < p[2]}
    BY <1>2
  <2> QED
    BY <1>1, <2>1 DEF OpToRel
<1> QED
  BY <1>2

\* A set that has 0, and each number up to n whose predecessor it has, has all.
LEMMA UpTo ==
  ASSUME NEW n \in Nat, NEW T, 0 \in T, \A i \in 1..n : i - 1 \in T => i \in T
  PROVE  0..n \subseteq T
<1> DEFINE Missing == (0..n) \ T
<1>1. SUFFICES ASSUME Missing # {} PROVE FALSE
  OBVIOUS
<1>2. PICK m \in Missing : \A k \in Missing : ~(k < m)
  <2>1. Missing \subseteq Nat
    OBVIOUS
  <2> HIDE DEF Missing
  <2> QED
    BY <1>1, <2>1, LeastNatural
<1>3. m \in 1..n /\ m - 1 \in 0..n /\ m - 1 < m
  OBVIOUS
<1> QED
  BY <1>2, <1>3

-----------------------------------------------------------------------------
(* The changes of one channel in a queue                                   *)

\* What the function inside ChannelValues is, for the first n changes.
IsOwn(f, n, events, c) ==
  f = [i \in 0..n |-> IF i = 0 THEN << >>
                      ELSE IF events[i].channel # c THEN f[i - 1]
                      ELSE Append(f[i - 1], events[i].value)]

\* There is such a function for every length.
LEMMA OwnExists ==
  ASSUME NEW events, NEW c, NEW n \in Nat
  PROVE  \E f : IsOwn(f, n, events, c)
<1> DEFINE T == {k \in Nat : \E f : IsOwn(f, k, events, c)}
<1>1. 0 \in T
  <2>1. IsOwn([i \in 0..0 |-> << >>], 0, events, c)
    BY DEF IsOwn
  <2> QED
    BY <2>1
<1>2. ASSUME NEW i \in 1..n, i - 1 \in T
      PROVE  i \in T
  <2>1. PICK f : IsOwn(f, i - 1, events, c)
    BY <1>2
  <2> DEFINE g == [k \in 0..i |-> IF k < i THEN f[k]
                                  ELSE IF events[i].channel # c THEN f[i - 1]
                                  ELSE Append(f[i - 1], events[i].value)]
  <2>2. IsOwn(g, i, events, c)
    <3> DEFINE h == [k \in 0..i |-> IF k = 0 THEN << >>
                                    ELSE IF events[k].channel # c THEN g[k - 1]
                                    ELSE Append(g[k - 1], events[k].value)]
    <3>1. ASSUME NEW k \in 0..i
          PROVE  g[k] = h[k]
      <4>1. CASE k = i
        BY <4>1
      <4>2. CASE k < i
        <5>1. k \in 0..(i - 1) /\ g[k] = f[k]
          BY <4>2
        <5>2. f[k] = IF k = 0 THEN << >>
                     ELSE IF events[k].channel # c THEN f[k - 1]
                     ELSE Append(f[k - 1], events[k].value)
          BY <2>1, <5>1 DEF IsOwn
        <5>3. k # 0 => g[k - 1] = f[k - 1]
          BY <5>1
        <5> QED
          BY <5>1, <5>2, <5>3
      <4> QED
        BY <4>1, <4>2
    <3>2. g = h
      BY <3>1
    <3> QED
      BY <3>2 DEF IsOwn
  <2> QED
    BY <2>2
<1> HIDE DEF T
<1>3. 0..n \subseteq T
  BY <1>1, <1>2, UpTo
<1> QED
  BY <1>3 DEF T

\* The function by which ChannelValues is defined exists, and is what its
\* definition says of it.
LEMMA ValuesAreOwn ==
  ASSUME NEW events, NEW c, Len(events) \in Nat
  PROVE  \E f : /\ ChannelValues(events, c) = f[Len(events)]
                /\ f[0] = << >>
                /\ \A i \in 1..Len(events) :
                     f[i] = IF events[i].channel # c THEN f[i - 1]
                            ELSE Append(f[i - 1], events[i].value)
<1> DEFINE n == Len(events)
           f == CHOOSE own : IsOwn(own, n, events, c)
<1>1. IsOwn(f, n, events, c)
  BY OwnExists
<1>2. ChannelValues(events, c) = f[Len(events)]
  BY DEF ChannelValues, IsOwn
<1> HIDE DEF f, n
<1>3. f[0] = << >>
  BY <1>1 DEF IsOwn, n
<1>4. ASSUME NEW i \in 1..n
      PROVE  f[i] = IF events[i].channel # c THEN f[i - 1]
                    ELSE Append(f[i - 1], events[i].value)
  <2>1. n \in Nat /\ i \in 0..n /\ i # 0
    BY DEF n
  <2> QED
    BY <1>1, <2>1 DEF IsOwn
<1> QED
  BY <1>2, <1>3, <1>4 DEF n

\* What it takes from a queue are values, and none for a channel that has no changes.
LEMMA ChannelValuesType ==
  ASSUME NEW events \in Seq(Event), NEW c
  PROVE  /\ ChannelValues(events, c) \in Seq(AnyValue)
         /\ (\A i \in 1..Len(events) : events[i].channel # c) =>
              ChannelValues(events, c) = << >>
<1> DEFINE n == Len(events)
<1>1. n \in Nat /\ \A i \in 1..n : events[i].value \in AnyValue
  <2>1. n \in Nat /\ \A i \in 1..n : events[i] \in Event
    BY LenProperties, ElementOfSeq
  <2> QED
    BY <2>1 DEF Event
<1>2. PICK f : /\ ChannelValues(events, c) = f[n]
               /\ f[0] = << >>
               /\ \A i \in 1..n : f[i] = IF events[i].channel # c THEN f[i - 1]
                                         ELSE Append(f[i - 1], events[i].value)
  BY <1>1, ValuesAreOwn
<1> HIDE DEF n
<1> DEFINE T == {i \in 0..n : f[i] \in Seq(AnyValue)}
           E == {i \in 0..n : f[i] = << >>}
<1>3. 0 \in T /\ 0 \in E
  <2>1. 0 \in 0..n /\ f[0] = << >>
    BY <1>1, <1>2
  <2>2. << >> \in Seq(AnyValue)
    BY EmptySeq
  <2> QED
    BY <2>1, <2>2
<1>4. ASSUME NEW i \in 1..n, i - 1 \in T
      PROVE  i \in T
  <2>1. i \in 0..n /\ f[i - 1] \in Seq(AnyValue) /\ events[i].value \in AnyValue
    BY <1>1, <1>4
  <2>2. Append(f[i - 1], events[i].value) \in Seq(AnyValue)
    BY <2>1, AppendProperties
  <2> QED
    BY <1>2, <2>1, <2>2
<1>5. ASSUME \A i \in 1..n : events[i].channel # c, NEW i \in 1..n, i - 1 \in E
      PROVE  i \in E
  BY <1>1, <1>2, <1>5
<1> HIDE DEF T, E
<1>6. 0..n \subseteq T
  BY <1>1, <1>3, <1>4, UpTo
<1>7. (\A i \in 1..n : events[i].channel # c) => 0..n \subseteq E
  BY <1>1, <1>3, <1>5, UpTo
<1>8. n \in 0..n
  BY <1>1
<1> QED
  BY <1>2, <1>6, <1>7, <1>8 DEF T, E, n

\* A new change comes last in its own channel, and changes no other.
LEMMA AppendChannelValues ==
  ASSUME NEW events \in Seq(Event), NEW e \in Event, NEW c
  PROVE  ChannelValues(Append(events, e), c) =
           IF e.channel = c THEN Append(ChannelValues(events, c), e.value)
                            ELSE ChannelValues(events, c)
<1> DEFINE n == Len(events)
           more == Append(events, e)
<1>1. /\ n \in Nat /\ Len(more) = n + 1
      /\ more[n + 1] = e
      /\ \A i \in 1..n : more[i] = events[i]
  BY LenProperties, AppendProperties
<1>2. PICK f : /\ ChannelValues(events, c) = f[n]
               /\ f[0] = << >>
               /\ \A i \in 1..n : f[i] = IF events[i].channel # c THEN f[i - 1]
                                         ELSE Append(f[i - 1], events[i].value)
  BY <1>1, ValuesAreOwn
<1>3. Len(more) \in Nat
  BY <1>1
<1> HIDE DEF n, more
<1>4. PICK g : /\ ChannelValues(more, c) = g[n + 1]
               /\ g[0] = << >>
               /\ \A i \in 1..(n + 1) : g[i] = IF more[i].channel # c THEN g[i - 1]
                                               ELSE Append(g[i - 1], more[i].value)
  <2>1. \E g : /\ ChannelValues(more, c) = g[Len(more)]
               /\ g[0] = << >>
               /\ \A i \in 1..Len(more) : g[i] = IF more[i].channel # c THEN g[i - 1]
                                                 ELSE Append(g[i - 1], more[i].value)
    BY <1>3, ValuesAreOwn
  <2> QED
    BY <1>1, <2>1
<1> DEFINE T == {i \in 0..n : g[i] = f[i]}
<1>5. 0 \in T
  BY <1>1, <1>2, <1>4
<1>6. ASSUME NEW i \in 1..n, i - 1 \in T
      PROVE  i \in T
  <2>1. i \in 0..n /\ i \in 1..(n + 1) /\ g[i - 1] = f[i - 1] /\ more[i] = events[i]
    BY <1>1, <1>6
  <2> QED
    BY <1>2, <1>4, <2>1
<1> HIDE DEF T
<1>7. 0..n \subseteq T
  BY <1>1, <1>5, <1>6, UpTo
<1>8. g[n] = f[n]
  BY <1>1, <1>7 DEF T
<1>9. g[n + 1] = IF e.channel # c THEN g[n] ELSE Append(g[n], e.value)
  <2>1. n + 1 \in 1..(n + 1) /\ (n + 1) - 1 = n
    BY <1>1
  <2> QED
    BY <1>1, <1>4, <2>1
<1> QED
  BY <1>2, <1>4, <1>8, <1>9 DEF more

\* The oldest change leaves its own channel, and no other.
LEMMA TailChannelValues ==
  ASSUME NEW events \in Seq(Event), events # << >>, NEW c
  PROVE  IF Head(events).channel = c
         THEN /\ ChannelValues(events, c) # << >>
              /\ Head(ChannelValues(events, c)) = Head(events).value
              /\ Tail(ChannelValues(events, c)) = ChannelValues(Tail(events), c)
         ELSE ChannelValues(Tail(events), c) = ChannelValues(events, c)
<1> DEFINE n == Len(events)
           rest == Tail(events)
           e == Head(events)
           first == IF e.channel = c THEN <<e.value>> ELSE << >>
<1>1. /\ n \in Nat \ {0} /\ rest \in Seq(Event) /\ Len(rest) = n - 1
      /\ e = events[1] /\ e \in Event
      /\ \A i \in 1..(n - 1) : rest[i] = events[i + 1]
  BY LenProperties, EmptySeq, HeadTailProperties
<1>2. /\ \A i \in 1..n : events[i].value \in AnyValue
      /\ first \in Seq(AnyValue)
  <2>1. \A i \in 1..n : events[i] \in Event
    BY ElementOfSeq
  <2>2. e.value \in AnyValue
    BY <1>1 DEF Event
  <2> QED
    BY <2>1, <2>2 DEF Event
<1>3. PICK f : /\ ChannelValues(events, c) = f[n]
               /\ f[0] = << >>
               /\ \A i \in 1..n : f[i] = IF events[i].channel # c THEN f[i - 1]
                                         ELSE Append(f[i - 1], events[i].value)
  <2>1. Len(events) \in Nat
    BY <1>1
  <2> HIDE DEF n
  <2>2. \E f : /\ ChannelValues(events, c) = f[Len(events)]
               /\ f[0] = << >>
               /\ \A i \in 1..Len(events) : f[i] = IF events[i].channel # c THEN f[i - 1]
                                                   ELSE Append(f[i - 1], events[i].value)
    BY <2>1, ValuesAreOwn
  <2> QED
    BY <2>2 DEF n
<1>4. PICK g : /\ ChannelValues(rest, c) = g[n - 1]
               /\ g[0] = << >>
               /\ \A i \in 1..(n - 1) : g[i] = IF rest[i].channel # c THEN g[i - 1]
                                               ELSE Append(g[i - 1], rest[i].value)
  <2> HIDE DEF rest
  <2>1. Len(rest) \in Nat /\ Len(rest) = n - 1
    BY <1>1
  <2>2. \E g : /\ ChannelValues(rest, c) = g[Len(rest)]
               /\ g[0] = << >>
               /\ \A i \in 1..Len(rest) : g[i] = IF rest[i].channel # c THEN g[i - 1]
                                                 ELSE Append(g[i - 1], rest[i].value)
    BY <2>1, ValuesAreOwn
  <2> QED
    BY <2>1, <2>2
<1> HIDE DEF n, rest, e
<1> DEFINE T == {i \in 0..(n - 1) : g[i] \in Seq(AnyValue) /\ f[i + 1] = first \o g[i]}
<1>5. 0 \in T
  <2>1. f[1] = IF e.channel # c THEN << >> ELSE Append(<< >>, e.value)
    <3>1. 1 \in 1..n /\ 1 - 1 = 0
      BY <1>1
    <3> QED
      BY <1>1, <1>3, <3>1
  <2>2. << >> \in Seq(AnyValue) /\ first \o << >> = first
    BY <1>2, ConcatEmptySeq, EmptySeq
  <2>3. Append(<< >>, e.value) = <<e.value>>
    OBVIOUS
  <2>4. f[1] = first
    BY <2>1, <2>3
  <2> HIDE DEF first
  <2>5. 0 \in 0..(n - 1) /\ 0 + 1 = 1
    BY <1>1
  <2> QED
    BY <1>4, <2>2, <2>4, <2>5
<1>6. ASSUME NEW i \in 1..(n - 1), i - 1 \in T
      PROVE  i \in T
  <2> DEFINE x == rest[i].value
  <2>1. /\ i \in 0..(n - 1) /\ i + 1 \in 1..n /\ (i + 1) - 1 = i /\ (i - 1) + 1 = i
        /\ g[i - 1] \in Seq(AnyValue) /\ f[i] = first \o g[i - 1]
        /\ rest[i] = events[i + 1] /\ x \in AnyValue
    <3>1. i \in 0..(n - 1) /\ i + 1 \in 1..n /\ (i + 1) - 1 = i /\ (i - 1) + 1 = i
      BY <1>1
    <3>2. rest[i] = events[i + 1] /\ x \in AnyValue
      BY <1>1, <1>2, <3>1
    <3> HIDE DEF first, x
    <3>3. g[i - 1] \in Seq(AnyValue) /\ f[(i - 1) + 1] = first \o g[i - 1]
      BY <1>6
    <3> QED
      BY <3>1, <3>2, <3>3
  <2>2. g[i] = IF rest[i].channel # c THEN g[i - 1] ELSE Append(g[i - 1], x)
    BY <1>4
  <2>3. f[i + 1] = IF rest[i].channel # c THEN f[i] ELSE Append(f[i], x)
    BY <1>3, <2>1
  <2> HIDE DEF x, first
  <2>4. /\ Append(g[i - 1], x) \in Seq(AnyValue)
        /\ Append(first \o g[i - 1], x) = first \o Append(g[i - 1], x)
    <3> DEFINE y == g[i - 1]
    <3>1. y \in Seq(AnyValue) /\ first \in Seq(AnyValue) /\ <<x>> \in Seq(AnyValue)
      BY <1>2, <2>1
    <3> HIDE DEF y
    <3>2. first \o y \in Seq(AnyValue) /\ Append(y, x) \in Seq(AnyValue)
      BY <2>1, <3>1, ConcatProperties, AppendProperties
    <3>3. Append(y, x) = y \o <<x>> /\ Append(first \o y, x) = (first \o y) \o <<x>>
      BY <2>1, <3>1, <3>2, AppendIsConcat
    <3>4. (first \o y) \o <<x>> = first \o (y \o <<x>>)
      BY <3>1, ConcatAssociative
    <3> QED
      BY <3>2, <3>3, <3>4 DEF y
  <2> QED
    BY <2>1, <2>2, <2>3, <2>4
<1> HIDE DEF T
<1>7. 0..(n - 1) \subseteq T
  <2>1. n - 1 \in Nat
    BY <1>1
  <2> QED
    BY <1>5, <1>6, <2>1, UpTo
<1>8. ChannelValues(rest, c) \in Seq(AnyValue)
      /\ ChannelValues(events, c) = first \o ChannelValues(rest, c)
  <2>1. n - 1 \in 0..(n - 1) /\ (n - 1) + 1 = n
    BY <1>1
  <2> QED
    BY <1>3, <1>4, <1>7, <2>1 DEF T
<1>9. CASE e.channel = c
  <2> DEFINE vals == ChannelValues(rest, c)
  <2>1. e.value \in AnyValue
    BY <1>1 DEF Event
  <2> HIDE DEF vals
  <2>2. vals \in Seq(AnyValue) /\ ChannelValues(events, c) = <<e.value>> \o vals
    BY <1>8, <1>9 DEF vals
  <2>3. /\ <<e.value>> \o vals # << >>
        /\ Head(<<e.value>> \o vals) = e.value
        /\ Tail(<<e.value>> \o vals) = vals
    BY <2>1, <2>2
  <2> QED
    BY <1>9, <2>2, <2>3 DEF vals, e, rest
<1>10. CASE e.channel # c
  BY <1>8, <1>10, ConcatEmptySeq DEF e, rest
<1> QED
  BY <1>9, <1>10 DEF e

-----------------------------------------------------------------------------
(* One server                                                              *)

\* A server has a process variable for each callback, and for nothing else.
WellFormed(s) ==
  /\ s \in SharedServer /\ s # NoEntry /\ s.server # "null"
  /\ \A c \in Channel : s.callbacks[c] = NoVariable <=> s.pvs[c] = NoPV

LEMMA WiredByCallback ==
  ASSUME NEW s, WellFormed(s), NEW v \in Variable
  PROVE  WiredTo(s, v) <=> s.callbacks[ChannelOf[v]] = v
BY VariableConfiguration, SharedServerAssumption DEF WellFormed, WiredTo, Serves

\* A variable has nothing at a server that is not there, or is new.
LEMMA NothingThere ==
  ASSUME NEW v \in Variable
  PROVE  /\ OwnPV(NoEntry, v) = NoPV /\ OwnChanges(NoEntry, v) = << >>
         /\ OwnPV(NewSharedServer, v) = NoPV /\ OwnChanges(NewSharedServer, v) = << >>
         /\ LET s == EnsureServer(NewSharedServer)
            IN OwnPV(s, v) = NoPV /\ OwnChanges(s, v) = << >>
<1> DEFINE s == EnsureServer(NewSharedServer)
<1>1. s.pvs[ChannelOf[v]] = NoPV
  BY VariableConfiguration, UnusedServer
<1> HIDE DEF s
<1>2. OwnPV(s, v) = NoPV /\ OwnChanges(s, v) = << >>
  BY <1>1 DEF OwnPV, OwnChanges, WiredTo, Serves
<1>3. /\ OwnPV(NoEntry, v) = NoPV /\ OwnChanges(NoEntry, v) = << >>
      /\ OwnPV(NewSharedServer, v) = NoPV /\ OwnChanges(NewSharedServer, v) = << >>
  BY VariableConfiguration DEF OwnPV, OwnChanges, WiredTo, Serves, NewSharedServer
<1> QED
  BY <1>2, <1>3 DEF s

LEMMA StartKeepsOwn ==
  ASSUME NEW s, WellFormed(s), NEW v \in Variable
  PROVE  LET r == StartServer(s)
         IN OwnPV(r, v) = OwnPV(s, v) /\ OwnChanges(r, v) = OwnChanges(s, v)
<1> DEFINE r == StartServer(s)
<1>1. s \in SharedServer /\ ChannelOf[v] \in Channel
  BY VariableConfiguration DEF WellFormed
<1>2. /\ r \in SharedServer /\ r.server = "started" /\ r.pvs = s.pvs
      /\ r.callbacks = s.callbacks /\ r.events = s.events
  BY <1>1, StartServerEffect DEF StartServer, EnsureServer, SharedServer
<1> HIDE DEF r
<1>3. WiredTo(r, v) <=> WiredTo(s, v)
  BY <1>1, <1>2, NoEntryIsNoServer DEF WellFormed, WiredTo, Serves
<1> QED
  BY <1>2, <1>3 DEF OwnPV, OwnChanges, r

\* A change is one of the variable whose callback the channel has.
LEMMA ChangeIsOwn ==
  ASSUME NEW s, WellFormed(s), NEW u \in Variable, NEW value \in AnyValue,
         s.callbacks[ChannelOf[u]] = u, NEW v \in Variable
  PROVE  LET r == Change(s, ChannelOf[u], value)
         IN IF v = u
            THEN /\ OwnPV(s, v) # NoPV
                 /\ OwnPV(r, v) = value
                 /\ OwnChanges(r, v) = Append(OwnChanges(s, v), value)
            ELSE OwnPV(r, v) = OwnPV(s, v) /\ OwnChanges(r, v) = OwnChanges(s, v)
<1> DEFINE c == ChannelOf[u]
           d == ChannelOf[v]
           e == [channel |-> c, value |-> value]
           r == Change(s, c, value)
<1>1. /\ s \in SharedServer /\ c \in Channel /\ d \in Channel
      /\ s.events \in Seq(Event) /\ e \in Event
  BY VariableConfiguration DEF WellFormed, SharedServer, Event
<1>2. /\ r \in SharedServer /\ r.server = s.server /\ r.callbacks = s.callbacks
      /\ \A x \in Channel : r.pvs[x] = IF x = c THEN value ELSE s.pvs[x]
  BY <1>1, ChangeEffect
<1>3. ChannelValues(r.events, d) =
        IF c = d THEN Append(ChannelValues(s.events, d), value) ELSE ChannelValues(s.events, d)
  <2>1. r.events = Append(s.events, e) /\ e.channel = c /\ e.value = value
    BY <1>1 DEF Change, SharedServer
  <2>2. ChannelValues(Append(s.events, e), d) =
          IF e.channel = d THEN Append(ChannelValues(s.events, d), e.value)
                           ELSE ChannelValues(s.events, d)
    <3> HIDE DEF e, d
    <3> QED
      BY <1>1, AppendChannelValues
  <2> HIDE DEF r, e
  <2> QED
    BY <2>1, <2>2
<1>4. value # NoPV
  BY SharedServerAssumption
<1> HIDE DEF r, e
<1>5. WellFormed(r)
  <2>1. u # NoVariable
    BY SharedServerAssumption
  <2> QED
    BY <1>1, <1>2, <1>4, <2>1, NoEntryIsNoServer DEF WellFormed
<1>6. WiredTo(r, v) <=> WiredTo(s, v)
  BY <1>2, <1>5, WiredByCallback
<1>7. CASE v = u
  <2>1. WiredTo(s, v) /\ s.pvs[d] # NoPV
    BY <1>7, WiredByCallback DEF WiredTo, Serves
  <2> QED
    BY <1>1, <1>2, <1>3, <1>6, <1>7, <2>1 DEF OwnPV, OwnChanges, r
<1>8. CASE v # u
  <2>1. WiredTo(s, v) => c # d
    BY <1>8, WiredByCallback
  <2> QED
    BY <1>1, <1>2, <1>3, <1>6, <1>8, <2>1 DEF OwnPV, OwnChanges, r
<1> QED
  BY <1>7, <1>8

\* So is the change that is reported, which is the oldest one of that variable.
LEMMA ReportIsOwn ==
  ASSUME NEW s, WellFormed(s), s.events # << >>, NEW u \in Variable,
         Head(s.events).channel = ChannelOf[u], s.callbacks[ChannelOf[u]] = u,
         NEW v \in Variable
  PROVE  LET r == [s EXCEPT !.events = Tail(@)]
         IN /\ OwnPV(r, v) = OwnPV(s, v)
            /\ IF v = u
               THEN /\ OwnChanges(s, v) # << >>
                    /\ Head(OwnChanges(s, v)) = Head(s.events).value
                    /\ OwnChanges(r, v) = Tail(OwnChanges(s, v))
               ELSE OwnChanges(r, v) = OwnChanges(s, v)
<1> DEFINE c == ChannelOf[u]
           d == ChannelOf[v]
           r == [s EXCEPT !.events = Tail(@)]
<1>1. s \in SharedServer /\ c \in Channel /\ d \in Channel /\ s.events \in Seq(Event)
  BY VariableConfiguration DEF WellFormed, SharedServer
<1>2. /\ r \in SharedServer /\ r.server = s.server /\ r.callbacks = s.callbacks
      /\ r.pvs = s.pvs /\ r.events = Tail(s.events)
  BY <1>1, TailEffect DEF SharedServer
<1>3. IF c = d
      THEN /\ ChannelValues(s.events, d) # << >>
           /\ Head(ChannelValues(s.events, d)) = Head(s.events).value
           /\ ChannelValues(r.events, d) = Tail(ChannelValues(s.events, d))
      ELSE ChannelValues(r.events, d) = ChannelValues(s.events, d)
  BY <1>1, <1>2, TailChannelValues
<1> HIDE DEF r
<1>4. WellFormed(r)
  BY <1>2, NoEntryIsNoServer DEF WellFormed
<1>5. WiredTo(r, v) <=> WiredTo(s, v)
  BY <1>2, <1>4, WiredByCallback
<1>6. OwnPV(r, v) = OwnPV(s, v)
  BY <1>2, <1>5 DEF OwnPV
<1>7. CASE v = u
  <2>1. WiredTo(s, v)
    BY <1>7, WiredByCallback
  <2> QED
    BY <1>3, <1>5, <1>6, <1>7, <2>1 DEF OwnChanges, r
<1>8. CASE v # u
  <2>1. WiredTo(s, v) => c # d
    BY <1>8, WiredByCallback
  <2> QED
    BY <1>3, <1>5, <1>6, <1>8, <2>1 DEF OwnChanges, r
<1> QED
  BY <1>7, <1>8

\* What is added is the process variable of the variable that adds it.
LEMMA AddIsOwn ==
  ASSUME NEW s \in SharedServer, s = NewSharedServer \/ WellFormed(s), QueueInv(s),
         NEW u \in Variable, NEW value \in AnyValue, s.pvs[ChannelOf[u]] = NoPV,
         NEW v \in Variable
  PROVE  LET r == AddVariable(s, ChannelOf[u], value, u)
         IN IF v = u
            THEN /\ OwnPV(s, v) = NoPV
                 /\ OwnPV(r, v) = value
                 /\ OwnChanges(s, v) = << >> /\ OwnChanges(r, v) = << >>
            ELSE OwnPV(r, v) = OwnPV(s, v) /\ OwnChanges(r, v) = OwnChanges(s, v)
<1> DEFINE c == ChannelOf[u]
           d == ChannelOf[v]
           r == AddVariable(s, c, value, u)
<1>1. c \in Channel /\ d \in Channel /\ s.events \in Seq(Event) /\ value # NoPV
  BY VariableConfiguration, SharedServerAssumption DEF SharedServer
<1>2. /\ r \in SharedServer /\ r.server # "null" /\ r # NoEntry
      /\ r.pvs[c] = value /\ r.callbacks[c] = u
      /\ \A x \in Channel \ {c} : r.pvs[x] = s.pvs[x] /\ r.callbacks[x] = s.callbacks[x]
  BY <1>1, AddVariableEffect, NoEntryIsNoServer
<1>3. r.events = s.events /\ \A i \in 1..Len(s.events) : s.events[i].channel # c
  BY <1>1, AddQueue
<1>4. ChannelValues(s.events, c) = << >>
  BY <1>1, <1>3, ChannelValuesType
<1> HIDE DEF r
<1>5. CASE v = u
  <2>1. WiredTo(r, v) /\ ~WiredTo(s, v)
    BY <1>1, <1>2, <1>5 DEF WiredTo, Serves
  <2> QED
    BY <1>2, <1>3, <1>4, <1>5, <2>1 DEF OwnPV, OwnChanges, r
<1>6. CASE v # u
  <2>1. CASE c = d
    BY <1>1, <1>2, <1>6, <2>1 DEF WiredTo, Serves, OwnPV, OwnChanges, r
  <2>2. CASE c # d
    <3>1. s.server # "null" \/ s.pvs[d] = NoPV
      BY <1>1 DEF NewSharedServer, WellFormed
    <3>2. WiredTo(r, v) <=> WiredTo(s, v)
      BY <1>1, <1>2, <2>2, <3>1, NoEntryIsNoServer DEF WiredTo, Serves
    <3> QED
      BY <1>1, <1>2, <1>3, <1>6, <2>2, <3>2 DEF OwnPV, OwnChanges, r
  <2> QED
    BY <2>1, <2>2
<1> QED
  BY <1>5, <1>6

-----------------------------------------------------------------------------
(* What a step does to one register, does to all of them                   *)

\* v has what it had.
SameOwn(v) ==
  LET a == AddressFor(v)
  IN /\ OwnPV(registry'[a], v) = OwnPV(registry[a], v)
     /\ OwnChanges(registry'[a], v) = OwnChanges(registry[a], v)

LEMMA NothingHappens ==
  ASSUME \A v \in Variable : SameOwn(v), notified' = notified
  PROVE  UNCHANGED Registers!pubVars
BY DEF SameOwn, Registers!pubVars, AddressFor

LEMMA Publishes ==
  ASSUME NEW u \in Variable, NEW d \in AnyValue, \A v \in Variable \ {u} : SameOwn(v),
         LET a == AddressFor(u)
         IN /\ OwnPV(registry[a], u) = NoPV
            /\ OwnPV(registry'[a], u) = d
            /\ OwnChanges(registry'[a], u) = OwnChanges(registry[a], u),
         notified' = [notified EXCEPT ![u] = ViewOf[u][d]]
  PROVE  Registers!Publish(u)
BY DEF SameOwn, Registers!Publish, AddressFor

LEMMA Writes ==
  ASSUME NEW u \in Variable, NEW d \in AnyValue, \A v \in Variable \ {u} : SameOwn(v),
         LET a == AddressFor(u)
         IN /\ OwnPV(registry[a], u) # NoPV
            /\ OwnPV(registry'[a], u) = d
            /\ OwnChanges(registry'[a], u) = Append(OwnChanges(registry[a], u), d),
         notified' = notified
  PROVE  Registers!Write(u)
BY DEF SameOwn, Registers!Write, AddressFor

LEMMA Notices ==
  ASSUME NEW u \in Variable, NEW d, \A v \in Variable \ {u} : SameOwn(v),
         LET a == AddressFor(u)
         IN /\ OwnPV(registry'[a], u) = OwnPV(registry[a], u)
            /\ OwnChanges(registry[a], u) # << >>
            /\ Head(OwnChanges(registry[a], u)) = d
            /\ OwnChanges(registry'[a], u) = Tail(OwnChanges(registry[a], u)),
         notified' = [notified EXCEPT ![u] = ViewOf[u][d]]
  PROVE  Registers!Notice(u)
BY DEF SameOwn, Registers!Notice, AddressFor

LEMMA Withdraws ==
  ASSUME \A v \in Variable :
           LET a == AddressFor(v)
           IN SameOwn(v) \/ (OwnPV(registry'[a], v) = NoPV /\ OwnChanges(registry'[a], v) = << >>),
         \A v \in Variable : LET a == AddressFor(v)
                             IN OwnPV(registry[a], v) = NoPV => OwnChanges(registry[a], v) = << >>,
         notified' = notified
  PROVE  Registers!Withdraw
BY DEF SameOwn, Registers!Withdraw, AddressFor

-----------------------------------------------------------------------------
(* The steps of the registers                                              *)

PubStep == Registers!PubNext \/ UNCHANGED Registers!pubVars

LEMMA EntryIsWellFormed ==
  ASSUME TypeOK, ReportInv, EntriesHaveServers, fault = NoFault,
         NEW a \in Address, registry[a] # NoEntry
  PROVE  WellFormed(registry[a]) /\ QueueInv(registry[a])
BY DEF TypeOK, ReportInv, CallbackInv, EntriesHaveServers, WellFormed

\* Only one server is touched.
LEMMA OthersKeepOwn ==
  ASSUME NEW b, \A a \in Address \ {b} : registry'[a] = registry[a],
         NEW v \in Variable, AddressFor(v) # b
  PROVE  SameOwn(v)
BY VariableConfiguration DEF SameOwn

LEMMA RegistryKeepsOwn ==
  ASSUME registry' = registry, notified' = notified
  PROVE  PubStep
BY NothingHappens DEF SameOwn, PubStep

\* A set-up that throws leaves every register alone: a server that it has made
\* has none.
LEMMA ThrowsKeepsOwn ==
  ASSUME TypeOK, EntriesHaveServers, fault = NoFault, NEW v \in Variable, SetupThrows(v)
  PROVE  PubStep
<1>1. notified' = notified
  BY DEF SetupThrows
<1>2. ASSUME NEW u \in Variable
      PROVE  SameOwn(u)
  <2> DEFINE a == AddressFor(u)
  <2>1. a \in Address
    BY VariableConfiguration
  <2>2. CASE registry'[a] = registry[a]
    BY <2>2 DEF SameOwn
  <2>3. CASE registry[a] = NoEntry /\ registry'[a] # NoEntry
    <3>1. registry'[a] = EnsureServer(NewSharedServer)
      BY <2>1, <2>3, ThrowsMayLeaveServer DEF LeftByRefusal
    <3> QED
      BY <2>3, <3>1, NothingThere DEF SameOwn
  <2>4. CASE registry[a] # NoEntry
    <3>1. registry'[a] = registry[a]
      BY <2>1, <2>4, ThrowsEffect DEF EntriesHaveServers
    <3> QED
      BY <3>1 DEF SameOwn
  <2> QED
    BY <2>2, <2>3, <2>4
<1> QED
  BY <1>1, <1>2, NothingHappens DEF PubStep

LEMMA ValueStepWrites ==
  ASSUME TypeOK, WiringInv, ReportInv, EntriesHaveServers, fault = NoFault,
         NEW b \in Address, ValueStep(b)
  PROVE  PubStep
<1> DEFINE s == registry[b]
<1>1. s # NoEntry /\ notified' = notified /\ \A a \in Address \ {b} : registry'[a] = registry[a]
  BY DEF ValueStep
<1>2. WellFormed(s) /\ s \in SharedServer
  BY <1>1, EntryIsWellFormed DEF WellFormed
<1>3. CASE registry'[b] = s
  <2>1. \A v \in Variable : SameOwn(v)
    BY <1>3, <1>1, OthersKeepOwn DEF SameOwn
  <2> QED
    BY <1>1, <2>1, NothingHappens DEF PubStep
<1>4. ASSUME NEW c \in Channel, NEW value \in AnyValue, s.pvs[c] # NoPV,
             registry'[b] = Change(s, c, value)
      PROVE  PubStep
  <2> DEFINE u == s.callbacks[c]
  <2>1. u # NoVariable
    BY <1>2, <1>4 DEF WellFormed
  <2>2. u \in Variable /\ ChannelOf[u] = c /\ AddressFor(u) = b
    BY <1>1, <2>1, CallbackOwner
  <2> HIDE DEF s
  <2>3. s.callbacks[ChannelOf[u]] = u
    BY <2>2
  <2> HIDE DEF u
  <2>4. \A v \in Variable :
          LET r == Change(s, c, value)
          IN IF v = u
             THEN /\ OwnPV(s, v) # NoPV
                  /\ OwnPV(r, v) = value
                  /\ OwnChanges(r, v) = Append(OwnChanges(s, v), value)
             ELSE OwnPV(r, v) = OwnPV(s, v) /\ OwnChanges(r, v) = OwnChanges(s, v)
    BY <1>2, <2>2, <2>3, ChangeIsOwn
  <2>5. \A v \in Variable \ {u} : SameOwn(v)
    BY <1>1, <1>4, <2>4, OthersKeepOwn DEF SameOwn, s
  <2>6. Registers!Write(u)
    BY <1>1, <1>4, <2>2, <2>4, <2>5, Writes DEF s
  <2> QED
    BY <2>2, <2>6 DEF PubStep, Registers!PubNext
<1> QED
  BY <1>3, <1>4 DEF ValueStep

\* A call that finds no server leaves one behind that has nothing.
LEMMA CallServerWrites ==
  ASSUME TypeOK, WiringInv, ReportInv, EntriesHaveServers, fault = NoFault,
         NEW v \in Variable, NEW value \in AnyValue, NEW s1,
         LET s == GetServer(AddressFor(v))
         IN s1 = s \/ s1 = SetServerValue(s, ChannelOf[v], value),
         CallServer(v, s1)
  PROVE  PubStep
<1> DEFINE b == AddressFor(v)
           s == GetServer(b)
<1>1. b \in Address /\ ChannelOf[v] \in Channel
  BY VariableConfiguration
<1>2. UNCHANGED <<anytype, notified, phase, todo, actions>>
  BY DEF CallServer
<1>3. CASE registry[b] # NoEntry
  <2>1. s = registry[b]
    BY <1>3 DEF GetServer
  <2>2. PICK r \in {s, s1} : registry' = [registry EXCEPT ![b] = r]
    BY DEF CallServer
  <2>3. r = s \/ (s.pvs[ChannelOf[v]] # NoPV /\ r = Change(s, ChannelOf[v], value))
    BY <2>2 DEF SetServerValue, Serves
  <2>4. ValueStep(b)
    BY <1>1, <1>2, <1>3, <2>1, <2>2, <2>3 DEF ValueStep, TypeOK
  <2> QED
    BY <1>1, <2>4, ValueStepWrites
<1>4. CASE registry[b] = NoEntry
  <2>1. s = NewSharedServer /\ s.server = "null"
    BY <1>4 DEF GetServer, NewSharedServer
  <2>2. registry' = [registry EXCEPT ![b] = NewSharedServer]
    BY <2>1 DEF CallServer
  <2>3. /\ registry'[b] = NewSharedServer
        /\ \A a \in Address \ {b} : registry'[a] = registry[a]
    BY <1>1, <2>2 DEF TypeOK
  <2>4. \A u \in Variable : SameOwn(u)
    BY <1>4, <2>3, NothingThere, OthersKeepOwn DEF SameOwn
  <2> QED
    BY <1>2, <2>4, NothingHappens DEF PubStep
<1> QED
  BY <1>3, <1>4

LEMMA OwnerStepKeepsRegisters ==
  ASSUME TypeOK, WiringInv, ReportInv, EntriesHaveServers, fault = NoFault,
         NEW w \in Workspace, OwnerStep(w)
  PROVE  PubStep
<1> DEFINE b == AddressOf[w]
<1>1. b \in Address
  BY ConfigurationAssumption
<1>2. CASE \/ Create(w) \/ BeginSetup(w) \/ BeginTeardown(w) \/ FinishTeardown(w)
           \/ Destroy(w)
  BY <1>2, RegistryKeepsOwn DEF Create, BeginSetup, BeginTeardown, FinishTeardown, Destroy
<1>3. CASE RunSetupActions(w)
  <2>1. notified' = notified
    BY <1>3 DEF RunSetupActions
  <2>2. CASE registry' = registry
    BY <2>1, <2>2, RegistryKeepsOwn
  <2>3. CASE registry' # registry
    <3>1. registry' = [registry EXCEPT ![b] = StartServer(@)] /\ registry[b] # NoEntry
      BY <1>3, <2>3 DEF RunSetupActions, RegistrySetup
    <3>2. /\ registry'[b] = StartServer(registry[b])
          /\ \A a \in Address \ {b} : registry'[a] = registry[a]
      BY <1>1, <3>1 DEF TypeOK
    <3>3. WellFormed(registry[b])
      BY <1>1, <3>1, EntryIsWellFormed
    <3>4. ASSUME NEW v \in Variable
          PROVE  SameOwn(v)
      <4>1. CASE AddressFor(v) = b
        BY <3>2, <3>3, <4>1, StartKeepsOwn DEF SameOwn
      <4>2. CASE AddressFor(v) # b
        BY <3>2, <4>2, OthersKeepOwn
      <4> QED
        BY <4>1, <4>2
    <3> QED
      BY <2>1, <3>4, NothingHappens DEF PubStep
  <2> QED
    BY <2>2, <2>3
<1>4. ASSUME NEW k \in ActionKeys, RunTeardownAction(w, k)
      PROVE  PubStep
  <2>1. notified' = notified
    BY <1>4 DEF RunTeardownAction
  <2>2. CASE registry' = registry
    BY <2>1, <2>2, RegistryKeepsOwn
  <2>3. CASE registry' = [registry EXCEPT ![b] = NoEntry]
    <3>1. registry'[b] = NoEntry /\ \A a \in Address \ {b} : registry'[a] = registry[a]
      BY <1>1, <2>3 DEF TypeOK
    <3>2. \A v \in Variable :
            LET a == AddressFor(v)
            IN \/ SameOwn(v)
               \/ OwnPV(registry'[a], v) = NoPV /\ OwnChanges(registry'[a], v) = << >>
      BY <3>1, NothingThere, OthersKeepOwn
    <3>3. \A v \in Variable :
            LET a == AddressFor(v)
            IN OwnPV(registry[a], v) = NoPV => OwnChanges(registry[a], v) = << >>
      BY DEF OwnPV, OwnChanges, WiredTo, Serves
    <3>4. Registers!Withdraw
      BY <2>1, <3>2, <3>3, Withdraws
    <3> QED
      BY <3>4 DEF PubStep, Registers!PubNext
  <2> QED
    BY <1>4, <2>2, <2>3 DEF RunTeardownAction, RegistryTeardown
<1> QED
  BY <1>2, <1>3, <1>4 DEF OwnerStep

LEMMA SetupPublishes ==
  ASSUME TypeOK, WiringInv, ReportInv, EntriesHaveServers, fault = NoFault,
         NEW v \in Variable, SetupImpl(v), SetupSucceeds(v)
  PROVE  PubStep
<1> DEFINE b   == AddressFor(v)
           c   == ChannelOf[v]
           t   == SetupType(v)
           val == GetInitialValue(v, t)
           pub == ToServer(v, val)
           s   == GetServer(b)
           r   == AddVariable(s, c, pub, v)
<1>1. /\ b \in Address /\ TypeAccepted(v)
      /\ registry' = [registry EXCEPT ![b] = r]
      /\ notified' = [notified EXCEPT ![v] = val]
  BY VariableConfiguration DEF SetupSucceeds
<1>2. /\ s \in SharedServer /\ QueueInv(s) /\ s.pvs[c] = NoPV
      /\ s = NewSharedServer \/ WellFormed(s)
  BY <1>1, ChannelIsFree, EntryIsWellFormed DEF SetupImpl, GetServer
<1>3. pub \in AnyValue
  <2>1. t \in AnyType
    BY InitialValueType DEF AnyType
  <2> QED
    BY <2>1, InitialValueType
<1>4. ViewOf[v][pub] = val
  <2>1. (IF Kind[v] = "plain" THEN ConvertToTypedAnyValue(pub, t) ELSE Decode(pub)) = val
    BY <1>1, InitialValueIsRead
  <2>2. Kind[v] = "plain" => t = ParsedType[v]
    BY <1>1 DEF TypeAccepted, SetupType
  <2> HIDE DEF pub, val, t
  <2> QED
    BY <1>3, <2>1, <2>2 DEF ViewOf
<1> HIDE DEF s, val, pub
<1>5. \A u \in Variable :
        IF u = v
        THEN /\ OwnPV(s, u) = NoPV
             /\ OwnPV(r, u) = pub
             /\ OwnChanges(s, u) = << >> /\ OwnChanges(r, u) = << >>
        ELSE OwnPV(r, u) = OwnPV(s, u) /\ OwnChanges(r, u) = OwnChanges(s, u)
  BY <1>2, <1>3, AddIsOwn
<1>6. \A u \in Variable : OwnPV(registry[b], u) = OwnPV(s, u)
                          /\ OwnChanges(registry[b], u) = OwnChanges(s, u)
  BY NothingThere DEF s, GetServer
<1>7. registry'[b] = r /\ \A a \in Address \ {b} : registry'[a] = registry[a]
  BY <1>1 DEF TypeOK
<1> HIDE DEF r
<1>8. ASSUME NEW u \in Variable \ {v}
      PROVE  SameOwn(u)
  <2>1. CASE AddressFor(u) = b
    BY <1>5, <1>6, <1>7, <2>1 DEF SameOwn
  <2>2. CASE AddressFor(u) # b
    BY <1>7, <2>2, OthersKeepOwn
  <2> QED
    BY <2>1, <2>2
<1>9. Registers!Publish(v)
  <2>1. /\ OwnPV(registry[b], v) = NoPV
        /\ OwnPV(registry'[b], v) = pub
        /\ OwnChanges(registry'[b], v) = OwnChanges(registry[b], v)
    BY <1>5, <1>6, <1>7
  <2> QED
    BY <1>1, <1>3, <1>4, <1>8, <2>1, Publishes
<1> QED
  BY <1>9 DEF PubStep, Registers!PubNext

LEMMA DeliverNotices ==
  ASSUME TypeOK, WiringInv, ReportInv, ServersAreTyped, EntriesHaveServers, fault = NoFault,
         NEW b \in Address, Deliver(b)
  PROVE  PubStep
<1> DEFINE s == registry[b]
           e == Head(s.events)
           r == [s EXCEPT !.events = Tail(@)]
           u == CallbackTarget(s)
<1>1. s # NoEntry /\ s.events # << >> /\ registry' = [registry EXCEPT ![b] = r]
  BY DEF Deliver
<1>2. /\ s \in SharedServer /\ e.channel \in Channel
      /\ u = s.callbacks[e.channel] /\ u \in Variable /\ u # NoVariable
      /\ ChannelOf[u] = e.channel /\ AddressFor(u) = b
      /\ Alive(WorkspaceOf[u])
  BY <1>1, TargetIsAlive
<1>3. notified' = [notified EXCEPT ![u] = FromServer(u, e.value)]
  BY <1>2 DEF Deliver
<1>4. WellFormed(s)
  BY <1>1, EntryIsWellFormed
<1>5. FromServer(u, e.value) = ViewOf[u][e.value]
  <2>1. e.value \in AnyValue
    BY <1>1, <1>2, TailEffect DEF Event
  <2>2. Kind[u] = "plain" => anytype[u] = ParsedType[u]
    <3>1. TypedInv(s)
      BY <1>1 DEF ServersAreTyped
    <3> HIDE DEF s, u
    <3> QED
      BY <1>2, <3>1 DEF TypedInv
  <2> HIDE DEF u, e
  <2> QED
    BY <1>2, <2>1, <2>2 DEF ViewOf, FromServer
<1>6. registry'[b] = r /\ \A a \in Address \ {b} : registry'[a] = registry[a]
  BY <1>1 DEF TypeOK
<1>7. \A v \in Variable :
        /\ OwnPV(r, v) = OwnPV(s, v)
        /\ IF v = u
           THEN /\ OwnChanges(s, v) # << >>
                /\ Head(OwnChanges(s, v)) = e.value
                /\ OwnChanges(r, v) = Tail(OwnChanges(s, v))
           ELSE OwnChanges(r, v) = OwnChanges(s, v)
  <2>1. s.callbacks[ChannelOf[u]] = u
    BY <1>2
  <2> HIDE DEF u, s
  <2> QED
    BY <1>1, <1>2, <1>4, <2>1, ReportIsOwn
<1> HIDE DEF r, u, e
<1>8. \A v \in Variable \ {u} : SameOwn(v)
  BY <1>6, <1>7, OthersKeepOwn DEF SameOwn
<1>9. Registers!Notice(u)
  <2>1. u \in Variable /\ AddressFor(u) = b
    BY <1>2
  <2>2. /\ OwnPV(registry'[b], u) = OwnPV(registry[b], u)
        /\ OwnChanges(registry[b], u) # << >>
        /\ Head(OwnChanges(registry[b], u)) = e.value
        /\ OwnChanges(registry'[b], u) = Tail(OwnChanges(registry[b], u))
    BY <2>1, <1>6, <1>7
  <2>3. notified' = [notified EXCEPT ![u] = ViewOf[u][e.value]]
    BY <1>3, <1>5
  <2> HIDE DEF s
  <2> QED
    BY <1>8, <2>1, <2>2, <2>3, Notices
<1> QED
  BY <1>2, <1>9 DEF PubStep, Registers!PubNext

LEMMA NextKeepsRegisters ==
  ASSUME TypeOK, WiringInv, ReportInv, ServersAreTyped, EntriesHaveServers, Next
  PROVE  PubStep
<1>1. fault = NoFault
  BY DEF Next
<1>2. ASSUME NEW v \in Variable, VariableStep(v)
      PROVE  PubStep
  <2>1. anytype[v] \in AnyType
    BY DEF TypeOK
  <2>2. CASE TeardownImpl(v)
    BY <2>2, RegistryKeepsOwn DEF TeardownImpl
  <2>7. CASE SetupImpl(v) /\ SetupThrows(v)
    BY <1>1, <2>7, ThrowsKeepsOwn
  <2>3. CASE SetupImpl(v) /\ SetupSucceeds(v)
    BY <1>1, <2>3, SetupPublishes
  <2>4. CASE GetValue(v)
    <3>1. EmptyValue \in AnyValue
      BY DEF EmptyValue, AnyValue, Form
    <3> QED
      BY <1>1, <2>4, <3>1, CallServerWrites DEF GetValue
  <2>5. CASE ResetImpl(v)
    <3>1. ToServer(v, GetInitialValue(v, anytype[v])) \in AnyValue
      BY <2>1, InitialValueType
    <3> QED
      BY <1>1, <2>5, <3>1, CallServerWrites DEF ResetImpl
  <2>6. ASSUME NEW x \in Payload, SetValueImpl(v, x)
        PROVE  PubStep
    <3> DEFINE t == IF Kind[v] = "plain" THEN anytype[v] ELSE "scalar"
    <3>1. t \in AnyType
      BY <2>1 DEF AnyType
    <3>2. ToServer(v, TypedValue(t, x)) \in AnyValue
      BY <3>1, ToServerType
    <3> QED
      BY <1>1, <2>6, <3>2, CallServerWrites DEF SetValueImpl
  <2> QED
    BY <1>2, <2>2, <2>3, <2>4, <2>5, <2>6, <2>7 DEF VariableStep, SetupImpl
<1>3. ASSUME NEW a \in Address, ServerStep(a)
      PROVE  PubStep
  BY <1>1, <1>3, DeliverNotices, ClientPutIsValueStep, ValueStepWrites DEF ServerStep
<1> QED
  BY <1>1, <1>2, <1>3, OwnerStepKeepsRegisters DEF Next

-----------------------------------------------------------------------------
(* Every entry has a server                                                *)

LEMMA InitEntries == Init => EntriesHaveServers
BY DEF Init, EntriesHaveServers

\* A server that is not there ends the program when it is used.
LEMMA CallServerKeepsEntries ==
  ASSUME TypeOK, EntriesHaveServers, fault = NoFault, NEW v \in Variable,
         NEW value \in AnyValue, NEW s1,
         LET s == GetServer(AddressFor(v))
         IN s1 = s \/ s1 = SetServerValue(s, ChannelOf[v], value),
         CallServer(v, s1)
  PROVE  EntriesHaveServers'
<1> DEFINE b == AddressFor(v)
           s == GetServer(b)
<1>1. b \in Address /\ ChannelOf[v] \in Channel /\ WorkspaceOf[v] \in Workspace /\ s \in SharedServer
  BY VariableConfiguration, GetServerType
<1>2. CASE s.server = "null"
  <2>1. fault' = [kind |-> "null server", workspace |-> WorkspaceOf[v]]
    BY <1>2 DEF CallServer
  <2>2. fault' # NoFault
    BY <1>1, <2>1, FaultType, ConfigurationAssumption DEF Fault, FaultKind
  <2> QED
    BY <2>2 DEF EntriesHaveServers
<1>3. CASE s.server # "null"
  <2>1. registry' = [registry EXCEPT ![b] = s1]
    BY <1>3 DEF CallServer
  <2>2. s1.server = s.server
    BY <1>1, SetServerValueEffect
  <2> QED
    BY <1>1, <1>3, <2>1, <2>2 DEF EntriesHaveServers, TypeOK
<1> QED
  BY <1>2, <1>3

LEMMA NextEntries ==
  ASSUME TypeOK, EntriesHaveServers, Next
  PROVE  EntriesHaveServers'
<1>1. fault = NoFault
  BY DEF Next
<1>2. ASSUME NEW w \in Workspace, OwnerStep(w)
      PROVE  EntriesHaveServers'
  <2> DEFINE a == AddressOf[w]
  <2>1. a \in Address
    BY ConfigurationAssumption
  <2>2. \/ registry' = registry
        \/ registry' = [registry EXCEPT ![a] = NoEntry]
        \/ registry[a] # NoEntry /\ registry' = [registry EXCEPT ![a] = StartServer(@)]
    BY <1>2 DEF OwnerStep, Create, BeginSetup, RunSetupActions, RegistrySetup, BeginTeardown,
       FinishTeardown, Destroy, RunTeardownAction, RegistryTeardown
  <2>3. CASE registry[a] # NoEntry /\ registry' = [registry EXCEPT ![a] = StartServer(@)]
    <3>1. StartServer(registry[a]).server = "started"
      BY <2>1, <2>3, StartServerEffect DEF TypeOK
    <3> QED
      BY <1>1, <2>1, <2>3, <3>1 DEF EntriesHaveServers, TypeOK
  <2> QED
    BY <1>1, <2>1, <2>2, <2>3 DEF EntriesHaveServers, TypeOK
<1>3. ASSUME NEW v \in Variable, VariableStep(v)
      PROVE  EntriesHaveServers'
  <2>1. /\ AddressFor(v) \in Address /\ GetServer(AddressFor(v)) \in SharedServer
        /\ anytype[v] \in AnyType /\ ChannelOf[v] \in Channel
    BY VariableConfiguration, GetServerType DEF TypeOK
  <2>2. CASE TeardownImpl(v)
    BY <1>1, <2>2 DEF TeardownImpl, EntriesHaveServers
  <2>7. CASE SetupImpl(v) /\ SetupThrows(v)
    <3>1. EnsureServer(GetServer(AddressFor(v))).server # "null"
      BY <2>1, EnsureServerEffect
    <3> QED
      BY <1>1, <2>1, <2>7, <3>1, ThrowsEffect DEF EntriesHaveServers
  <2>3. CASE SetupImpl(v) /\ SetupSucceeds(v)
    <3> DEFINE b == AddressFor(v)
               t == SetupType(v)
               pub == ToServer(v, GetInitialValue(v, t))
               r == AddVariable(GetServer(b), ChannelOf[v], pub, v)
    <3>1. pub \in AnyValue
      <4>1. t \in AnyType
        BY InitialValueType DEF AnyType
      <4> QED
        BY <4>1, InitialValueType
    <3>2. registry' = [registry EXCEPT ![b] = r]
      BY <2>3 DEF SetupSucceeds
    <3> HIDE DEF pub
    <3>3. r.server # "null"
      BY <2>1, <3>1, AddVariableEffect
    <3> QED
      BY <1>1, <2>1, <3>2, <3>3 DEF EntriesHaveServers, TypeOK
  <2>4. CASE GetValue(v)
    <3>1. EmptyValue \in AnyValue
      BY DEF EmptyValue, AnyValue, Form
    <3> QED
      BY <1>1, <2>4, <3>1, CallServerKeepsEntries DEF GetValue
  <2>5. CASE ResetImpl(v)
    <3>1. ToServer(v, GetInitialValue(v, anytype[v])) \in AnyValue
      BY <2>1, InitialValueType
    <3> QED
      BY <1>1, <2>5, <3>1, CallServerKeepsEntries DEF ResetImpl
  <2>6. ASSUME NEW x \in Payload, SetValueImpl(v, x)
        PROVE  EntriesHaveServers'
    <3> DEFINE t == IF Kind[v] = "plain" THEN anytype[v] ELSE "scalar"
    <3>1. t \in AnyType
      BY <2>1 DEF AnyType
    <3>2. ToServer(v, TypedValue(t, x)) \in AnyValue
      BY <3>1, ToServerType
    <3> QED
      BY <1>1, <2>6, <3>2, CallServerKeepsEntries DEF SetValueImpl
  <2> QED
    BY <1>3, <2>2, <2>3, <2>4, <2>5, <2>6, <2>7 DEF VariableStep, SetupImpl
<1>4. ASSUME NEW a \in Address, ServerStep(a)
      PROVE  EntriesHaveServers'
  <2>1. CASE Deliver(a)
    <3> DEFINE r == [registry[a] EXCEPT !.events = Tail(@)]
    <3>1. registry[a] \in SharedServer /\ registry[a] # NoEntry
      BY <2>1 DEF Deliver, TypeOK
    <3>2. registry' = [registry EXCEPT ![a] = r] /\ r.server = registry[a].server
      BY <2>1, <3>1 DEF Deliver, SharedServer
    <3> HIDE DEF r
    <3> QED
      BY <1>1, <3>1, <3>2 DEF EntriesHaveServers, TypeOK
  <2>2. ASSUME NEW c \in Channel, NEW value \in AnyValue, ClientPut(a, c, value)
        PROVE  EntriesHaveServers'
    <3>1. registry[a] \in SharedServer /\ registry[a] # NoEntry
      BY <2>2 DEF ClientPut, TypeOK
    <3>2. Change(registry[a], c, value).server = registry[a].server
      BY <3>1, ChangeEffect
    <3> QED
      BY <1>1, <2>2, <3>1, <3>2 DEF ClientPut, EntriesHaveServers, TypeOK
  <2> QED
    BY <1>4, <2>1, <2>2 DEF ServerStep
<1> QED
  BY <1>2, <1>3, <1>4 DEF Next

-----------------------------------------------------------------------------
(* The theorem about registers                                             *)

\* Where teardown actions come first and are not left out, sharing a server or
\* an address is invisible: every variable is a register of its own, and each
\* change of it, by whom it may be, is told to its own workspace, in order, in
\* its own type and once, until the register is withdrawn.
THEOREM VariablesAreRegisters ==
  ASSUME RunsActionsAfterFailure, "variables first" \notin TeardownOrders
  PROVE  Spec => Registers!PubSafety
<1>1. TypeOK /\ WiringInv /\ ReportInv /\ ServersAreTyped /\ NotifiesItsType /\ [Next]_vars
        => ServersAreTyped' /\ NotifiesItsType'
  BY StepKeepsTypes
<1>2. TypeOK /\ EntriesHaveServers /\ [Next]_vars => EntriesHaveServers'
  BY NextEntries DEF vars, EntriesHaveServers
<1>3. ASSUME Init
      PROVE  Registers!PubInit
  <2>1. ASSUME NEW v \in Variable
        PROVE  /\ OwnPV(registry[AddressFor(v)], v) = NoPV
               /\ OwnChanges(registry[AddressFor(v)], v) = << >>
    <3>1. registry[AddressFor(v)] = NoEntry
      BY <1>3, VariableConfiguration DEF Init
    <3> QED
      BY <3>1, NothingThere
  <2> QED
    BY <1>3, <2>1 DEF Init, Registers!PubInit
<1>4. ASSUME TypeOK, WiringInv, ReportInv, ServersAreTyped, EntriesHaveServers, [Next]_vars
      PROVE  [Registers!PubNext]_(Registers!pubVars)
  <2>1. CASE UNCHANGED vars
    BY <2>1, RegistryKeepsOwn DEF vars, PubStep
  <2>2. CASE Next
    BY <1>4, <2>2, NextKeepsRegisters DEF PubStep
  <2> QED
    BY <1>4, <2>1, <2>2
<1> QED
  BY <1>1, <1>2, <1>3, <1>4, InitTyped, InitEntries, TypeCorrect, WiringInvariant,
     ReportInvariant, PTL DEF Spec, Registers!PubSafety

===============================================================================
