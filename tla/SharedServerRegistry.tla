------------------------ MODULE SharedServerRegistry ------------------------
(***************************************************************************)
(* class PvAccessSharedServerRegistry, call by call as several threads of  *)
(* several workspaces make them: the map m_servers is not protected by a   *)
(* lock, so two calls that are inside it at the same time race unless both *)
(* only look something up.                                                 *)
(*                                                                         *)
(* A workspace is set up and torn down by one thread, and used by several  *)
(* while it runs.  Nothing orders the threads of two workspaces.           *)
(* PvAccessServerVariables takes the calls to be atomic; this module says  *)
(* when that is so.                                                        *)
(***************************************************************************)
CONSTANTS Workspace,  \* workspaces with different addresses
          Thread,
          Home        \* [Thread -> Workspace], for which a thread works

ASSUME HomeAssumption == Home \in [Thread -> Workspace]

VARIABLES
  entries,  \* the workspaces that have a server in m_servers
  phase,    \* [Workspace -> Phase]
  ready,    \* [Workspace -> BOOLEAN], a variable has returned its actions
  call,     \* [Thread -> Call], the member function that the thread is in
  pc        \* [Thread -> PC], and where in it

vars == <<entries, phase, ready, call, pc>>

Phase == {"new", "setup", "failed", "running", "teardown"}
Call == {"none", "GetServer", "Setup", "Teardown"}

\* find, emplace and erase are inside the map; use is behind the reference or
\* iterator that was found; throw has found what it must not find.
PC == {"idle", "find", "emplace", "use", "erase", "throw"}

TypeOK ==
  /\ entries \in SUBSET Workspace
  /\ phase \in [Workspace -> Phase]
  /\ ready \in [Workspace -> BOOLEAN]
  /\ call \in [Thread -> Call]
  /\ pc \in [Thread -> PC]

Init ==
  /\ entries = {}
  /\ phase = [w \in Workspace |-> "new"]
  /\ ready = [w \in Workspace |-> FALSE]
  /\ call = [t \in Thread |-> "none"]
  /\ pc = [t \in Thread |-> "idle"]

Idle(w) == \A t \in Thread : Home[t] = w => pc[t] = "idle"

Racing(t, u) ==
  /\ t # u
  /\ pc[t] \in {"emplace", "erase"}
  /\ pc[u] \in {"find", "emplace", "erase"}

-----------------------------------------------------------------------------
(* The member functions                                                    *)

Goes(t, p) ==
  /\ pc' = [pc EXCEPT ![t] = p]
  /\ UNCHANGED <<phase, ready, call>>

Calls(t, f) ==
  /\ pc[t] = "idle"
  /\ pc' = [pc EXCEPT ![t] = "find"]
  /\ call' = [call EXCEPT ![t] = f]
  /\ UNCHANGED <<entries, phase, ready>>

\* Mutant: the server is inserted, if there is none, without a look first.
FindMutant(t) ==
  /\ pc[t] = "find"
  /\ Goes(t, IF call[t] = "GetServer" THEN "emplace" ELSE "use")
  /\ UNCHANGED entries

\* m_servers.find(ws): GetServer() inserts what is missing, the others throw.
Find(t) ==
  /\ pc[t] = "find"
  /\ Goes(t, IF Home[t] \in entries THEN "use"
             ELSE IF call[t] = "GetServer" THEN "emplace" ELSE "throw")
  /\ UNCHANGED entries

\* GetServer() throws when another thread has inserted the server.
Emplace(t) ==
  /\ pc[t] = "emplace"
  /\ Goes(t, IF Home[t] \in entries THEN "throw" ELSE "use")
  /\ entries' = entries \cup {Home[t]}

Returns(t) ==
  /\ pc' = [pc EXCEPT ![t] = "idle"]
  /\ call' = [call EXCEPT ![t] = "none"]

\* The caller of GetServer() uses the reference; in a SetupImpl AddVariable()
\* may throw, and the actions are returned if it does not.
UseReference(t) ==
  /\ call[t] = "GetServer"
  /\ Returns(t)
  /\ IF phase[Home[t]] = "setup"
     THEN \/ ready' = [ready EXCEPT ![Home[t]] = TRUE] /\ UNCHANGED phase
          \/ phase' = [phase EXCEPT ![Home[t]] = "failed"] /\ UNCHANGED ready
     ELSE UNCHANGED <<phase, ready>>

UseInSetup(t) ==
  /\ call[t] = "Setup"
  /\ Returns(t)
  /\ phase' = [phase EXCEPT ![Home[t]] = "running"]
  /\ UNCHANGED ready

UseInTeardown(t) == call[t] = "Teardown" /\ Goes(t, "erase")

Use(t) ==
  /\ pc[t] = "use"
  /\ UseReference(t) \/ UseInSetup(t) \/ UseInTeardown(t)
  /\ UNCHANGED entries

\* Mutant: everything is erased.
EraseMutant(t) ==
  /\ pc[t] = "erase"
  /\ entries' = {}
  /\ Returns(t)
  /\ ready' = [ready EXCEPT ![Home[t]] = FALSE]
  /\ phase' = [phase EXCEPT ![Home[t]] = "new"]

Erase(t) ==
  /\ pc[t] = "erase"
  /\ entries' = entries \ {Home[t]}
  /\ Returns(t)
  /\ ready' = [ready EXCEPT ![Home[t]] = FALSE]
  /\ phase' = [phase EXCEPT ![Home[t]] = "new"]

-----------------------------------------------------------------------------
(* Their callers                                                           *)

Moves(w, from, to) ==
  /\ phase[w] = from
  /\ phase' = [phase EXCEPT ![w] = to]
  /\ UNCHANGED <<entries, ready, call, pc>>

BeginSetup(w) == Moves(w, "new", "setup")

\* A SetupImpl throws before it asks for the server.
FailSetup(w) == Idle(w) /\ Moves(w, "setup", "failed")

\* A workspace without server variables makes no calls.
SkipSetup(w) == ~ready[w] /\ Idle(w) /\ Moves(w, "setup", "running")

BeginTeardown(w) ==
  /\ Idle(w)
  /\ ready[w]
  /\ Moves(w, "running", "teardown") \/ Moves(w, "failed", "teardown")

SkipTeardown(w) ==
  /\ Idle(w)
  /\ ~ready[w]
  /\ Moves(w, "running", "new") \/ Moves(w, "failed", "new")

\* SetupImpl() of each server variable, by the thread that sets up.
SetupImpl(t) ==
  /\ phase[Home[t]] = "setup"
  /\ Idle(Home[t])
  /\ Calls(t, "GetServer")

\* The actions that the SetupImpl of a server variable returned.
SetupAction(t) ==
  /\ phase[Home[t]] = "setup"
  /\ ready[Home[t]]
  /\ Idle(Home[t])
  /\ Calls(t, "Setup")

TeardownAction(t) ==
  /\ phase[Home[t]] = "teardown"
  /\ Idle(Home[t])
  /\ Calls(t, "Teardown")

\* GetValue(), SetValue() and Reset() of a server variable, from any thread.
\* Variables of a workspace whose set-up failed are not used here.
GetSharedServer(t) ==
  /\ phase[Home[t]] = "running"
  /\ ready[Home[t]]
  /\ Calls(t, "GetServer")

-----------------------------------------------------------------------------
WorkspaceStep(w) ==
  \/ BeginSetup(w) \/ FailSetup(w) \/ SkipSetup(w)
  \/ BeginTeardown(w) \/ SkipTeardown(w)

ThreadStep(t) ==
  \/ Find(t) \/ Emplace(t) \/ Use(t) \/ Erase(t)
  \/ SetupImpl(t) \/ SetupAction(t) \/ TeardownAction(t) \/ GetSharedServer(t)

\* Nothing is said about a program after a race.
Next ==
  /\ \A t, u \in Thread : ~Racing(t, u)
  /\ \/ \E w \in Workspace : WorkspaceStep(w)
     \/ \E t \in Thread : ThreadStep(t)

Spec == Init /\ [][Next]_vars

-----------------------------------------------------------------------------
(* Properties                                                              *)

\* Only a set-up or a teardown races: the calls that instructions of running
\* workspaces make, from however many threads, do not change the map, so they
\* are safe once every workspace has been set up and before one is torn down.
RacesNeedSetupOrTeardown ==
  \A t, u \in Thread : Racing(t, u) => phase[Home[t]] \in {"setup", "teardown"}

\* The reference that GetServer() returns, and the server that Setup() and
\* Teardown() work on, are there as long as they are used, whatever the other
\* workspaces insert and erase in the meantime.
ReferencesStayValid ==
  \A t \in Thread : pc[t] \in {"use", "erase"} => Home[t] \in entries

\* No call throws: the server is there for Setup() and Teardown(), and nobody
\* inserts it behind the back of GetServer().
CallsDoNotThrow == \A t \in Thread : pc[t] # "throw"

-----------------------------------------------------------------------------
(* The inductive invariant behind them                                     *)

\* Who can be where: one thread sets up or tears down, and what a workspace
\* has set up stays in the map.
WorkspaceInv(w) ==
  /\ ready[w] => w \in entries /\ phase[w] # "new"
  /\ phase[w] \in {"setup", "teardown"} =>
       \A t, u \in Thread :
         Home[t] = w /\ Home[u] = w /\ pc[t] # "idle" /\ pc[u] # "idle" => t = u
  /\ phase[w] \in {"new", "failed"} => Idle(w)
  /\ phase[w] = "teardown" => ready[w]

ThreadInv(t) ==
  LET w == Home[t] IN
  /\ pc[t] = "idle" <=> call[t] = "none"
  /\ call[t] = "GetServer" => /\ phase[w] \in {"setup", "running"}
                              /\ phase[w] = "running" => ready[w]
  /\ call[t] = "Setup" => phase[w] = "setup" /\ ready[w]
  /\ call[t] = "Teardown" => phase[w] = "teardown"
  /\ pc[t] = "emplace" => call[t] = "GetServer" /\ w \notin entries
  /\ pc[t] = "use" => w \in entries
  /\ pc[t] = "erase" => call[t] = "Teardown" /\ w \in entries
  /\ pc[t] # "throw"

RegistryInv ==
  /\ \A w \in Workspace : WorkspaceInv(w)
  /\ \A t \in Thread : ThreadInv(t)
=============================================================================
