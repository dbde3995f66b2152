--------------------- MODULE SharedServerRegistryProofs ---------------------
(***************************************************************************)
(* For any number of workspaces and threads: the registry without a lock   *)
(* races only in a set-up or a teardown, and what it hands out stays       *)
(* valid.                                                                  *)
(***************************************************************************)
EXTENDS SharedServerRegistry, TLAPS

Inv == TypeOK /\ RegistryInv

\* What is known of a thread and of its workspace.
LEMMA ThreadFacts ==
  ASSUME Inv, NEW t \in Thread
  PROVE  Home[t] \in Workspace /\ ThreadInv(t) /\ WorkspaceInv(Home[t])
  BY HomeAssumption DEF Inv, RegistryInv

LEMMA InitInv == Init => Inv
  BY HomeAssumption DEF Init, Inv, TypeOK, RegistryInv, WorkspaceInv, ThreadInv,
    Phase, Call, PC, Idle

-----------------------------------------------------------------------------
(* The steps of threads                                                    *)

LEMMA FindInv ==
  ASSUME Inv, NEW t \in Thread, Find(t)
  PROVE  Inv'
<1>1. TypeOK'
  BY DEF Find, Goes, Inv, TypeOK, PC
<1>2. /\ UNCHANGED <<entries, phase, ready, call>>
      /\ \A u \in Thread : u # t => pc'[u] = pc[u]
      /\ pc[t] = "find"
      /\ pc'[t] \in {"use", "emplace", "throw"}
      /\ pc'[t] = "use" <=> Home[t] \in entries
      /\ pc'[t] = "emplace" => call[t] = "GetServer"
      /\ pc'[t] = "throw" => call[t] # "GetServer" /\ Home[t] \notin entries
  BY DEF Find, Goes, Inv, TypeOK
<1>3. pc'[t] # "throw"
  BY <1>2, ThreadFacts DEF ThreadInv, WorkspaceInv, Inv, TypeOK, Call
<1>4. ASSUME NEW w \in Workspace
      PROVE  WorkspaceInv(w)'
  BY <1>2, <1>4 DEF Inv, RegistryInv, WorkspaceInv, Idle
<1>5. ASSUME NEW u \in Thread
      PROVE  ThreadInv(u)'
  BY <1>2, <1>3, <1>5, ThreadFacts DEF ThreadInv
<1>6. QED
  BY <1>1, <1>4, <1>5 DEF Inv, RegistryInv

LEMMA EmplaceInv ==
  ASSUME Inv, NEW t \in Thread, Emplace(t)
  PROVE  Inv'
<1>1. TypeOK'
  BY ThreadFacts DEF Emplace, Goes, Inv, TypeOK, PC
<1>2. /\ UNCHANGED <<phase, ready, call>>
      /\ \A u \in Thread : u # t => pc'[u] = pc[u]
      /\ entries' = entries \cup {Home[t]}
      /\ pc[t] = "emplace" /\ pc'[t] = "use"
  BY ThreadFacts DEF Emplace, Goes, Inv, TypeOK, ThreadInv
<1>3. phase[Home[t]] = "setup" /\ call[t] = "GetServer"
  BY <1>2, ThreadFacts DEF ThreadInv, WorkspaceInv
<1>4. ASSUME NEW w \in Workspace
      PROVE  WorkspaceInv(w)'
  BY <1>2, <1>4 DEF Inv, RegistryInv, WorkspaceInv, Idle
<1>5. ASSUME NEW u \in Thread
      PROVE  ThreadInv(u)'
  <2>1. CASE u = t
    BY <1>2, <1>3, <2>1, ThreadFacts DEF ThreadInv
  <2>2. CASE u # t /\ Home[u] = Home[t]
    <3>1. pc[u] = "idle"
      BY <1>2, <1>3, <2>2, ThreadFacts DEF WorkspaceInv
    <3>2. QED
      BY <1>2, <2>2, <3>1, ThreadFacts DEF ThreadInv
  <2>3. CASE Home[u] # Home[t]
    BY <1>2, <2>3, ThreadFacts DEF ThreadInv
  <2>4. QED
    BY <2>1, <2>2, <2>3
<1>6. QED
  BY <1>1, <1>4, <1>5 DEF Inv, RegistryInv

LEMMA UseInv ==
  ASSUME Inv, NEW t \in Thread, Use(t)
  PROVE  Inv'
<1>1. CASE UseReference(t)
  <2>1. TypeOK'
    BY <1>1, ThreadFacts DEF Use, UseReference, Returns, Inv, TypeOK, PC, Call, Phase
  <2>2. /\ UNCHANGED entries
        /\ \A u \in Thread : u # t => pc'[u] = pc[u] /\ call'[u] = call[u]
        /\ pc[t] = "use" /\ pc'[t] = "idle" /\ call'[t] = "none"
        /\ call[t] = "GetServer"
        /\ \A w \in Workspace : w # Home[t] => phase'[w] = phase[w] /\ ready'[w] = ready[w]
        /\ LET w == Home[t] IN
           \/ phase[w] = "setup" /\ ready'[w] /\ phase'[w] = "setup"
           \/ phase[w] = "setup" /\ ready'[w] = ready[w] /\ phase'[w] = "failed"
           \/ phase[w] # "setup" /\ ready'[w] = ready[w] /\ phase'[w] = phase[w]
    BY <1>1, ThreadFacts DEF Use, UseReference, Returns, Inv, TypeOK
  <2>3. Home[t] \in entries /\ phase[Home[t]] \in {"setup", "running"}
    BY <2>2, ThreadFacts DEF ThreadInv
  <2>4. ASSUME phase[Home[t]] = "setup", NEW u \in Thread, u # t, Home[u] = Home[t]
        PROVE  pc[u] = "idle"
    BY <2>2, <2>4, ThreadFacts DEF WorkspaceInv
  <2>5. ASSUME NEW w \in Workspace
        PROVE  WorkspaceInv(w)'
    <3>1. CASE w # Home[t]
      BY <2>2, <3>1 DEF Inv, RegistryInv, WorkspaceInv, Idle
    <3>2. CASE w = Home[t]
      BY <2>2, <2>3, <2>4, <3>2, ThreadFacts DEF WorkspaceInv, Idle
    <3>3. QED
      BY <3>1, <3>2
  <2>6. ASSUME NEW u \in Thread
        PROVE  ThreadInv(u)'
    <3>1. CASE u = t
      BY <2>2, <3>1, ThreadFacts DEF ThreadInv
    <3>2. CASE u # t /\ Home[u] = Home[t] /\ phase[Home[t]] = "setup"
      BY <2>2, <2>4, <3>2, ThreadFacts DEF ThreadInv
    <3>3. CASE u # t /\ (Home[u] # Home[t] \/ phase[Home[t]] # "setup")
      BY <2>2, <3>3, ThreadFacts DEF ThreadInv
    <3>4. QED
      BY <3>1, <3>2, <3>3
  <2>7. QED
    BY <2>1, <2>5, <2>6 DEF Inv, RegistryInv
<1>2. CASE UseInSetup(t)
  <2>1. TypeOK'
    BY <1>2, ThreadFacts DEF Use, UseInSetup, Returns, Inv, TypeOK, PC, Call, Phase
  <2>2. /\ UNCHANGED <<entries, ready>>
        /\ \A u \in Thread : u # t => pc'[u] = pc[u] /\ call'[u] = call[u]
        /\ pc[t] = "use" /\ pc'[t] = "idle" /\ call'[t] = "none"
        /\ call[t] = "Setup"
        /\ \A w \in Workspace : w # Home[t] => phase'[w] = phase[w]
        /\ phase'[Home[t]] = "running"
    BY <1>2, ThreadFacts DEF Use, UseInSetup, Returns, Inv, TypeOK
  <2>3. phase[Home[t]] = "setup" /\ ready[Home[t]]
    BY <2>2, ThreadFacts DEF ThreadInv
  <2>4. ASSUME NEW u \in Thread, u # t, Home[u] = Home[t]
        PROVE  pc[u] = "idle"
    BY <2>2, <2>3, <2>4, ThreadFacts DEF WorkspaceInv
  <2>5. ASSUME NEW w \in Workspace
        PROVE  WorkspaceInv(w)'
    BY <2>2, <2>3, <2>5 DEF Inv, RegistryInv, WorkspaceInv, Idle
  <2>6. ASSUME NEW u \in Thread
        PROVE  ThreadInv(u)'
    <3>1. CASE u = t
      BY <2>2, <3>1, ThreadFacts DEF ThreadInv
    <3>2. CASE u # t
      BY <2>2, <2>4, <3>2, ThreadFacts DEF ThreadInv
    <3>3. QED
      BY <3>1, <3>2
  <2>7. QED
    BY <2>1, <2>5, <2>6 DEF Inv, RegistryInv
<1>3. CASE UseInTeardown(t)
  <2>1. TypeOK'
    BY <1>3 DEF Use, UseInTeardown, Goes, Inv, TypeOK, PC
  <2>2. /\ UNCHANGED <<entries, phase, ready, call>>
        /\ \A u \in Thread : u # t => pc'[u] = pc[u]
        /\ pc[t] = "use" /\ pc'[t] = "erase" /\ call[t] = "Teardown"
    BY <1>3 DEF Use, UseInTeardown, Goes, Inv, TypeOK
  <2>3. ASSUME NEW w \in Workspace
        PROVE  WorkspaceInv(w)'
    BY <2>2, <2>3 DEF Inv, RegistryInv, WorkspaceInv, Idle
  <2>4. ASSUME NEW u \in Thread
        PROVE  ThreadInv(u)'
    BY <2>2, <2>4, ThreadFacts DEF ThreadInv
  <2>5. QED
    BY <2>1, <2>3, <2>4 DEF Inv, RegistryInv
<1>4. QED
  BY <1>1, <1>2, <1>3 DEF Use

LEMMA EraseInv ==
  ASSUME Inv, NEW t \in Thread, Erase(t)
  PROVE  Inv'
<1>1. TypeOK'
  BY ThreadFacts DEF Erase, Returns, Inv, TypeOK, PC, Call, Phase
<1>2. /\ entries' = entries \ {Home[t]}
      /\ \A u \in Thread : u # t => pc'[u] = pc[u] /\ call'[u] = call[u]
      /\ pc[t] = "erase" /\ pc'[t] = "idle" /\ call'[t] = "none"
      /\ \A w \in Workspace : w # Home[t] => phase'[w] = phase[w] /\ ready'[w] = ready[w]
      /\ phase'[Home[t]] = "new" /\ ready'[Home[t]] = FALSE
  BY ThreadFacts DEF Erase, Returns, Inv, TypeOK
<1>3. phase[Home[t]] = "teardown"
  BY <1>2, ThreadFacts DEF ThreadInv
<1>4. ASSUME NEW u \in Thread, u # t, Home[u] = Home[t]
      PROVE  pc[u] = "idle"
  BY <1>2, <1>3, <1>4, ThreadFacts DEF WorkspaceInv
<1>5. ASSUME NEW w \in Workspace
      PROVE  WorkspaceInv(w)'
  <2>1. CASE w # Home[t]
    BY <1>2, <2>1 DEF Inv, RegistryInv, WorkspaceInv, Idle
  <2>2. CASE w = Home[t]
    BY <1>2, <1>4, <2>2 DEF WorkspaceInv, Idle
  <2>3. QED
    BY <2>1, <2>2
<1>6. ASSUME NEW u \in Thread
      PROVE  ThreadInv(u)'
  <2>1. CASE u = t
    BY <1>2, <2>1, ThreadFacts DEF ThreadInv
  <2>2. CASE u # t /\ Home[u] = Home[t]
    BY <1>2, <1>4, <2>2, ThreadFacts DEF ThreadInv
  <2>3. CASE Home[u] # Home[t]
    BY <1>2, <2>3, ThreadFacts DEF ThreadInv
  <2>4. QED
    BY <2>1, <2>2, <2>3
<1>7. QED
  BY <1>1, <1>5, <1>6 DEF Inv, RegistryInv

\* The callers of the member functions.
LEMMA CallInv ==
  ASSUME Inv, NEW t \in Thread, NEW f \in Call \ {"none"}, Calls(t, f),
         \/ phase[Home[t]] = "setup" /\ f = "GetServer" /\ Idle(Home[t])
         \/ phase[Home[t]] = "setup" /\ f = "Setup" /\ ready[Home[t]] /\ Idle(Home[t])
         \/ phase[Home[t]] = "teardown" /\ f = "Teardown" /\ Idle(Home[t])
         \/ phase[Home[t]] = "running" /\ f = "GetServer" /\ ready[Home[t]]
  PROVE  Inv'
<1>1. TypeOK'
  BY DEF Calls, Inv, TypeOK, PC, Call
<1>2. /\ UNCHANGED <<entries, phase, ready>>
      /\ \A u \in Thread : u # t => pc'[u] = pc[u] /\ call'[u] = call[u]
      /\ pc[t] = "idle" /\ pc'[t] = "find" /\ call'[t] = f
  BY DEF Calls, Inv, TypeOK
<1>3. ASSUME NEW w \in Workspace
      PROVE  WorkspaceInv(w)'
  BY <1>2, <1>3 DEF Inv, RegistryInv, WorkspaceInv, Idle
<1>4. ASSUME NEW u \in Thread
      PROVE  ThreadInv(u)'
  BY <1>2, <1>4, ThreadFacts DEF ThreadInv, Call
<1>5. QED
  BY <1>1, <1>3, <1>4 DEF Inv, RegistryInv

LEMMA ThreadStepInv ==
  ASSUME Inv, NEW t \in Thread, ThreadStep(t)
  PROVE  Inv'
<1>1. CASE SetupImpl(t)
  BY <1>1, CallInv DEF SetupImpl, Call
<1>2. CASE SetupAction(t)
  BY <1>2, CallInv DEF SetupAction, Call
<1>3. CASE TeardownAction(t)
  BY <1>3, CallInv DEF TeardownAction, Call
<1>4. CASE GetSharedServer(t)
  BY <1>4, CallInv DEF GetSharedServer, Call
<1>5. QED
  BY <1>1, <1>2, <1>3, <1>4, FindInv, EmplaceInv, UseInv, EraseInv DEF ThreadStep

-----------------------------------------------------------------------------
(* The steps of workspaces                                                 *)

LEMMA MovesInv ==
  ASSUME Inv, NEW w \in Workspace, NEW from \in Phase, NEW to \in Phase,
         Moves(w, from, to), Idle(w),
         to = "new" => ~ready[w],
         to = "teardown" => ready[w]
  PROVE  Inv'
<1>1. TypeOK'
  BY DEF Moves, Inv, TypeOK
<1>2. /\ UNCHANGED <<entries, ready, call, pc>>
      /\ \A x \in Workspace : x # w => phase'[x] = phase[x]
      /\ phase'[w] = to
  BY DEF Moves, Inv, TypeOK
<1>3. ASSUME NEW x \in Workspace
      PROVE  WorkspaceInv(x)'
  BY <1>2, <1>3 DEF Inv, RegistryInv, WorkspaceInv, Idle
<1>4. ASSUME NEW u \in Thread
      PROVE  ThreadInv(u)'
  BY <1>2, <1>4, ThreadFacts DEF ThreadInv, Idle
<1>5. QED
  BY <1>1, <1>3, <1>4 DEF Inv, RegistryInv

LEMMA WorkspaceStepInv ==
  ASSUME Inv, NEW w \in Workspace, WorkspaceStep(w)
  PROVE  Inv'
<1>1. CASE BeginSetup(w)
  <2>1. Idle(w)
    BY <1>1 DEF BeginSetup, Moves, Inv, RegistryInv, WorkspaceInv
  <2>2. QED
    BY <1>1, <2>1, MovesInv DEF BeginSetup, Phase
<1>2. CASE FailSetup(w)
  BY <1>2, MovesInv DEF FailSetup, Phase
<1>3. CASE SkipSetup(w)
  BY <1>3, MovesInv DEF SkipSetup, Phase
<1>4. CASE BeginTeardown(w)
  BY <1>4, MovesInv DEF BeginTeardown, Phase
<1>5. CASE SkipTeardown(w)
  BY <1>5, MovesInv DEF SkipTeardown, Phase
<1>6. QED
  BY <1>1, <1>2, <1>3, <1>4, <1>5 DEF WorkspaceStep

-----------------------------------------------------------------------------
LEMMA NextInv == Inv /\ [Next]_vars => Inv'
<1>1. ASSUME Inv, Next
      PROVE  Inv'
  BY <1>1, ThreadStepInv, WorkspaceStepInv DEF Next
<1>2. ASSUME Inv, UNCHANGED vars
      PROVE  Inv'
  BY <1>2 DEF vars, Inv, TypeOK, RegistryInv, WorkspaceInv, ThreadInv, Idle
<1>3. QED
  BY <1>1, <1>2

LEMMA Invariance == Spec => []Inv
  BY InitInv, NextInv, PTL DEF Spec

\* Only a set-up or a teardown races: the calls of running workspaces, from any
\* number of threads, leave the map of the registry as it is.
THEOREM RegistryRaces == Spec => []RacesNeedSetupOrTeardown
<1>1. ASSUME Inv
      PROVE  RacesNeedSetupOrTeardown
  <2>1. SUFFICES ASSUME NEW t \in Thread, NEW u \in Thread, Racing(t, u)
                 PROVE  phase[Home[t]] \in {"setup", "teardown"}
    BY DEF RacesNeedSetupOrTeardown
  <2>2. pc[t] \in {"emplace", "erase"}
    BY <2>1 DEF Racing
  <2>3. QED
    BY <1>1, <2>2, ThreadFacts DEF ThreadInv, WorkspaceInv
<1>2. QED
  BY <1>1, Invariance, PTL

\* What GetServer(), Setup() and Teardown() have found stays there while they
\* and their callers use it.
THEOREM RegistryReferences == Spec => []ReferencesStayValid
<1>1. Inv => ReferencesStayValid
  BY ThreadFacts DEF ReferencesStayValid, ThreadInv
<1>2. QED
  BY <1>1, Invariance, PTL

\* None of the three member functions throws.
THEOREM RegistryCalls == Spec => []CallsDoNotThrow
<1>1. Inv => CallsDoNotThrow
  BY ThreadFacts DEF CallsDoNotThrow, ThreadInv
<1>2. QED
  BY <1>1, Invariance, PTL
=============================================================================
