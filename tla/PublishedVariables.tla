------------------------- MODULE PublishedVariables -------------------------
(***************************************************************************)
(* What the server variables promise together, whoever shares a server or  *)
(* an address with whom: each of them is a register of its own that is     *)
(* published and withdrawn, that keeps the last value written to it, and   *)
(* whose every change is noticed by its own workspace, once and in order.  *)
(***************************************************************************)
EXTENDS Sequences

CONSTANTS Variable,
          Value,     \* what a register can hold
          NoPV,      \* a variable that is not published, or not noticed yet
          View       \* [Variable -> [Value -> the value that the workspace sees]]

VARIABLES
  published,  \* [Variable -> Value or NoPV]
  changes,    \* [Variable -> Seq(Value)], not noticed yet
  notice      \* [Variable -> what its workspace was last told]

pubVars == <<published, changes, notice>>

PubInit ==
  /\ published = [v \in Variable |-> NoPV]
  /\ changes = [v \in Variable |-> << >>]
  /\ notice = [v \in Variable |-> NoPV]

\* Any value is published; the workspace knows it at once.
Publish(v) ==
  LET d == published'[v] IN
  /\ published[v] = NoPV
  /\ d \in Value
  /\ UNCHANGED changes
  /\ published' = [published EXCEPT ![v] = d]
  /\ notice' = [notice EXCEPT ![v] = View[v][d]]

\* Any value is written.
Write(v) ==
  LET d == published'[v] IN
  /\ published[v] # NoPV
  /\ d \in Value
  /\ UNCHANGED notice
  /\ published' = [published EXCEPT ![v] = d]
  /\ changes' = [changes EXCEPT ![v] = Append(@, d)]

Notice(v) ==
  /\ changes[v] # << >>
  /\ UNCHANGED published
  /\ notice' = [notice EXCEPT ![v] = View[v][Head(changes[v])]]
  /\ changes' = [changes EXCEPT ![v] = Tail(@)]

\* Any variables go together, with the changes that were not noticed.
Withdraw ==
  LET gone == {v \in Variable : published'[v] = NoPV} IN
  /\ UNCHANGED notice
  /\ published' = [v \in Variable |-> IF v \in gone THEN NoPV ELSE published[v]]
  /\ changes' = [v \in Variable |-> IF v \in gone THEN << >> ELSE changes[v]]

PubNext ==
  \/ \E v \in Variable : Publish(v) \/ Write(v) \/ Notice(v)
  \/ Withdraw

PubSafety == PubInit /\ [][PubNext]_pubVars

PubLiveness == \A v \in Variable : WF_pubVars(Notice(v))

PubSpec == PubSafety /\ PubLiveness
=============================================================================
