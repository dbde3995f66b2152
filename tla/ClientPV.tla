------------------------------ MODULE ClientPV ------------------------------
(***************************************************************************)
(* One process variable on the network, and the client object of           *)
(* sup::epics (ChannelAccessPV, PvAccessClientPV) through which a variable *)
(* of the workspace sees it.  All of this is outside the plugin, and is    *)
(* modelled from how its variables use it: the object connects by itself,  *)
(* receives the value after the connection, keeps what it has received     *)
(* when the connection is lost, and reports every change to the callback   *)
(* that it was given, one at a time, from a thread of its own.             *)
(***************************************************************************)
EXTENDS Naturals, Sequences

CONSTANTS Data,      \* what the process variable can hold
          SameType,  \* the pairs of data that one process variable can hold
          NoData,    \* nothing has been received yet
          NullPV,    \* there is no client object
          NoReport   \* no change is waiting for the callback

ASSUME ClientPVAssumption ==
  /\ NoData \notin Data
  /\ SameType \subseteq Data \X Data
  /\ NullPV \notin [connected : BOOLEAN, data : Data \cup {NoData}]
  /\ NoReport \notin [connected : BOOLEAN, data : Data \cup {NoData}]

VARIABLES
  channel,  \* [up, data]: the process variable itself
  pv,       \* NullPV, or what the client object has received
  report,   \* NoReport, or the change that its thread is about to report
  puts      \* what the client has sent and the process variable not applied

pvVars == <<channel, pv, report, puts>>

ReceivedData == [connected : BOOLEAN, data : Data \cup {NoData}]

PVTypeOK ==
  /\ channel \in [up : BOOLEAN, data : Data]
  /\ pv \in ReceivedData \cup {NullPV}
  /\ report \in ReceivedData \cup {NoReport}
  /\ puts \in {<< >>} \cup {<<d>> : d \in Data}

PVInit ==
  /\ channel \in [up : BOOLEAN, data : Data]
  /\ pv = NullPV
  /\ report = NoReport
  /\ puts = << >>

IsConnected == pv # NullPV /\ pv.connected

NewPV == [connected |-> FALSE, data |-> NoData]

\* The object is made, or destroyed together with its thread.
CreatePV ==
  /\ pv' = NewPV
  /\ report' = NoReport
  /\ UNCHANGED <<channel, puts>>

DestroyPV ==
  /\ pv' = NullPV
  /\ report' = NoReport
  /\ UNCHANGED <<channel, puts>>

-----------------------------------------------------------------------------
Appears ==
  /\ ~channel.up
  /\ channel' = [channel EXCEPT !.up = TRUE]
  /\ UNCHANGED <<pv, report, puts>>

Vanishes ==
  /\ channel.up
  /\ channel' = [channel EXCEPT !.up = FALSE]
  /\ UNCHANGED <<pv, report, puts>>

\* Another process variable of that name may appear with another type.
Changes(d) ==
  /\ channel.data # d
  /\ channel.up => <<channel.data, d>> \in SameType
  /\ channel' = [channel EXCEPT !.data = d]
  /\ UNCHANGED <<pv, report, puts>>

\* The put arrives, or finds the process variable gone or of another type.
AppliesPut ==
  /\ puts # << >>
  /\ puts' = << >>
  /\ IF channel.up /\ <<channel.data, Head(puts)>> \in SameType
     THEN channel' = [channel EXCEPT !.data = Head(puts)]
     ELSE UNCHANGED channel
  /\ UNCHANGED <<pv, report>>

\* What the object sends is on its way until it is applied.
Sends(d) ==
  /\ IsConnected
  /\ puts = << >>
  /\ puts' = <<d>>
  /\ UNCHANGED <<channel, pv, report>>

\* The callback takes the change that is being reported.
TakeReport ==
  /\ report # NoReport
  /\ report' = NoReport
  /\ UNCHANGED <<channel, pv, puts>>

\* The thread takes note of a change when the last one has been reported.
Receives(p) ==
  /\ pv # NullPV /\ report = NoReport
  /\ p # pv
  /\ pv' = p
  /\ report' = p
  /\ UNCHANGED <<channel, puts>>

Connects == channel.up /\ Receives([pv EXCEPT !.connected = TRUE])
Updates == channel.up /\ IsConnected /\ Receives([pv EXCEPT !.data = channel.data])
Disconnects == ~channel.up /\ Receives([pv EXCEPT !.connected = FALSE])

PVThread == pv # NullPV /\ (Connects \/ Updates \/ Disconnects)

Network == Appears \/ Vanishes \/ AppliesPut \/ \E d \in Data : Changes(d)
=============================================================================
