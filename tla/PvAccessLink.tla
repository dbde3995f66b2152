---------------------------- MODULE PvAccessLink ----------------------------
(***************************************************************************)
(* Two ends of one channel: the server variables of workspaces that share  *)
(* an address, and a client variable of another workspace, as in the test  *)
(* ServerClientTest and the procedures of pva_pingpong.                    *)
(*                                                                         *)
(* The process variable that the client variable sees is the one that the  *)
(* shared server publishes, so a step of either end is a step of one of    *)
(* the two components and what it does to the channel:                     *)
(*   - the server's steps add, publish, change and remove it;              *)
(*   - a put of the client is a ClientPut at the server.                   *)
(* Other clients put values too.  PvAccessClients assumes a Network that   *)
(* is free to do anything a process variable may do; here it is the code   *)
(* of the server variables, and ClientEnvironment says that this code      *)
(* keeps within that assumption.                                           *)
(***************************************************************************)
EXTENDS PvAccessServerVariables

CONSTANTS LinkedAddress, LinkedChannel, \* where the client variable looks
          TypeAttrs, NoData, NullPV, NoReport

VARIABLES channel, pv, report, puts,    \* as in ClientPV
          kind, attr, clientPhase, clientType, clientNotified

clientVars == <<pv, report, kind, attr, clientPhase, clientType, clientNotified>>
linkVars == <<vars, channel, puts, clientVars>>

\* What a process variable of a server variable can hold, and with which
\* other values it can hold it.
PVForms == {"packed", "struct", "encoded", "garbage"}
PVData == {d \in AnyValue : /\ d.form \in PVForms
                            /\ d.form \in {"packed", "struct"} => d.val # NoPayload
                            /\ d.form = "garbage" => d.val = NoPayload}
PVClass(d) == IF d.form = "garbage" THEN "encoded" ELSE d.form
PVSameType == {p \in PVData \X PVData : PVClass(p[1]) = PVClass(p[2])}

ASSUME LinkAssumption ==
  /\ LinkedAddress \in Address
  /\ LinkedChannel \in Channel
  /\ TypeAttrs \subseteq {"absent", "empty", "unparsable", "scalar", "struct"}
  /\ NoData \notin PVData
  /\ NullPV \notin [connected : BOOLEAN, data : PVData \cup {NoData}]
  /\ NoReport \notin [connected : BOOLEAN, data : PVData \cup {NoData}]

Client == INSTANCE PvAccessClients WITH
  Data <- PVData, SameType <- PVSameType,
  phase <- clientPhase, anytype <- clientType, notified <- clientNotified

-----------------------------------------------------------------------------
(* The process variable, as the shared server makes it                     *)

Published(s) == s # NoEntry /\ Serves(s, LinkedChannel)

\* A process variable that is gone keeps its last value in the model only.
ChannelOn(s) ==
  [up   |-> Published(s) /\ s.server = "started",
   data |-> IF Published(s) THEN s.pvs[LinkedChannel] ELSE channel.data]

LinkInit ==
  /\ Init
  /\ Client!Init
  /\ channel = [up |-> FALSE, data |-> [form |-> "garbage", val |-> NoPayload]]

ServerEnd ==
  /\ Next
  /\ channel' = ChannelOn(registry'[LinkedAddress])
  /\ UNCHANGED <<puts, clientVars>>

\* The owner of the client variable, and the thread of its client object.
ClientOwner ==
  /\ \/ Client!SetupImpl \/ Client!TeardownImpl \/ Client!TeardownType
     \/ \E value \in Client!Inputs : Client!SetValueImpl(value)
  /\ UNCHANGED vars

ClientThread ==
  /\ Client!PVThread
  /\ UNCHANGED <<vars, kind, attr, clientPhase, clientType, clientNotified>>

ClientCallback ==
  /\ Client!Callback
  /\ UNCHANGED vars

\* A put reaches the server, or there is nothing there that could take it.
PutArrives ==
  /\ Client!AppliesPut
  /\ IF channel.up /\ <<channel.data, Head(puts)>> \in PVSameType
     THEN ClientPut(LinkedAddress, LinkedChannel, Head(puts))
     ELSE UNCHANGED vars
  /\ UNCHANGED clientVars

LinkNext ==
  /\ fault = NoFault
  /\ ServerEnd \/ ClientOwner \/ ClientThread \/ ClientCallback \/ PutArrives

LinkSpec == LinkInit /\ [][LinkNext]_linkVars

-----------------------------------------------------------------------------
(* Properties                                                              *)

Linked(v) == AddressFor(v) = LinkedAddress /\ ChannelOf[v] = LinkedChannel

\* The client variable is meant for process variables like that of v.
Fits(v) ==
  /\ kind = Kind[v]
  /\ kind = "plain" => attr \in {"absent", ParsedType[v]}

\* Nothing is on its way between v and the client variable.
Settled(v) ==
  /\ NoEventFor(v)
  /\ report = NoReport
  /\ pv = [connected |-> TRUE, data |-> channel.data]

\* What the client variable makes of a value that v has; without a type it
\* sees the structure that a scalar is sent in.
AtClient(value) ==
  IF kind = "plain" /\ attr = "absent" THEN PackIntoStructIfScalar(value) ELSE value

\* When nothing is on its way, the two workspaces were last notified of the
\* same value, whichever end or other client wrote it, through the conversions
\* of both ends and across set-ups of other servers on the channel.
EndsAgree ==
  \A v \in Variable :
    /\ Linked(v) /\ Running(v) /\ clientPhase = "running"
    /\ Fits(v) /\ Settled(v)
    => clientNotified = [connected |-> TRUE, value |-> AtClient(notified[v])]

\* The server variables behave as PvAccessClients takes a process variable to
\* behave: in particular its type stays the same while it is published, and
\* its first value is there before it is.
ClientEnvironment == Client!Init /\ [][Client!Next]_(Client!vars)

-----------------------------------------------------------------------------
(* The invariants behind both                                              *)

\* A server is started when its workspace has been set up, and not before.
StartedAfterSetup ==
  \A w \in Workspace :
    LET s == registry[AddressOf[w]]
    IN phase[w] \in {"setup", "failed"} /\ s # NoEntry => s.server # "started"

\* A plain variable has the type of its attribute, or none.
TypesAreOwn ==
  \A v \in Variable : Kind[v] = "plain" => anytype[v] \in {"empty", ParsedType[v]}

\* No variable is set up with a type that SetupImpl rejects.
SetUpTypesAccepted == \A v \in Variable : SetUp(v) => TypeAccepted(v)

\* What the process variable of v may hold from its first value to its last.
Holds(v, d) ==
  /\ d \in PVData
  /\ PVClass(d) = IF Kind[v] = "plain" THEN PublishedForm(v) ELSE "encoded"

ServerHolds(s) ==
  \A c \in Channel :
    s.callbacks[c] # NoVariable => s.server # "null" /\ Holds(s.callbacks[c], s.pvs[c])

ServersHold == \A a \in Address : registry[a] # NoEntry => ServerHolds(registry[a])

\* The process variable that the client sees is that of the server.
ChannelInv ==
  LET s == registry[LinkedAddress]
  IN /\ channel \in [up : BOOLEAN, data : PVData]
     /\ channel.up <=> Published(s) /\ s.server = "started"
     /\ Published(s) => channel.data = s.pvs[LinkedChannel]

\* What EndsAgree needs of the client variable, which it keeps on any network.
ClientInv ==
  Client!PVTypeOK /\ Client!ReportInv /\ Client!LifeInv /\ Client!NotifiedInv
=============================================================================
