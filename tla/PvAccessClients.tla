-------------------------- MODULE PvAccessClients --------------------------
(***************************************************************************)
(* A PvAccessClient or PvAccessEncodedClient variable: set up, read,       *)
(* written and torn down by its workspace, and notified of changes by the  *)
(* thread of its PvAccessClientPV.  The process variable holds values in   *)
(* the forms of PvaValues.                                                 *)
(***************************************************************************)
EXTENDS ClientPV, PvaValues

CONSTANT TypeAttrs  \* what "type" may be: "absent", "empty", "unparsable",
                    \* "scalar" or "struct", for the plain kind

ASSUME ClientAssumption ==
  /\ Data \subseteq AnyValue \ {EmptyValue}
  /\ TypeAttrs \subseteq {"absent", "empty", "unparsable", "scalar", "struct"}

VARIABLES
  kind,      \* "plain" or "encoded", the class of the variable
  attr,      \* the attribute "type", which never changes
  phase,     \* where the variable is in its life
  anytype,   \* m_anytype
  notified   \* what Notify was last called with

vars == <<kind, attr, phase, anytype, notified, pvVars>>

Phase == {"new", "failed", "running", "closing"}

NeverNotified == [connected |-> FALSE, value |-> EmptyValue]

TypeOK ==
  /\ PVTypeOK
  /\ kind \in {"plain", "encoded"}
  /\ attr \in TypeAttrs \cup {"absent"}
  /\ phase \in Phase
  /\ anytype \in AnyType
  /\ notified \in [connected : BOOLEAN, value : AnyValue]

Init ==
  /\ PVInit
  /\ \/ kind = "plain" /\ attr \in TypeAttrs
     \/ kind = "encoded" /\ attr = "absent"
  /\ phase = "new"
  /\ anytype = "empty"
  /\ notified = NeverNotified

\* PvAccessClientPV::GetValue(): empty until something has been received.
Received(p) == IF p.data = NoData THEN EmptyValue ELSE p.data

FromPV(value, t) ==
  IF kind = "plain" THEN ConvertToTypedAnyValue(value, t) ELSE Decode(value)

ToPV(value) == IF kind = "plain" THEN PackIntoStructIfScalar(value) ELSE Encode(value)

-----------------------------------------------------------------------------
(* Setup and teardown                                                      *)

TypeAccepted == attr \notin {"empty", "unparsable"}

SetupImpl ==
  /\ phase \in {"new", "failed"}
  /\ IF TypeAccepted
     THEN /\ phase' = "running"
          /\ anytype' = IF attr = "absent" THEN anytype ELSE attr
          /\ CreatePV
     ELSE /\ phase' = "failed"
          /\ UNCHANGED <<anytype, pvVars>>
  /\ UNCHANGED <<kind, attr, notified>>

\* Mutant: m_anytype goes first.
TeardownImplMutant ==
  /\ phase \in {"running", "failed"}
  /\ phase' = "closing"
  /\ anytype' = "empty"
  /\ UNCHANGED <<kind, attr, notified, pvVars>>

\* m_pv goes first, and with it the thread that uses m_anytype.
TeardownImpl ==
  /\ phase \in {"running", "failed"}
  /\ phase' = "closing"
  /\ DestroyPV
  /\ UNCHANGED <<kind, attr, anytype, notified>>

TeardownType ==
  /\ phase = "closing"
  /\ phase' = "new"
  /\ anytype' = "empty"
  /\ UNCHANGED <<kind, attr, notified, pvVars>>

-----------------------------------------------------------------------------
(* Reading and writing                                                     *)

\* GetValueImpl(): the empty value stands for the result false.
GetValueImpl == IF IsConnected THEN FromPV(Received(pv), anytype) ELSE EmptyValue

\* Mutant: being connected is enough.
IsAvailableImplMutant == IsConnected

\* For an encoded variable an encoded empty value is a value too.
HasReadableValue ==
  IF kind = "plain" THEN FromPV(Received(pv), anytype) # EmptyValue ELSE Decodable(Received(pv))

IsAvailableImpl == IsConnected /\ HasReadableValue

\* The values that SetValueImpl accepts: a typed variable converts to its
\* type, without extra members, any other takes what it is given.  Those of
\* encoded variables are modelled as scalars.
Accepted(value) ==
  /\ kind = "plain" /\ anytype # "empty" => value.form = anytype
  /\ kind = "encoded" => value.form = "scalar"

\* PvAccessClientPV::SetValue() refuses a value of another type than that of
\* the process variable, and any value once the connection is lost.
SetValueImpl(value) ==
  /\ phase = "running"
  /\ Accepted(value)
  /\ <<channel.data, ToPV(value)>> \in SameType
  /\ Sends(ToPV(value))
  /\ UNCHANGED <<kind, attr, phase, anytype, notified>>

\* Mutants: the loss of a connection is not notified; only changes of the
\* connection are.
CallbackIgnoresLoss ==
  /\ TakeReport
  /\ notified' = IF report.connected
                 THEN [connected |-> TRUE, value |-> FromPV(Received(report), anytype)]
                 ELSE notified
  /\ UNCHANGED <<kind, attr, phase, anytype>>

CallbackIgnoresValues ==
  /\ TakeReport
  /\ notified' = IF report.connected # notified.connected
                 THEN [connected |-> report.connected,
                       value |-> FromPV(Received(report), anytype)]
                 ELSE notified
  /\ UNCHANGED <<kind, attr, phase, anytype>>

\* The lambda of SetupImpl.
Callback ==
  /\ TakeReport
  /\ notified' = [connected |-> report.connected,
                  value |-> FromPV(Received(report), anytype)]
  /\ UNCHANGED <<kind, attr, phase, anytype>>

-----------------------------------------------------------------------------
Inputs == {TypedValue(t, x) : t \in {"scalar", "struct", "wide"}, x \in Payload}

Next ==
  \/ SetupImpl \/ TeardownImpl \/ TeardownType \/ Callback
  \/ \E value \in Inputs : SetValueImpl(value)
  \/ (PVThread \/ Network) /\ UNCHANGED <<kind, attr, phase, anytype, notified>>

\* The thread of the client object keeps receiving and reporting.
Fairness ==
  /\ WF_vars(PVThread /\ UNCHANGED <<kind, attr, phase, anytype, notified>>)
  /\ WF_vars(Callback)

Spec == Init /\ [][Next]_vars /\ Fairness

-----------------------------------------------------------------------------
(* Properties                                                              *)

\* When nothing is left to report, the variable has told the workspace whether
\* it is connected, and what a GetValue would read if it is.
NotificationCatchesUp ==
  phase = "running" /\ report = NoReport /\ pv # NewPV =>
    /\ notified.connected = pv.connected
    /\ pv.connected => notified.value = GetValueImpl

\* Then, too, an instruction that waits for the variable may go by the last
\* notification: a connected one with a value says that the variable is
\* available, and one without says that it is not, but for the empty value that
\* a client encoded on purpose.
AvailabilityIsNotified ==
  phase = "running" /\ report = NoReport /\ pv # NewPV =>
    /\ notified.connected /\ notified.value # EmptyValue => IsAvailableImpl
    /\ IsAvailableImpl =>
         /\ notified.connected
         /\ notified.value = EmptyValue => pv.data = Encode(EmptyValue)

\* A variable with a type tells the workspace only values of that type, however
\* callbacks and teardown interleave: the callback uses m_anytype, which
\* TeardownImpl empties.
NotifiesItsType ==
  kind = "plain" /\ attr # "absent" /\ notified.value # EmptyValue =>
    notified.value.form = attr

\* What a variable sends to the network, it would read as the value that it
\* was given; without a type, a scalar comes back in the structure that it is
\* sent in.
WritesAreReadable ==
  [][\A value \in Inputs :
       SetValueImpl(value) =>
         FromPV(Head(puts'), anytype) =
           IF kind = "plain" /\ anytype = "empty" THEN ToPV(value) ELSE value]_vars

\* A value in a connected process variable reaches the workspace, unless the
\* process variable or the variable changes first.
ChangesAreNotified ==
  \A d \in Data :
    phase = "running" /\ channel.up /\ channel.data = d
      ~> \/ notified = [connected |-> TRUE, value |-> FromPV(d, anytype)]
         \/ phase # "running" \/ ~channel.up \/ channel.data # d

\* What doc/variables.rst:79 promises of the process variables that a variable
\* can be used with: for a scalar type a structure with a scalar "value" field,
\* for a structure a superset of its members, for an encoded variable
\* (doc/variables.rst:159) what its codec can decode.
Usable(d) ==
  CASE kind = "encoded"  -> d.form = "encoded"
    [] attr = "scalar"   -> d.form = "packed"
    [] attr = "struct"   -> d.form \in {"struct", "wide"}
    [] OTHER             -> TRUE

\* A connected process variable that the documentation calls usable makes the
\* variable available, unless the process variable or the variable changes.
UsableBecomesAvailable ==
  \A d \in Data :
    Usable(d) /\ phase = "running" /\ channel.up /\ channel.data = d
      ~> IsAvailableImpl \/ phase # "running" \/ ~channel.up \/ channel.data # d

-----------------------------------------------------------------------------
(* The inductive invariant behind the safety properties                    *)

\* What is being reported is what the client object knows.
ReportInv == report # NoReport => report = pv

\* The client object lives exactly as long as the variable runs, and m_anytype
\* is the type of the variable from the set-up until the object is gone.
LifeInv ==
  /\ pv # NullPV <=> phase = "running"
  /\ phase = "running" =>
       TypeAccepted /\ anytype = IF attr = "absent" THEN "empty" ELSE attr
  /\ phase \in {"new", "failed"} => anytype = "empty"

\* The last notification is about the last thing that was reported.
NotifiedInv ==
  phase = "running" /\ report = NoReport /\ pv # NewPV =>
    notified = [connected |-> pv.connected, value |-> FromPV(Received(pv), anytype)]
=============================================================================
