------------------------ MODULE ChannelAccessClient ------------------------
(***************************************************************************)
(* A ChannelAccessClient variable: set up, read, written and torn down by  *)
(* its workspace, and notified of changes by the thread of its             *)
(* ChannelAccessPV.                                                        *)
(***************************************************************************)
EXTENDS ClientPV, ChannelAccessValues

CONSTANTS TypeAttr,    \* what the attribute "type" may be parsed to
          Unparsable,  \* it cannot be parsed
          Meta         \* the datum of timestamp, status and severity

ASSUME TypeAssumption ==
  /\ Data \subseteq Datum /\ Meta \in Datum
  /\ \A t \in TypeAttr : IsType(t)
  /\ Unparsable \notin TypeAttr

VARIABLES
  attr,      \* the attribute "type", which never changes
  phase,     \* where the variable is in its life
  anytype,   \* m_anytype
  notified,  \* what Notify was last called with
  held       \* history: what the process variable has held, while it was up,
             \* since the set-up

vars == <<attr, phase, anytype, notified, held, pvVars>>

Phase == {"new", "failed", "running", "closing"}

NeverNotified == [connected |-> FALSE, value |-> EmptyValue]

TypeOK ==
  /\ PVTypeOK
  /\ attr \in TypeAttr \cup {Unparsable}
  /\ phase \in Phase
  /\ anytype \in TypeAttr \cup {EmptyType}
  /\ notified.connected \in BOOLEAN
  /\ TypeOf(notified.value) \in TypeAttr \cup {EmptyType}
  /\ held \subseteq Data

Init ==
  /\ PVInit
  /\ attr \in TypeAttr \cup {Unparsable}
  /\ phase = "new"
  /\ anytype = EmptyType
  /\ notified = NeverNotified
  /\ held = {}

\* What GetExtendedValue() returns, or the callback is given, for p: the
\* object was made for the channel type of the variable.
Extended(p) ==
  ExtendedValue(p.connected,
                IF p.data = NoData THEN EmptyValue
                ELSE ScalarValueOf([type |-> ChannelType(attr).type, datum |-> p.data]),
                Meta)

-----------------------------------------------------------------------------
(* Setup and teardown                                                      *)

\* Mutant: the result of the parser is stored before it is looked at.
SetupImplMutant ==
  /\ phase \in {"new", "failed"}
  /\ anytype' = attr
  /\ IF attr = Unparsable \/ ChannelType(attr) = EmptyType
     THEN phase' = "failed" /\ UNCHANGED <<held, pvVars>>
     ELSE phase' = "running" /\ CreatePV /\ UNCHANGED held
  /\ UNCHANGED <<attr, notified>>

SetupImpl ==
  /\ phase \in {"new", "failed"}
  /\ \/ /\ attr = Unparsable
        /\ phase' = "failed"
        /\ UNCHANGED <<anytype, held, pvVars>>
     \/ /\ attr # Unparsable /\ ChannelType(attr) = EmptyType
        /\ phase' = "failed"
        /\ anytype' = attr
        /\ UNCHANGED <<held, pvVars>>
     \/ /\ attr # Unparsable /\ ChannelType(attr) # EmptyType
        /\ phase' = "running"
        /\ anytype' = attr
        /\ CreatePV
        /\ held' = IF channel.up THEN {channel.data} ELSE {}
  /\ UNCHANGED <<attr, notified>>

\* m_pv goes first, and with it the thread that uses m_anytype.
TeardownImpl ==
  /\ phase \in {"running", "failed"}
  /\ phase' = "closing"
  /\ DestroyPV
  /\ UNCHANGED <<attr, anytype, notified, held>>

TeardownType ==
  /\ phase = "closing"
  /\ phase' = "new"
  /\ anytype' = EmptyType
  /\ UNCHANGED <<attr, notified, held, pvVars>>

-----------------------------------------------------------------------------
(* Reading and writing                                                     *)

\* GetValueImpl(): the empty value stands for the result false.
GetValueImpl ==
  IF pv = NullPV THEN EmptyValue ELSE ConvertToTypedAnyValue(Extended(pv), anytype)

\* Mutant: a connection is enough.
IsAvailableMutant == IsConnected

IsAvailableImpl == IsConnected /\ Extended(pv).value # EmptyValue

\* The connection may be lost between IsConnected() and SetValue(), which
\* then refuses; a structure without a "value" is refused before.
SetValueImpl(value) ==
  /\ ExtractChannelValue(value) # EmptyValue
  /\ Sends(ExtractChannelValue(value).scalar.datum)
  /\ UNCHANGED <<attr, phase, anytype, notified, held>>

\* Mutants: the loss of a connection is not notified; only changes of the
\* connection are.
CallbackIgnoresLoss ==
  /\ TakeReport
  /\ notified' = IF report.connected
                 THEN [connected |-> TRUE,
                       value |-> ConvertToTypedAnyValue(Extended(report), anytype)]
                 ELSE notified
  /\ UNCHANGED <<attr, phase, anytype, held>>

CallbackIgnoresValues ==
  /\ TakeReport
  /\ notified' = IF report.connected # notified.connected
                 THEN [connected |-> report.connected,
                       value |-> ConvertToTypedAnyValue(Extended(report), anytype)]
                 ELSE notified
  /\ UNCHANGED <<attr, phase, anytype, held>>

\* The lambda of SetupImpl.
Callback ==
  /\ TakeReport
  /\ notified' = [connected |-> report.connected,
                  value |-> ConvertToTypedAnyValue(Extended(report), anytype)]
  /\ UNCHANGED <<attr, phase, anytype, held>>

\* A value of the variable's own type, with d in its value.
Written(d) ==
  IF attr.shape = "struct"
  THEN StructValueOf([f \in DOMAIN attr.fields |->
                        [type |-> attr.fields[f], datum |-> IF f = "value" THEN d ELSE DefaultDatum]])
  ELSE ScalarValueOf([type |-> attr.type, datum |-> d])

-----------------------------------------------------------------------------
Next ==
  \/ SetupImpl \/ TeardownImpl \/ TeardownType \/ Callback
  \/ \E d \in Data : phase = "running" /\ SetValueImpl(Written(d))
  \/ PVThread /\ UNCHANGED <<attr, phase, anytype, notified, held>>
  \/ /\ Network
     /\ held' = IF channel'.up THEN held \cup {channel'.data} ELSE held
     /\ UNCHANGED <<attr, phase, anytype, notified>>

\* The thread of the client object keeps receiving and reporting.
Fairness ==
  /\ WF_vars(PVThread /\ UNCHANGED <<attr, phase, anytype, notified, held>>)
  /\ WF_vars(Callback)

Spec == Init /\ [][Next]_vars /\ Fairness

-----------------------------------------------------------------------------
(* Properties                                                              *)

\* When nothing is left to report, what the variable last told the workspace
\* is what a GetValue would read, and whether the channel is connected.
NotificationCatchesUp ==
  phase = "running" /\ report = NoReport /\ pv # NewPV =>
    notified = [connected |-> pv.connected, value |-> GetValueImpl]

\* The "value" that a variable of either shape shows.
ValueDatum(v) == ExtractChannelValue(v).scalar.datum

\* As soon as the variable is available, and as long as it is, what it reads
\* is something that the process variable has held since the set-up, never what
\* a default-constructed AnyValue holds.
AvailableReadsAreReal ==
  IsAvailableImpl /\ GetValueImpl # EmptyValue => ValueDatum(GetValueImpl) \in held

\* What the workspace is told is of the type that the attribute describes, in
\* every phase, however callbacks and teardown interleave.
NotifiesItsType ==
  notified.value # EmptyValue => TypeOf(notified.value) = attr

\* A value in a connected process variable reaches the workspace, unless the
\* process variable or the variable changes first or the type cannot show it.
Shows(d) ==
  /\ notified.connected
  /\ notified.value # EmptyValue => ValueDatum(notified.value) = d

ChangesAreNotified ==
  \A d \in Data :
    phase = "running" /\ channel.up /\ channel.data = d
      ~> Shows(d) \/ phase # "running" \/ ~channel.up \/ channel.data # d

-----------------------------------------------------------------------------
(* The inductive invariant behind the safety properties                    *)

\* What is being reported is what the client object knows.
ReportInv == report # NoReport => report = pv

\* The client object lives exactly as long as the variable runs, and m_anytype
\* is the type of the variable as long as the object lives.
LifeInv ==
  /\ pv # NullPV <=> phase = "running"
  /\ phase = "running" =>
       anytype = attr /\ attr # Unparsable /\ ChannelType(attr) # EmptyType

\* The last notification is about the last thing that was reported.
NotifiedInv ==
  phase = "running" /\ report = NoReport /\ pv # NewPV =>
    notified = [connected |-> pv.connected,
                value |-> ConvertToTypedAnyValue(Extended(pv), anytype)]

\* What the client object has received the process variable has held.
HeldInv ==
  phase = "running" => /\ channel.up => channel.data \in held
                       /\ pv.data # NoData => pv.data \in held
=============================================================================
