----------------------- MODULE PvAccessClientsProofs -----------------------
(***************************************************************************)
(* For all process variables, types and values: what a PvAccess client     *)
(* variable tells the workspace catches up with what it would read.        *)
(***************************************************************************)
EXTENDS PvAccessClients, TLAPS

Inv == TypeOK /\ ReportInv /\ LifeInv /\ NotifiedInv /\ NotifiesItsType

-----------------------------------------------------------------------------
(* The client object and the network                                       *)

\* A new client object has received nothing.
LEMMA NewPVType == NewPV \in ReceivedData /\ NewPV # NullPV
<1>1. NewPV \in ReceivedData
  BY DEF NewPV, ReceivedData
<1>2. QED
  BY <1>1, ClientPVAssumption DEF ReceivedData

\* Its thread keeps it and reports what it takes note of.
LEMMA ThreadEffect ==
  ASSUME PVTypeOK, PVThread
  PROVE  /\ pv # NullPV
         /\ pv' \in ReceivedData
         /\ report' = pv'
         /\ UNCHANGED <<channel, puts>>
<1>1. pv \in ReceivedData /\ pv # NullPV
  BY DEF PVTypeOK, PVThread
<1>2. /\ [pv EXCEPT !.connected = TRUE] \in ReceivedData
      /\ [pv EXCEPT !.connected = FALSE] \in ReceivedData
      /\ [pv EXCEPT !.data = channel.data] \in ReceivedData
  BY <1>1 DEF PVTypeOK, ReceivedData
<1>3. QED
  BY <1>1, <1>2 DEF PVThread, Connects, Updates, Disconnects, Receives

\* The network leaves it alone.
LEMMA NetworkEffect ==
  ASSUME PVTypeOK, Network
  PROVE  PVTypeOK' /\ UNCHANGED <<pv, report>>
<1>1. CASE Appears
  BY <1>1 DEF Appears, PVTypeOK
<1>2. CASE Vanishes
  BY <1>2 DEF Vanishes, PVTypeOK
<1>3. CASE AppliesPut
  BY <1>3 DEF AppliesPut, PVTypeOK
<1>4. ASSUME NEW d \in Data, Changes(d)
      PROVE  PVTypeOK' /\ UNCHANGED <<pv, report>>
  BY <1>4 DEF Changes, PVTypeOK
<1>5. QED
  BY <1>1, <1>2, <1>3, <1>4 DEF Network

-----------------------------------------------------------------------------
(* Values                                                                  *)

LEMMA EmptyValueType == EmptyValue \in AnyValue
  BY DEF EmptyValue, AnyValue, Form

LEMMA ConvertType ==
  ASSUME NEW value \in AnyValue, NEW t \in AnyType
  PROVE  /\ ConvertToTypedAnyValue(value, t) \in AnyValue
         /\ t # "empty" /\ ConvertToTypedAnyValue(value, t) # EmptyValue =>
              ConvertToTypedAnyValue(value, t).form = t
  BY EmptyValueType DEF ConvertToTypedAnyValue, AnyValue, AnyType, Form

LEMMA DecodeType ==
  ASSUME NEW value \in AnyValue
  PROVE  Decode(value) \in AnyValue
  BY EmptyValueType DEF Decode, TypedValue, AnyValue, Form

LEMMA ReceivedType ==
  ASSUME NEW p \in ReceivedData
  PROVE  Received(p) \in AnyValue
  BY ClientAssumption, EmptyValueType DEF Received, ReceivedData

\* What the callback makes of a report has the type of the variable.
LEMMA FromPVType ==
  ASSUME NEW p \in ReceivedData, NEW t \in AnyType
  PROVE  /\ FromPV(Received(p), t) \in AnyValue
         /\ kind = "plain" /\ t # "empty" /\ FromPV(Received(p), t) # EmptyValue =>
              FromPV(Received(p), t).form = t
  BY ReceivedType, ConvertType, DecodeType DEF FromPV

-----------------------------------------------------------------------------
(* The invariant                                                           *)

LEMMA InitInv == Init => Inv
  BY ClientAssumption, ClientPVAssumption, EmptyValueType
  DEF Init, PVInit, Inv, TypeOK, PVTypeOK, ReportInv, LifeInv, NotifiedInv,
      NotifiesItsType, NeverNotified, Phase, AnyType, ReceivedData

LEMMA SetupImplInv == Inv /\ SetupImpl => Inv'
<1> SUFFICES ASSUME Inv, SetupImpl
             PROVE  Inv'
  OBVIOUS
<1>1. TypeOK'
  <2>1. anytype' \in AnyType
    BY ClientAssumption DEF Inv, TypeOK, SetupImpl, TypeAccepted, AnyType
  <2>2. phase' \in Phase /\ PVTypeOK' /\ UNCHANGED <<kind, attr, notified>>
    BY NewPVType DEF Inv, TypeOK, PVTypeOK, SetupImpl, CreatePV, pvVars, Phase
  <2>3. QED
    BY <2>1, <2>2 DEF Inv, TypeOK
<1>2. ReportInv' /\ LifeInv' /\ NotifiedInv'
  BY NewPVType
  DEF Inv, ReportInv, LifeInv, NotifiedInv, SetupImpl, CreatePV, pvVars, TypeAccepted, NewPV
<1>3. NotifiesItsType'
  BY DEF Inv, NotifiesItsType, SetupImpl
<1>4. QED
  BY <1>1, <1>2, <1>3 DEF Inv

LEMMA TeardownImplInv == Inv /\ TeardownImpl => Inv'
  BY DEF Inv, TypeOK, PVTypeOK, ReportInv, LifeInv, NotifiedInv, NotifiesItsType,
         TeardownImpl, DestroyPV, Phase

LEMMA TeardownTypeInv == Inv /\ TeardownType => Inv'
  BY DEF Inv, TypeOK, PVTypeOK, ReportInv, LifeInv, NotifiedInv, NotifiesItsType,
         TeardownType, pvVars, Phase, AnyType

\* The callback runs while the variable runs, on what the object knows.
LEMMA CallbackInv == Inv /\ Callback => Inv'
<1> SUFFICES ASSUME Inv, Callback
             PROVE  Inv'
  OBVIOUS
<1>1. /\ report = pv /\ report \in ReceivedData
      /\ phase = "running"
      /\ anytype \in AnyType
      /\ UNCHANGED <<kind, attr, phase, anytype, channel, pv, puts>>
      /\ report' = NoReport
      /\ notified' = [connected |-> report.connected,
                      value |-> FromPV(Received(report), anytype)]
  BY ClientPVAssumption
  DEF Inv, TypeOK, PVTypeOK, ReportInv, LifeInv, Callback, TakeReport, ReceivedData
<1>2. FromPV(Received(report), anytype) \in AnyValue
  BY <1>1, FromPVType
<1>3. TypeOK'
  BY <1>1, <1>2 DEF Inv, TypeOK, PVTypeOK, ReceivedData
<1>4. ReportInv' /\ LifeInv' /\ NotifiedInv'
  BY <1>1 DEF Inv, ReportInv, LifeInv, NotifiedInv, TypeAccepted, FromPV, Received
<1>5. NotifiesItsType'
  <2>1. SUFFICES ASSUME kind = "plain", attr # "absent",
                        FromPV(Received(report), anytype) # EmptyValue
                 PROVE  FromPV(Received(report), anytype).form = attr
    BY <1>1 DEF NotifiesItsType
  <2>2. anytype = attr /\ attr # "empty"
    BY <1>1, <2>1 DEF Inv, LifeInv, TypeAccepted
  <2>3. QED
    BY <1>1, <2>1, <2>2, FromPVType
<1>6. QED
  BY <1>3, <1>4, <1>5 DEF Inv

LEMMA SetValueImplInv ==
  ASSUME Inv, NEW value \in Inputs, SetValueImpl(value)
  PROVE  Inv'
<1>1. ToPV(value) \in Data
  BY ClientPVAssumption DEF SetValueImpl
<1>2. UNCHANGED <<kind, attr, phase, anytype, notified, channel, pv, report>>
  BY DEF SetValueImpl, Sends
<1>3. TypeOK'
  BY <1>1, <1>2 DEF Inv, TypeOK, PVTypeOK, SetValueImpl, Sends
<1>4. QED
  BY <1>2, <1>3 DEF Inv, ReportInv, LifeInv, NotifiedInv, NotifiesItsType, TypeAccepted,
    FromPV, Received

LEMMA PVThreadInv ==
  Inv /\ PVThread /\ UNCHANGED <<kind, attr, phase, anytype, notified>> => Inv'
<1> SUFFICES ASSUME Inv, PVThread, UNCHANGED <<kind, attr, phase, anytype, notified>>
             PROVE  Inv'
  OBVIOUS
<1>1. /\ pv # NullPV /\ pv' \in ReceivedData /\ report' = pv'
      /\ pv' # NullPV /\ pv' # NoReport
      /\ UNCHANGED <<channel, puts>>
  BY ThreadEffect, ClientPVAssumption DEF Inv, TypeOK, ReceivedData
<1>2. QED
  BY <1>1 DEF Inv, TypeOK, PVTypeOK, ReportInv, LifeInv, NotifiedInv, NotifiesItsType,
    TypeAccepted

LEMMA NetworkInv ==
  Inv /\ Network /\ UNCHANGED <<kind, attr, phase, anytype, notified>> => Inv'
<1> SUFFICES ASSUME Inv, Network, UNCHANGED <<kind, attr, phase, anytype, notified>>
             PROVE  Inv'
  OBVIOUS
<1>1. PVTypeOK' /\ UNCHANGED <<pv, report>>
  BY NetworkEffect DEF Inv, TypeOK
<1>2. QED
  BY <1>1 DEF Inv, TypeOK, ReportInv, LifeInv, NotifiedInv, NotifiesItsType, TypeAccepted,
    FromPV, Received

LEMMA NextInv == Inv /\ [Next]_vars => Inv'
<1>1. ASSUME Inv, Next
      PROVE  Inv'
  BY <1>1, SetupImplInv, TeardownImplInv, TeardownTypeInv, CallbackInv, SetValueImplInv,
     PVThreadInv, NetworkInv
  DEF Next
<1>2. ASSUME Inv, UNCHANGED vars
      PROVE  Inv'
  BY <1>2
  DEF vars, pvVars, Inv, TypeOK, PVTypeOK, ReportInv, LifeInv, NotifiedInv,
      NotifiesItsType, TypeAccepted, FromPV, Received
<1>3. QED
  BY <1>1, <1>2

\* Fairness is not needed, so that this holds in compositions that have none.
LEMMA SafetyInvariance == Init /\ [][Next]_vars => []Inv
  BY InitInv, NextInv, PTL

LEMMA Invariance == Spec => []Inv
  BY SafetyInvariance, PTL DEF Spec

-----------------------------------------------------------------------------
(* The properties                                                          *)

\* The variables of the model keep their types.
THEOREM TypeCorrect == Spec => []TypeOK
<1>1. Inv => TypeOK
  BY DEF Inv
<1>2. QED
  BY <1>1, Invariance, PTL

\* The workspace hears values of the type of the variable only, also from a
\* callback that runs while the variable is torn down.
THEOREM NotifiedTypes == Spec => []NotifiesItsType
<1>1. Inv => NotifiesItsType
  BY DEF Inv
<1>2. QED
  BY <1>1, Invariance, PTL

LEMMA CatchesUpFollows == Inv => NotificationCatchesUp
  BY DEF Inv, LifeInv, NotifiedInv, NotificationCatchesUp, GetValueImpl, IsConnected

\* When the thread of the client object has nothing left to report, the
\* workspace knows what a GetValue would read.
THEOREM CatchesUp == Spec => []NotificationCatchesUp
  BY CatchesUpFollows, Invariance, PTL

LEMMA AvailabilityFollows ==
  ASSUME Inv
  PROVE  AvailabilityIsNotified
<1>1. SUFFICES ASSUME phase = "running", report = NoReport, pv # NewPV
               PROVE  /\ notified.connected /\ notified.value # EmptyValue =>
                           IsAvailableImpl
                      /\ IsAvailableImpl =>
                           /\ notified.connected
                           /\ notified.value = EmptyValue =>
                                pv.data = Encode(EmptyValue)
  BY DEF AvailabilityIsNotified
<1>2. /\ pv # NullPV /\ pv \in ReceivedData
      /\ notified = [connected |-> pv.connected, value |-> FromPV(Received(pv), anytype)]
  BY <1>1 DEF Inv, LifeInv, NotifiedInv, TypeOK, PVTypeOK
<1>3. CASE kind = "plain"
  BY <1>2, <1>3 DEF IsAvailableImpl, HasReadableValue, IsConnected
<1>4. CASE kind = "encoded"
  <2>1. FromPV(Received(pv), anytype) # EmptyValue => Decodable(Received(pv))
    BY <1>4 DEF FromPV, Decode
  <2>2. ASSUME Decodable(Received(pv)), FromPV(Received(pv), anytype) = EmptyValue
        PROVE  pv.data = Encode(EmptyValue)
    <3>1. pv.data # NoData /\ Received(pv) = pv.data /\ pv.data \in AnyValue
      BY <1>2, <2>2, ClientAssumption
      DEF Decodable, Received, EmptyValue, ReceivedData
    <3>2. pv.data.form = "encoded" /\ pv.data.val = NoPayload
      BY <1>4, <2>2, <3>1 DEF FromPV, Decode, Decodable, TypedValue, EmptyValue
    <3>3. QED
      BY <3>1, <3>2 DEF Encode, EmptyValue, AnyValue
  <2>3. QED
    BY <1>2, <1>4, <2>1, <2>2 DEF IsAvailableImpl, HasReadableValue, IsConnected
<1>5. QED
  BY <1>1, <1>3, <1>4 DEF Inv, TypeOK

\* It knows then, too, whether the variable is available.
THEOREM Availability == Spec => []AvailabilityIsNotified
  BY AvailabilityFollows, Invariance, PTL

LEMMA SafetyWrites == Init /\ [][Next]_vars => WritesAreReadable
<1>1. ASSUME Inv, [Next]_vars
      PROVE  [\A value \in Inputs :
                SetValueImpl(value) =>
                  FromPV(Head(puts'), anytype) =
                    IF kind = "plain" /\ anytype = "empty" THEN ToPV(value) ELSE value]_vars
  <2>1. SUFFICES ASSUME NEW value \in Inputs, SetValueImpl(value)
                 PROVE  FromPV(Head(puts'), anytype) =
                          IF kind = "plain" /\ anytype = "empty" THEN ToPV(value) ELSE value
    OBVIOUS
  <2>2. Head(puts') = ToPV(value)
    BY <2>1 DEF SetValueImpl, Sends
  <2>3. PICK t \in {"scalar", "struct", "wide"}, x \in Payload : value = [form |-> t, val |-> x]
    BY <2>1 DEF Inputs, TypedValue
  <2>4. x # NoPayload
    BY PayloadAssumption
  <2>5. CASE kind = "plain"
    BY <1>1, <2>1, <2>2, <2>3, <2>5
    DEF Inv, TypeOK, AnyType, SetValueImpl, Accepted, FromPV, ToPV,
        ConvertToTypedAnyValue, ConvertibleForms, PackIntoStructIfScalar
  <2>6. CASE kind = "encoded"
    BY <2>1, <2>2, <2>3, <2>4, <2>6
    DEF SetValueImpl, Accepted, FromPV, ToPV, Decode, Decodable, Encode, TypedValue
  <2>7. QED
    BY <1>1, <2>5, <2>6 DEF Inv, TypeOK
<1>2. QED
  BY <1>1, SafetyInvariance, PTL DEF WritesAreReadable

\* Each value that the variable sends, it would read again.
THEOREM Writes == Spec => WritesAreReadable
  BY SafetyWrites, PTL DEF Spec
=============================================================================
