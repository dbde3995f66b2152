--------------------- MODULE ChannelAccessClientProofs ---------------------
(***************************************************************************)
(* For all types, process variables and values: what a ChannelAccess       *)
(* client variable reads and tells the workspace has its type and is real. *)
(***************************************************************************)
EXTENDS ChannelAccessClient, TLAPS

Inv == TypeOK /\ ReportInv /\ LifeInv /\ NotifiedInv /\ NotifiesItsType /\ HeldInv

-----------------------------------------------------------------------------
(* The client object and the network                                       *)

\* A new client object has received nothing.
LEMMA NewPVType == NewPV \in ReceivedData /\ NewPV # NullPV
<1>1. NewPV \in ReceivedData
  BY DEF NewPV, ReceivedData
<1>2. QED
  BY <1>1, ClientPVAssumption DEF ReceivedData

\* Its thread keeps it and reports what it takes note of.
LEMMA ThreadEffect ==
  ASSUME PVTypeOK, PVThread
  PROVE  /\ pv # NullPV
         /\ pv' \in ReceivedData
         /\ report' = pv'
         /\ UNCHANGED <<channel, puts>>
<1>1. pv \in ReceivedData /\ pv # NullPV
  BY DEF PVTypeOK, PVThread
<1>2. /\ [pv EXCEPT !.connected = TRUE] \in ReceivedData
      /\ [pv EXCEPT !.connected = FALSE] \in ReceivedData
      /\ [pv EXCEPT !.data = channel.data] \in ReceivedData
  BY <1>1 DEF PVTypeOK, ReceivedData
<1>3. QED
  BY <1>1, <1>2 DEF PVThread, Connects, Updates, Disconnects, Receives

\* The network leaves it alone.
LEMMA NetworkEffect ==
  ASSUME PVTypeOK, Network
  PROVE  PVTypeOK' /\ UNCHANGED <<pv, report>>
<1>1. CASE Appears
  BY <1>1 DEF Appears, PVTypeOK
<1>2. CASE Vanishes
  BY <1>2 DEF Vanishes, PVTypeOK
<1>3. CASE AppliesPut
  BY <1>3 DEF AppliesPut, PVTypeOK
<1>4. ASSUME NEW d \in Data, Changes(d)
      PROVE  PVTypeOK' /\ UNCHANGED <<pv, report>>
  BY <1>4 DEF Changes, PVTypeOK
<1>5. QED
  BY <1>1, <1>2, <1>3, <1>4 DEF Network

-----------------------------------------------------------------------------
(* Conversions                                                             *)

LEMMA TypeOfEmpty == TypeOf(EmptyValue) = EmptyType
  BY DEF TypeOf, EmptyValue

\* The three shapes of a type.
LEMMA TypeShapes ==
  ASSUME NEW t, IsType(t)
  PROVE  \/ t.shape = "empty" /\ t = EmptyType
         \/ t.shape = "scalar" /\ t = ScalarTypeOf(t.type) /\ t.type \in ScalarType
         \/ /\ t.shape = "struct" /\ t = StructTypeOf(t.fields)
            /\ t.fields = [f \in DOMAIN t.fields |-> t.fields[f]]
  BY DEF IsType, EmptyType, ScalarTypeOf

LEMMA DefaultValueType ==
  ASSUME NEW t, IsType(t)
  PROVE  TypeOf(DefaultValue(t)) = t
<1>1. CASE t.shape = "empty"
  BY <1>1, TypeShapes, TypeOfEmpty DEF DefaultValue
<1>2. CASE t.shape = "scalar"
  BY <1>2, TypeShapes DEF DefaultValue, TypeOf, ScalarValueOf, Default
<1>3. CASE t.shape = "struct"
  <2>1. DefaultValue(t) = StructValueOf([f \in DOMAIN t.fields |-> Default(t.fields[f])])
    BY <1>3 DEF DefaultValue
  <2> DEFINE fields == [f \in DOMAIN t.fields |-> Default(t.fields[f])]
  <2>2. /\ DOMAIN fields = DOMAIN t.fields
        /\ \A f \in DOMAIN t.fields : fields[f].type = t.fields[f]
    BY DEF Default
  <2>3. TypeOf(StructValueOf(fields)) = StructTypeOf([f \in DOMAIN fields |-> fields[f].type])
    BY DEF TypeOf, StructValueOf
  <2>4. [f \in DOMAIN fields |-> fields[f].type] = [f \in DOMAIN t.fields |-> t.fields[f]]
    BY <2>2
  <2>5. QED
    BY <1>3, <2>1, <2>3, <2>4, TypeShapes
<1>4. QED
  BY <1>1, <1>2, <1>3, TypeShapes

\* A value that is populated field by field has the type it is populated for.
LEMMA PopulateFieldsType ==
  ASSUME NEW ext, NEW t, IsType(t)
  PROVE  TypeOf(PopulateFields(ext, t)) = t
<1>1. CASE t.shape = "struct"
  <2> DEFINE fields == [f \in DOMAIN t.fields |->
                          IF f \in Filled(t)
                          THEN Converted(Meant(ext, f, t.fields[f]), t.fields[f])
                          ELSE Default(t.fields[f])]
  <2>1. PopulateFields(ext, t) = StructValueOf(fields)
    BY <1>1 DEF PopulateFields
  <2>2. /\ DOMAIN fields = DOMAIN t.fields
        /\ \A f \in DOMAIN t.fields : fields[f].type = t.fields[f]
    BY DEF Converted, Default
  <2>3. TypeOf(StructValueOf(fields)) = StructTypeOf([f \in DOMAIN fields |-> fields[f].type])
    BY DEF TypeOf, StructValueOf
  <2>4. [f \in DOMAIN fields |-> fields[f].type] = [f \in DOMAIN t.fields |-> t.fields[f]]
    BY <2>2
  <2>5. QED
    BY <1>1, <2>1, <2>3, <2>4, TypeShapes
<1>2. CASE t.shape # "struct"
  BY <1>2, DefaultValueType DEF PopulateFields
<1>3. QED
  BY <1>1, <1>2

\* ConvertToTypedAnyValue returns the empty value or one of the type it is
\* asked for.
LEMMA ConvertType ==
  ASSUME NEW ext, NEW t, IsType(t),
         ConvertToTypedAnyValue(ext, t) # EmptyValue
  PROVE  TypeOf(ConvertToTypedAnyValue(ext, t)) = t
  BY PopulateFieldsType DEF ConvertToTypedAnyValue

\* A type with a channel type is a scalar, or a structure with a "value".
LEMMA ChannelTypes ==
  ASSUME NEW t, IsType(t), ChannelType(t) # EmptyType
  PROVE  \/ t.shape = "scalar" /\ t = ScalarTypeOf(t.type) /\ ChannelType(t) = t
         \/ /\ t.shape = "struct" /\ "value" \in DOMAIN t.fields
            /\ ChannelType(t) = ScalarTypeOf(t.fields["value"])
  BY TypeShapes DEF ChannelType, HasField

\* It keeps the datum of the value that it converts.
LEMMA ConvertDatum ==
  ASSUME NEW t, IsType(t), ChannelType(t) # EmptyType,
         NEW ext, NEW x,
         ext.value = ScalarValueOf([type |-> ChannelType(t).type, datum |-> x]),
         ConvertToTypedAnyValue(ext, t) # EmptyValue
  PROVE  ExtractChannelValue(ConvertToTypedAnyValue(ext, t)).scalar.datum = x
<1> DEFINE r == ConvertToTypedAnyValue(ext, t)
<1>1. CASE r = ext.value
  BY <1>1 DEF ExtractChannelValue, ScalarValueOf
<1>2. CASE r # ext.value
  <2>1. r = PopulateFields(ext, t) /\ TypeOf(ext.value) # t
    BY <1>2 DEF ConvertToTypedAnyValue
  <2>2. t.shape = "struct" /\ "value" \in DOMAIN t.fields
    BY <2>1, ChannelTypes DEF TypeOf, ScalarValueOf
  <2>3. "value" \in Filled(t)
    BY <2>2 DEF Filled
  <2>4. Meant(ext, "value", t.fields["value"]).datum = x
    BY DEF Meant, ScalarValueOf, EmptyValue
  <2> DEFINE fields == [f \in DOMAIN t.fields |->
                          IF f \in Filled(t)
                          THEN Converted(Meant(ext, f, t.fields[f]), t.fields[f])
                          ELSE Default(t.fields[f])]
  <2>5. r = StructValueOf(fields)
    BY <2>1, <2>2 DEF PopulateFields
  <2>6. "value" \in DOMAIN fields /\ fields["value"].datum = x
    BY <2>2, <2>3, <2>4 DEF Converted
  <2>7. ExtractChannelValue(StructValueOf(fields)) = ScalarValueOf(fields["value"])
    BY <2>6 DEF ExtractChannelValue, HasField, StructValueOf
  <2>8. QED
    BY <2>5, <2>6, <2>7 DEF ScalarValueOf
<1>3. QED
  BY <1>1, <1>2

\* What a variable is written with is its datum.
LEMMA WrittenDatum ==
  ASSUME IsType(attr), ChannelType(attr) # EmptyType, NEW d
  PROVE  ExtractChannelValue(Written(d)).scalar.datum = d
<1>1. CASE attr.shape = "scalar"
  BY <1>1 DEF Written, ExtractChannelValue, ScalarValueOf
<1>2. CASE attr.shape = "struct"
  <2> DEFINE fields == [f \in DOMAIN attr.fields |->
                          [type |-> attr.fields[f],
                           datum |-> IF f = "value" THEN d ELSE DefaultDatum]]
  <2>1. Written(d) = StructValueOf(fields)
    BY <1>2 DEF Written
  <2>2. "value" \in DOMAIN fields /\ fields["value"].datum = d
    BY <1>2, ChannelTypes
  <2>3. ExtractChannelValue(StructValueOf(fields)) = ScalarValueOf(fields["value"])
    BY <2>2 DEF ExtractChannelValue, HasField, StructValueOf
  <2>4. QED
    BY <2>1, <2>2, <2>3 DEF ScalarValueOf
<1>3. QED
  BY <1>1, <1>2, ChannelTypes

-----------------------------------------------------------------------------
(* The invariant                                                           *)

LEMMA InitInv == Init => Inv
<1> SUFFICES ASSUME Init
             PROVE  Inv
  OBVIOUS
<1>1. TypeOK
  BY TypeOfEmpty DEF Init, PVInit, TypeOK, PVTypeOK, Phase, NeverNotified
<1>2. QED
  BY <1>1 DEF Init, PVInit, Inv, ReportInv, LifeInv, NotifiedInv, NotifiesItsType, HeldInv,
    NeverNotified

LEMMA SetupImplInv == Inv /\ SetupImpl => Inv'
<1> SUFFICES ASSUME Inv, SetupImpl
             PROVE  Inv'
  OBVIOUS
<1>1. TypeOK'
  <2>1. anytype' \in TypeAttr \cup {EmptyType} /\ held' \subseteq Data
    BY DEF Inv, TypeOK, PVTypeOK, SetupImpl
  <2>2. phase' \in Phase /\ PVTypeOK' /\ UNCHANGED <<attr, notified>>
    BY NewPVType DEF Inv, TypeOK, PVTypeOK, SetupImpl, CreatePV, pvVars, Phase
  <2>3. QED
    BY <2>1, <2>2 DEF Inv, TypeOK
<1>2. CASE phase' = "failed" /\ UNCHANGED <<attr, notified, held, pvVars>>
  BY <1>1, <1>2
  DEF Inv, ReportInv, LifeInv, NotifiedInv, NotifiesItsType, HeldInv, SetupImpl, pvVars
<1>3. CASE /\ phase' = "running" /\ anytype' = attr /\ CreatePV
           /\ attr # Unparsable /\ ChannelType(attr) # EmptyType
           /\ held' = (IF channel.up THEN {channel.data} ELSE {})
           /\ UNCHANGED <<attr, notified>>
  <2>1. pv' = NewPV /\ report' = NoReport /\ UNCHANGED channel /\ NewPV.data = NoData
    BY <1>3 DEF CreatePV, NewPV
  <2>2. QED
    BY <1>1, <1>3, <2>1, NewPVType
    DEF Inv, ReportInv, LifeInv, NotifiedInv, NotifiesItsType, HeldInv
<1>4. QED
  BY <1>2, <1>3 DEF SetupImpl

LEMMA TeardownImplInv == Inv /\ TeardownImpl => Inv'
  BY DEF Inv, TypeOK, PVTypeOK, ReportInv, LifeInv, NotifiedInv, NotifiesItsType, HeldInv,
         TeardownImpl, DestroyPV, Phase

LEMMA TeardownTypeInv == Inv /\ TeardownType => Inv'
  BY DEF Inv, TypeOK, PVTypeOK, ReportInv, LifeInv, NotifiedInv, NotifiesItsType, HeldInv,
         TeardownType, pvVars, Phase

\* The callback runs while the variable runs, on what the object knows.
LEMMA CallbackInv == Inv /\ Callback => Inv'
<1> SUFFICES ASSUME Inv, Callback
             PROVE  Inv'
  OBVIOUS
<1> DEFINE value == ConvertToTypedAnyValue(Extended(report), anytype)
<1>1. /\ report = pv /\ report \in ReceivedData
      /\ phase = "running" /\ anytype = attr /\ attr \in TypeAttr
      /\ UNCHANGED <<attr, phase, anytype, held, channel, pv, puts>>
      /\ report' = NoReport
      /\ notified' = [connected |-> report.connected, value |-> value]
  BY ClientPVAssumption
  DEF Inv, TypeOK, PVTypeOK, ReportInv, LifeInv, Callback, TakeReport, ReceivedData
<1>2. value # EmptyValue => TypeOf(value) = attr
  BY <1>1, ConvertType, TypeAssumption
<1>3. TypeOK'
  BY <1>1, <1>2, TypeOfEmpty DEF Inv, TypeOK, PVTypeOK, ReceivedData
<1>4. ReportInv' /\ LifeInv' /\ HeldInv'
  BY <1>1 DEF Inv, ReportInv, LifeInv, HeldInv
<1>5. NotifiedInv'
  BY <1>1 DEF NotifiedInv, Extended
<1>6. NotifiesItsType'
  BY <1>1, <1>2 DEF NotifiesItsType
<1>7. QED
  BY <1>3, <1>4, <1>5, <1>6 DEF Inv

LEMMA SetValueImplInv ==
  ASSUME Inv, NEW d \in Data, phase = "running", SetValueImpl(Written(d))
  PROVE  Inv'
<1>1. IsType(attr) /\ ChannelType(attr) # EmptyType
  BY TypeAssumption DEF Inv, TypeOK, LifeInv
<1>2. puts' = <<d>>
  BY <1>1, WrittenDatum DEF SetValueImpl, Sends
<1>3. UNCHANGED <<attr, phase, anytype, notified, held, channel, pv, report>>
  BY DEF SetValueImpl, Sends
<1>4. TypeOK'
  BY <1>2, <1>3 DEF Inv, TypeOK, PVTypeOK
<1>5. QED
  BY <1>3, <1>4 DEF Inv, ReportInv, LifeInv, NotifiedInv, NotifiesItsType, HeldInv, Extended

LEMMA PVThreadInv ==
  Inv /\ PVThread /\ UNCHANGED <<attr, phase, anytype, notified, held>> => Inv'
<1> SUFFICES ASSUME Inv, PVThread, UNCHANGED <<attr, phase, anytype, notified, held>>
             PROVE  Inv'
  OBVIOUS
<1>1. /\ pv # NullPV /\ pv' \in ReceivedData /\ report' = pv'
      /\ pv' # NullPV /\ pv' # NoReport
      /\ UNCHANGED <<channel, puts>>
  BY ThreadEffect, ClientPVAssumption DEF Inv, TypeOK, ReceivedData
<1>2. pv'.data = pv.data \/ (channel.up /\ pv'.data = channel.data)
  BY <1>1 DEF PVThread, Connects, Updates, Disconnects, Receives, Inv, TypeOK, PVTypeOK,
    ReceivedData
<1>3. HeldInv'
  BY <1>1, <1>2 DEF Inv, HeldInv, LifeInv
<1>4. QED
  BY <1>1, <1>3
  DEF Inv, TypeOK, PVTypeOK, ReportInv, LifeInv, NotifiedInv, NotifiesItsType

LEMMA NetworkInv ==
  ASSUME Inv, Network, UNCHANGED <<attr, phase, anytype, notified>>,
         held' = IF channel'.up THEN held \cup {channel'.data} ELSE held
  PROVE  Inv'
<1>1. PVTypeOK' /\ UNCHANGED <<pv, report>>
  BY NetworkEffect DEF Inv, TypeOK
<1>2. TypeOK'
  BY <1>1 DEF Inv, TypeOK, PVTypeOK
<1>3. HeldInv'
  BY <1>1 DEF Inv, HeldInv
<1>4. QED
  BY <1>1, <1>2, <1>3 DEF Inv, ReportInv, LifeInv, NotifiedInv, NotifiesItsType, Extended

LEMMA NextInv == Inv /\ [Next]_vars => Inv'
<1>1. ASSUME Inv, Next
      PROVE  Inv'
  BY <1>1, SetupImplInv, TeardownImplInv, TeardownTypeInv, CallbackInv, SetValueImplInv,
     PVThreadInv, NetworkInv
  DEF Next
<1>2. ASSUME Inv, UNCHANGED vars
      PROVE  Inv'
  BY <1>2
  DEF vars, pvVars, Inv, TypeOK, PVTypeOK, ReportInv, LifeInv, NotifiedInv,
      NotifiesItsType, HeldInv, Extended
<1>3. QED
  BY <1>1, <1>2

LEMMA Invariance == Spec => []Inv
  BY InitInv, NextInv, PTL DEF Spec

-----------------------------------------------------------------------------
(* The properties                                                          *)

\* The variables of the model keep their types.
THEOREM TypeCorrect == Spec => []TypeOK
<1>1. Inv => TypeOK
  BY DEF Inv
<1>2. QED
  BY <1>1, Invariance, PTL

\* The workspace hears values of the type of the variable only, also from a
\* callback that runs while the variable is torn down.
THEOREM NotifiedTypes == Spec => []NotifiesItsType
<1>1. Inv => NotifiesItsType
  BY DEF Inv
<1>2. QED
  BY <1>1, Invariance, PTL

\* When the thread of the client object has nothing left to report, the
\* workspace knows what a GetValue would read.
THEOREM CatchesUp == Spec => []NotificationCatchesUp
<1>1. Inv => NotificationCatchesUp
  BY DEF Inv, LifeInv, NotifiedInv, NotificationCatchesUp, GetValueImpl
<1>2. QED
  BY <1>1, Invariance, PTL

\* An available variable reads something that its process variable has held,
\* never a default.
THEOREM RealReads == Spec => []AvailableReadsAreReal
<1>1. ASSUME Inv, IsAvailableImpl, GetValueImpl # EmptyValue
      PROVE  ValueDatum(GetValueImpl) \in held
  <2>1. /\ phase = "running" /\ pv # NullPV
        /\ anytype = attr /\ IsType(attr) /\ ChannelType(attr) # EmptyType
    BY <1>1, TypeAssumption DEF IsAvailableImpl, IsConnected, Inv, LifeInv, TypeOK
  <2>2. /\ pv.data # NoData
        /\ Extended(pv).value =
             ScalarValueOf([type |-> ChannelType(attr).type, datum |-> pv.data])
    BY <1>1 DEF IsAvailableImpl, Extended, ExtendedValue
  <2>3. ValueDatum(GetValueImpl) = pv.data
    BY <1>1, <2>1, <2>2, ConvertDatum DEF ValueDatum, GetValueImpl
  <2>4. QED
    BY <1>1, <2>1, <2>2, <2>3 DEF Inv, HeldInv
<1>2. Inv => AvailableReadsAreReal
  BY <1>1 DEF AvailableReadsAreReal
<1>3. QED
  BY <1>2, Invariance, PTL
=============================================================================
