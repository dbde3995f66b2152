------------------------ MODULE ChannelAccessValues ------------------------
(***************************************************************************)
(* The typed values of ChannelAccess variables and instructions, and the   *)
(* conversions between them and what a ChannelAccess process variable      *)
(* holds (channel_access_helper.cpp).                                      *)
(*                                                                         *)
(* A type is empty, scalar, or a structure: a function from field names to *)
(* scalar types.  A scalar value is a type and a datum, which a conversion *)
(* keeps; a structured value is a function from field names to scalars.    *)
(***************************************************************************)
EXTENDS FiniteSets

CONSTANTS ScalarType,
          Datum,
          DefaultDatum,  \* of a default-constructed scalar
          Convertible,   \* the pairs of scalar types that TryConvert accepts
          BoolType,      \* the types of the fields that ChannelAccess adds
          TimestampType,
          AlarmType

ASSUME ScalarAssumption ==
  /\ DefaultDatum \in Datum /\ {TRUE, FALSE} \subseteq Datum
  /\ {BoolType, TimestampType, AlarmType} \subseteq ScalarType
  /\ Convertible \subseteq ScalarType \X ScalarType
  /\ \A t \in ScalarType : <<t, t>> \in Convertible

ExtraField == {"connected", "timestamp", "status", "severity"}
Field == {"value", "other"} \cup ExtraField

Scalar == [type : ScalarType, datum : Datum]
Default(t) == [type |-> t, datum |-> DefaultDatum]

EmptyType == [shape |-> "empty"]
ScalarTypeOf(t) == [shape |-> "scalar", type |-> t]
StructTypeOf(f) == [shape |-> "struct", fields |-> f]

EmptyValue == [shape |-> "empty"]
ScalarValueOf(x) == [shape |-> "scalar", scalar |-> x]
StructValueOf(f) == [shape |-> "struct", fields |-> f]

\* What a "type" attribute may be parsed to.
IsType(t) ==
  \/ t = EmptyType
  \/ \E x \in ScalarType : t = ScalarTypeOf(x)
  \/ /\ t.shape = "struct" /\ t = StructTypeOf(t.fields)
     /\ DOMAIN t.fields \subseteq Field
     /\ t.fields \in [DOMAIN t.fields -> ScalarType]

TypeOf(v) ==
  CASE v.shape = "empty"  -> EmptyType
    [] v.shape = "scalar" -> ScalarTypeOf(v.scalar.type)
    [] v.shape = "struct" -> StructTypeOf([f \in DOMAIN v.fields |-> v.fields[f].type])

HasField(v, f) == v.shape = "struct" /\ f \in DOMAIN v.fields

\* sup::dto::TryConvert of a scalar to a scalar type (external).
CanConvert(x, t) == <<x.type, t>> \in Convertible
Converted(x, t) == [type |-> t, datum |-> x.datum]

-----------------------------------------------------------------------------
(* What epics::ChannelAccessPV reports: the value has the channel type, or *)
(* is empty as long as none has been received.                             *)

ExtendedValue(connected, value, meta) ==
  [connected |-> connected, value |-> value, meta |-> meta]

\* The scalar that is meant for a field of the result.  A value that has not
\* been received leaves its field as it is.
Meant(ext, f, t) ==
  CASE f = "value"     -> IF ext.value = EmptyValue THEN Default(t) ELSE ext.value.scalar
    [] f = "connected" -> [type |-> BoolType, datum |-> ext.connected]
    [] f = "timestamp" -> [type |-> TimestampType, datum |-> ext.meta]
    [] OTHER           -> [type |-> AlarmType, datum |-> ext.meta]

-----------------------------------------------------------------------------
ChannelType(t) ==
  IF t.shape # "struct" THEN t
  ELSE IF HasField(t, "value") THEN ScalarTypeOf(t.fields["value"])
  ELSE EmptyType

ExtractChannelValue(v) ==
  IF v.shape # "struct" THEN v
  ELSE IF HasField(v, "value") THEN ScalarValueOf(v.fields["value"])
  ELSE EmptyValue

DefaultValue(t) ==
  CASE t.shape = "empty"  -> EmptyValue
    [] t.shape = "scalar" -> ScalarValueOf(Default(t.type))
    [] t.shape = "struct" -> StructValueOf([f \in DOMAIN t.fields |-> Default(t.fields[f])])

\* The fields that PopulateExtraFields, and the "value" before it, can fill.
Filled(t) == IF t.shape = "struct" THEN DOMAIN t.fields \cap ({"value"} \cup ExtraField) ELSE {}

PopulateFields(ext, t) ==
  IF t.shape = "struct"
  THEN StructValueOf([f \in DOMAIN t.fields |->
                        IF f \in Filled(t)
                        THEN Converted(Meant(ext, f, t.fields[f]), t.fields[f])
                        ELSE Default(t.fields[f])])
  ELSE DefaultValue(t)

\* Mutant: the value of the channel is passed on as it is.
ConvertToTypedMutant(ext, t) == IF ext.connected THEN ext.value ELSE EmptyValue

ConvertToTypedAnyValue(ext, t) ==
  IF ~HasField(t, "connected") /\ ~ext.connected
  THEN EmptyValue
  ELSE IF TypeOf(ext.value) = t
  THEN ext.value
  ELSE IF \A f \in Filled(t) : CanConvert(Meant(ext, f, t.fields[f]), t.fields[f])
  THEN PopulateFields(ext, t)
  ELSE EmptyValue
=============================================================================
