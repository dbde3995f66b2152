------------------------------ MODULE PvaValues ------------------------------
(***************************************************************************)
(* The forms in which a value travels between a PvAccess server variable,  *)
(* the PvAccess server and the network, and the conversions between them   *)
(* (pv_access_helper.cpp and the Base64 codec).                            *)
(*                                                                         *)
(* A value is a record: "form" is what its AnyType says about its shape,   *)
(* "val" is the payload.  A type of a variable is "empty", "scalar" or     *)
(* "struct"; two structures of the same variable have the same members.    *)
(***************************************************************************)
CONSTANTS Payload,   \* the payloads that a well-formed value may carry
          NoPayload  \* the payload of the empty value and of an undecodable one

ASSUME PayloadAssumption == NoPayload \notin Payload

AnyType == {"empty", "scalar", "struct"}

\* scalar, struct: a value that has the type of its variable
\* wide:           a structure with the members of that type and more
\* packed:         a structure whose single field "value" holds a scalar
\* encoded:        a structure {encoding, value} that the codec can decode
\* garbage:        such a structure that it cannot decode
Form == {"empty", "scalar", "struct", "wide", "packed", "encoded", "garbage"}

AnyValue == [form : Form, val : Payload \cup {NoPayload}]

EmptyValue == [form |-> "empty", val |-> NoPayload]

\* An AnyValue of type t and payload x.
TypedValue(t, x) == IF t = "empty" THEN EmptyValue ELSE [form |-> t, val |-> x]

-----------------------------------------------------------------------------
PackIntoStructIfScalar(value) ==
  IF value.form = "scalar" THEN [value EXCEPT !.form = "packed"] ELSE value

\* Mutants: the "value" field of a structure is not looked up; a structure may
\* not have more members than the type.
ConvertibleFormsMutant(t) == {t}

ConvertibleFormsExact(t) == IF t = "scalar" THEN {"packed", "scalar"} ELSE {t}

\* The forms that can be converted to type t: for a scalar type the "value"
\* field is looked up first, everything else is a whole-value conversion in
\* which members that the type does not have are ignored.
ConvertibleForms(t) ==
  CASE t = "scalar" -> {"packed", "scalar"}
    [] t = "struct" -> {"struct", "wide"}
    [] OTHER        -> {t}

ConvertToTypedAnyValue(value, t) ==
  IF t = "empty"
  THEN value
  ELSE IF value.form \in ConvertibleForms(t)
       THEN [form |-> t, val |-> value.val]
       ELSE EmptyValue

-----------------------------------------------------------------------------
(* Base64VariableCodec (external): any value can be encoded, also the empty *)
(* one; a structure with arbitrary strings in it may not be decodable.      *)

\* Mutant: the whole value is taken for its payload.
EncodeMutant(value) == [form |-> "encoded", val |-> value]

Encode(value) == [form |-> "encoded", val |-> value.val]

Decodable(value) == value.form = "encoded"

\* Mutant: the payload is taken for the value.
DecodeMutant(value) == value.val

\* The shape of what was encoded is not kept: a decoded payload is a scalar.
Decode(value) ==
  IF Decodable(value) /\ value.val # NoPayload
  THEN TypedValue("scalar", value.val)
  ELSE EmptyValue
==============================================================================
