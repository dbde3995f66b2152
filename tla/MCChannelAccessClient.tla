----------------------- MODULE MCChannelAccessClient -----------------------
EXTENDS ChannelAccessClient, TLC

CONSTANTS int, string, bool, time, zero, d1, d2, m

\* A boolean and a number convert to a number; text converts to text.
MCConvertible ==
  {<<t, t>> : t \in {int, string, bool, time}}
    \cup {<<bool, int>>, <<time, int>>, <<int, time>>, <<int, bool>>, <<bool, time>>}

\* A scalar; structures with and without the connection and the time; extra
\* fields that can and that cannot be filled; a structure without a value; {}.
MCTypeAttr ==
  {ScalarTypeOf(int),
   StructTypeOf("value" :> int @@ "connected" :> bool),
   StructTypeOf("value" :> string @@ "connected" :> int @@ "timestamp" :> time),
   StructTypeOf("value" :> int @@ "status" :> string),
   StructTypeOf("value" :> int @@ "other" :> string),
   StructTypeOf("other" :> int),
   EmptyType}

\* The channel has one type.
MCSameType == {d1, d2} \X {d1, d2}

MCDatum == {TRUE, FALSE, zero, d1, d2, m}
=============================================================================
