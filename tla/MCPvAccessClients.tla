------------------------- MODULE MCPvAccessClients -------------------------
EXTENDS PvAccessClients

CONSTANTS x1, x2

\* Process variables of every form that PvAccess can carry; an encoded one may
\* hold an encoded empty value, or text that cannot be decoded.
MCData ==
  [form : {"packed", "struct", "wide"}, val : {x1}] \cup [form : {"packed"}, val : {x2}]
    \cup [form : {"encoded"}, val : {x1, NoPayload}]
    \cup {[form |-> "garbage", val |-> NoPayload]}

TypeClass(d) == IF d.form = "garbage" THEN "encoded" ELSE d.form

MCSameType == {p \in MCData \X MCData : TypeClass(p[1]) = TypeClass(p[2])}
=============================================================================
