------------------------- MODULE MCServerVariables -------------------------
EXTENDS PvAccessServerVariables

CONSTANTS w1, w2, w3, a1, a2, v1, v2, v3, v4, v5, c1, c2, c3, x1, x2

\* Two variables of different kinds in one workspace, one in another, and a third
\* workspace, at the address of the first, whose set-up fails at the value of v4
\* or the type of v5.  The server may refuse v2, before or after it took v1.
MCVariable == {v1, v2, v3, v4, v5}
MCWorkspaceOf ==
  [v \in MCVariable |-> IF v \in {v1, v2} THEN w1 ELSE IF v = v3 THEN w2 ELSE w3]
MCKind == [v \in MCVariable |-> IF v \in {v2, v5} THEN "encoded" ELSE "plain"]
MCChannelOf == [v \in MCVariable |-> IF v \in {v2, v5} THEN c2 ELSE c1]
MCTypeAttr ==
  [v \in MCVariable |-> IF v = v2 THEN "absent" ELSE IF v = v5 THEN "unparsable" ELSE "ok"]
MCValueAttr ==
  [v \in MCVariable |-> IF v = v4 THEN "unparsable"
                        ELSE IF v \in {v2, v5} THEN "absent" ELSE "ok"]
MCParsedType == [v \in MCVariable |-> IF v = v3 THEN "struct" ELSE "scalar"]
MCInitial == [v \in MCVariable |-> x2]
MCRefusable == {v2}
MCAddressOf == [w \in {w1, w2, w3} |-> IF w = w2 THEN a2 ELSE a1]

\* Set-ups that fail in every way: v2 and v4 at their types, v5 at its value,
\* v1 when the server refuses it, v3 at a name that an earlier workspace at its
\* address left behind.
FailVariable == {v1, v2, v3, v4, v5}
FailWorkspaceOf == [v \in FailVariable |-> IF v \in {v3, v4} THEN w2 ELSE w1]
FailKind == [v \in FailVariable |-> IF v = v2 THEN "encoded" ELSE "plain"]
FailChannelOf ==
  [v \in FailVariable |-> IF v \in {v1, v3} THEN c1 ELSE IF v = v5 THEN c3 ELSE c2]
FailTypeAttr ==
  [v \in FailVariable |-> IF v = v2 THEN "unparsable" ELSE IF v = v4 THEN "empty" ELSE "ok"]
FailValueAttr == [v \in FailVariable |-> IF v = v5 THEN "unparsable" ELSE "absent"]
FailParsedType == [v \in FailVariable |-> "scalar"]
FailRefusable == {v1}
FailInitial == [v \in FailVariable |-> x1]

\* The second workspace takes the place of the first.
FailAddressOf == [w \in {w1, w2} |-> a1]

BothOrders == {"variables first", "actions first"}
ActionsFirst == {"actions first"}
=============================================================================
