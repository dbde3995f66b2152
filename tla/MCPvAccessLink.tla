--------------------------- MODULE MCPvAccessLink ---------------------------
EXTENDS PvAccessLink, TLC

CONSTANTS w1, w2, a1, v1, v2, c1, x1, x2

\* A plain variable, then an encoded one, on the same channel: the workspaces
\* follow each other at one address, and each can be set up again.  The server
\* may refuse the plain one.
MCAddressOf == (w1 :> a1) @@ (w2 :> a1)
MCWorkspaceOf == (v1 :> w1) @@ (v2 :> w2)
MCKind == (v1 :> "plain") @@ (v2 :> "encoded")
MCChannelOf == (v1 :> c1) @@ (v2 :> c1)
MCTypeAttr == (v1 :> "ok") @@ (v2 :> "absent")
MCValueAttr == (v1 :> "ok") @@ (v2 :> "absent")
MCParsedType == (v1 :> "scalar") @@ (v2 :> "scalar")
MCInitial == (v1 :> x2) @@ (v2 :> x2)
MCRefusable == {v1}
MCTeardownOrders == {"actions first"}
=============================================================================
