----------------------- MODULE MCSharedServerRegistry -----------------------
EXTENDS SharedServerRegistry, TLC

CONSTANTS w1, w2, w3, t1, t2, t3, t4

\* A workspace with two threads next to two others.
MCHome == (t1 :> w1) @@ (t2 :> w1) @@ (t3 :> w2) @@ (t4 :> w3)
=============================================================================
