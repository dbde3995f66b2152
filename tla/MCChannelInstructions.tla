----------------------- MODULE MCChannelInstructions -----------------------
EXTENDS ChannelInstructions, TLC

CONSTANTS r, w, c, n, x1, x2

\* A read and a write, of different protocols, on one channel and one variable.
ReadCAWritePVA == (r :> "ca read") @@ (w :> "pva write")
ReadPVAWriteCA == (r :> "pva read") @@ (w :> "ca write")

MCChannelOf == [i \in {r, w} |-> c]
MCNameOf == [i \in {r, w} |-> n]

\* The write takes its value from the variable, or from its own attributes.
FromVariable == [i \in {r, w} |-> TRUE]
FromAttributes == [i \in {r, w} |-> FALSE]
NoLiteral == [i \in {r, w} |-> NoValue]
SomeLiteral == [i \in {r, w} |-> x1]
=============================================================================
