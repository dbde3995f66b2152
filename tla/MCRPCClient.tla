---------------------------- MODULE MCRPCClient ----------------------------
EXTENDS RPCClient

CONSTANTS i1, i2

\* One instruction keeps its reply, the other does not.
MCHasOutput == [i \in {i1, i2} |-> i = i1]
=============================================================================
