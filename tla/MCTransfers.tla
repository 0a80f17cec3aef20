---------------------------- MODULE MCTransfers ----------------------------
\* Transfers with two datagram peers that do not do the same: one sends twice and
\* receives once, the other receives twice and sends once.
EXTENDS Transfers

CONSTANTS p1, p2

SomeSends == (p1 :> 2) @@ (p2 :> 1)
SomeRecvs == (p1 :> 1) @@ (p2 :> 2)
=============================================================================
