------------------------------- MODULE MCLog -------------------------------
\* Log with two threads in one process and one in another.
EXTENDS Log, TLC

CONSTANTS t1, t2, t3, q1, q2

SomeProcess == (t1 :> q1) @@ (t2 :> q1) @@ (t3 :> q2)
=============================================================================
