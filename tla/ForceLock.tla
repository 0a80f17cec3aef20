----------------------------- MODULE ForceLock -----------------------------
(***************************************************************************)
(* What udo_futex_lock, udo_futex_wait, udo_futex_unlock, udo_futex_wake   *)
(* and udo_futex_unlock_force promise, without spinning or sleeping: one   *)
(* word, processes that block on it, and a forced unlock that sends the    *)
(* blocked ones away.  Futex.tla implements this specification.            *)
(***************************************************************************)
EXTENDS Naturals

CONSTANTS Lockers,   \* processes that take the word as a lock
          Waiters,   \* processes that wait for it to hold Desired
          Others,    \* processes that only store to it
          Creator,   \* the one that holds the lock of a new futex
          Desired    \* the value that udo_futex_wait waits for

UNLOCK == 0
LOCK   == 1
FORCE  == 2          \* stands for 0x66AFB55C
Words  == {UNLOCK, LOCK, FORCE, Desired}
Procs  == Lockers \cup Waiters \cup Others

VARIABLES word, state
vars == <<word, state>>

Init == /\ word = LOCK
        /\ state = [p \in Procs |-> IF p = Creator THEN "held" ELSE "idle"]

Request(p) == /\ state[p] = "idle" /\ p \in Lockers \cup Waiters
              /\ state' = [state EXCEPT ![p] = "blocked"]
              /\ UNCHANGED word

Acquire(p) == /\ state[p] = "blocked" /\ p \in Lockers
              /\ word = UNLOCK /\ word' = LOCK
              /\ state' = [state EXCEPT ![p] = "held"]

\* A forced unlock sends anyone away.
ReturnForced(p) == /\ state[p] = "blocked" /\ word = FORCE
                   /\ state' = [state EXCEPT ![p] = "idle"]
                   /\ UNCHANGED word

\* A waiter has found the value.
ReturnDesired(p) == /\ state[p] = "blocked" /\ p \in Waiters /\ word = Desired
                    /\ state' = [state EXCEPT ![p] = "idle"]
                    /\ UNCHANGED word

Release(p) == /\ state[p] = "held"
              /\ word' = UNLOCK
              /\ state' = [state EXCEPT ![p] = "idle"]

Store(v) == word' = v /\ UNCHANGED state

Next == \/ \E p \in Procs : \/ Request(p) \/ Acquire(p) \/ Release(p)
                            \/ ReturnForced(p) \/ ReturnDesired(p)
        \/ Store(FORCE) \/ Store(Desired)

\* A word that would let a blocked process through does not stay so for ever
\* while the process stays blocked: somebody gets the free lock, everybody sees
\* the force, every waiter sees the value.
Fairness == /\ WF_vars(\E p \in Lockers : Acquire(p))
            /\ \A p \in Lockers \cup Waiters : WF_vars(ReturnForced(p))
            /\ \A p \in Waiters : WF_vars(ReturnDesired(p))

Spec == Init /\ [][Next]_vars /\ Fairness
=============================================================================
