------------------------------- MODULE Futex -------------------------------
(***************************************************************************)
(* One futex word of src/src/futex.c, and the processes that call lock,    *)
(* wait, unlock, wake and unlock_force on it.  A step is one atomic access *)
(* to the word or one futex system call.                                   *)
(***************************************************************************)
EXTENDS Naturals

CONSTANTS Lockers,   \* processes that take the word as a lock
          Waiters,   \* processes that wait for it to hold Desired
          Others,    \* processes that only store to it
          Creator,   \* the one that holds the lock of a new futex
          Desired,   \* the value that udo_futex_wait waits for
          MaxForces  \* bound: how often unlock_force is called

ASSUME RolesAssumption == /\ Creator \in Lockers
                          /\ Lockers \cap (Waiters \cup Others) = {}
                          /\ Waiters \cap Others = {}
ASSUME DesiredAssumption == Desired \in Nat \ {0, 1, 2}
ASSUME MaxForcesAssumption == MaxForces \in Nat

Procs  == Lockers \cup Waiters \cup Others
UNLOCK == 0          \* UDO_FUTEX_UNLOCK
LOCK   == 1          \* UDO_FUTEX_LOCK
FORCE  == 2          \* stands for UDO_FUTEX_UNLOCK_FORCE, 0x66AFB55C
Words  == {UNLOCK, LOCK, FORCE, Desired}

VARIABLES fux,    \* the word
          pc,     \* where each process is
          wval,   \* the value each process hands to FUTEX_WAIT
          errno,  \* each process's errno: "EINTR", "EAGAIN" or 0 for any other
          forced, \* history: who was blocked when unlock_force was last called
          forces  \* history: how often it was called

history == <<forced, forces>>
vars == <<fux, pc, wval, errno, history>>

\* Inside udo_futex_lock, and inside udo_futex_wait.
LockPCs == {"spinTry", "spinCheck", "try", "check", "wait", "asleep"}
WaitPCs == {"spinLoad", "spinWaitCheck", "load", "waitCheck", "wait", "asleep"}
Blocked(p) == pc[p] \in LockPCs \cup WaitPCs

TypeOK ==
  /\ fux \in Words
  /\ pc \in [Procs -> {"idle", "held", "wake"} \cup LockPCs \cup WaitPCs]
  /\ wval \in [Procs -> Words]
  /\ errno \in [Procs -> {"0", "EINTR", "EAGAIN"}]
  /\ forced \subseteq Procs /\ forces \in 0 .. MaxForces

\* udo_futex_create stores 1; the creator may unlock what it created.
Init ==
  /\ fux = LOCK
  /\ pc = [p \in Procs |-> IF p = Creator THEN "held" ELSE "idle"]
  /\ wval = [p \in Procs |-> LOCK]
  /\ errno = [p \in Procs |-> "0"]
  /\ forced = {} /\ forces = 0

Goto(p, label)     == pc' = [pc EXCEPT ![p] = label]
SetErrno(p, value) == errno' = [errno EXCEPT ![p] = value]
Unblock(p)         == forced' = forced \ {p} /\ UNCHANGED forces

-----------------------------------------------------------------------------
\* udo_futex_lock: the spinning loop, whose compare-and-swap is a weak one.
Lock(p) ==
  /\ pc[p] = "idle" /\ p \in Lockers
  /\ Goto(p, "spinTry")
  /\ UNCHANGED <<fux, wval, errno, history>>

Got(p) ==
  /\ fux = UNLOCK
  /\ fux' = LOCK
  /\ Goto(p, "held") /\ Unblock(p)
  /\ UNCHANGED <<wval, errno>>

SpinTry(p) ==
  /\ pc[p] = "spinTry"
  /\ \/ Got(p)
     \/ Goto(p, "spinCheck") /\ UNCHANGED <<fux, wval, errno, history>>

\* errno = EINTR; return;
ReturnForced(p) ==
  /\ fux = FORCE
  /\ Goto(p, "idle") /\ SetErrno(p, "EINTR") /\ Unblock(p)
  /\ UNCHANGED <<fux, wval>>

SpinCheck(p) ==
  /\ pc[p] = "spinCheck"
  /\ \/ ReturnForced(p)
     \/ /\ fux # FORCE
        /\ Goto(p, "spinTry") \/ Goto(p, "try")   \* try again, or stop spinning
        /\ UNCHANGED <<fux, wval, errno, history>>

\* Mutant of Try: the word is loaded, compared, and then stored.
TryNotAtomic(p) ==
  /\ pc[p] = "try"
  /\ \/ fux \in {UNLOCK, LOCK} /\ fux' = LOCK /\ Goto(p, "held") /\ Unblock(p)
     \/ fux # UNLOCK /\ Goto(p, "check") /\ UNCHANGED <<fux, history>>
  /\ UNCHANGED <<wval, errno>>

\* The blocking loop of udo_futex_lock.
Try(p) ==
  /\ pc[p] = "try"
  /\ \/ Got(p)
     \/ fux # UNLOCK /\ Goto(p, "check") /\ UNCHANGED <<fux, wval, errno, history>>

\* Mutant of Check: the force is looked for only while spinning.
CheckNoForce(p) ==
  /\ pc[p] = "check"
  /\ wval' = [wval EXCEPT ![p] = LOCK]
  /\ Goto(p, "wait")
  /\ UNCHANGED <<fux, errno, history>>

Check(p) ==
  /\ pc[p] = "check"
  /\ \/ ReturnForced(p)
     \/ /\ fux # FORCE
        /\ wval' = [wval EXCEPT ![p] = LOCK]
        /\ Goto(p, "wait")
        /\ UNCHANGED <<fux, errno, history>>

-----------------------------------------------------------------------------
\* udo_futex_wait: the spinning loop.
Wait(p) ==
  /\ pc[p] = "idle" /\ p \in Waiters
  /\ Goto(p, "spinLoad")
  /\ UNCHANGED <<fux, wval, errno, history>>

ReturnDesired(p) ==
  /\ fux = Desired
  /\ Goto(p, "idle") /\ Unblock(p)
  /\ UNCHANGED <<fux, wval, errno>>

SpinLoad(p) ==
  /\ pc[p] = "spinLoad"
  /\ \/ ReturnDesired(p)
     \/ fux # Desired /\ Goto(p, "spinWaitCheck")
                      /\ UNCHANGED <<fux, wval, errno, history>>

SpinWaitCheck(p) ==
  /\ pc[p] = "spinWaitCheck"
  /\ \/ ReturnForced(p)
     \/ /\ fux # FORCE
        /\ Goto(p, "spinLoad") \/ Goto(p, "load")
        /\ UNCHANGED <<fux, wval, errno, history>>

\* The blocking loop: sleep on the value that was compared.
Load(p) ==
  /\ pc[p] = "load"
  /\ \/ ReturnDesired(p)
     \/ /\ fux # Desired
        /\ wval' = [wval EXCEPT ![p] = fux]
        /\ Goto(p, "waitCheck")
        /\ UNCHANGED <<fux, errno, history>>

\* Mutant of WaitCheck: sleep on whatever the word holds now, as the code of
\* p_udo_futex_wait_cond does.
WaitCheckReload(p) ==
  /\ pc[p] = "waitCheck"
  /\ \/ ReturnForced(p)
     \/ /\ fux # FORCE
        /\ wval' = [wval EXCEPT ![p] = fux]
        /\ Goto(p, "wait")
        /\ UNCHANGED <<fux, errno, history>>

WaitCheck(p) ==
  /\ pc[p] = "waitCheck"
  /\ \/ ReturnForced(p)
     \/ /\ fux # FORCE
        /\ Goto(p, "wait")
        /\ UNCHANGED <<fux, wval, errno, history>>

-----------------------------------------------------------------------------
\* Both loops start again after FUTEX_WAIT, whatever it returned.
Again(p) == IF p \in Lockers THEN "try" ELSE "load"

\* FUTEX_WAIT: the kernel compares the word and queues the caller atomically.
FutexWait(p) ==
  /\ pc[p] = "wait"
  /\ IF fux = wval[p] THEN Goto(p, "asleep") /\ UNCHANGED errno
                      ELSE Goto(p, Again(p)) /\ SetErrno(p, "EAGAIN")
  /\ UNCHANGED <<fux, wval, history>>

\* A signal handler ran: FUTEX_WAIT fails with EINTR.
Signal(p) ==
  /\ pc[p] = "asleep"
  /\ Goto(p, Again(p)) /\ SetErrno(p, "EINTR")
  /\ UNCHANGED <<fux, wval, history>>

\* udo_futex_unlock, udo_futex_wake and udo_futex_unlock_force: store ...
Unlock(p) ==
  /\ pc[p] = "held"
  /\ fux' = UNLOCK
  /\ Goto(p, "wake")
  /\ UNCHANGED <<wval, errno, history>>

Wake(p) ==
  /\ pc[p] = "idle" /\ p \in Others
  /\ fux' = Desired
  /\ Goto(p, "wake")
  /\ UNCHANGED <<wval, errno, history>>

UnlockForce(p) ==
  /\ pc[p] = "idle" /\ p \in Others /\ forces < MaxForces
  /\ fux' = FORCE
  /\ forced' = {r \in Procs : Blocked(r)} /\ forces' = forces + 1
  /\ Goto(p, "wake")
  /\ UNCHANGED <<wval, errno>>

\* Mutant of FutexWake: nobody is woken unless the word was forced.
FutexWakeOnForce(p) ==
  /\ pc[p] = "wake"
  /\ pc' = [r \in Procs |-> IF r = p THEN "idle"
                            ELSE IF pc[r] = "asleep" /\ fux = FORCE THEN Again(r) ELSE pc[r]]
  /\ UNCHANGED <<fux, wval, errno, history>>

\* ... and FUTEX_WAKE for every sleeper.
FutexWake(p) ==
  /\ pc[p] = "wake"
  /\ pc' = [r \in Procs |-> IF r = p THEN "idle"
                            ELSE IF pc[r] = "asleep" THEN Again(r) ELSE pc[r]]
  /\ UNCHANGED <<fux, wval, errno, history>>

\* What a process goes on doing inside a call; the fair part.
Inside(p) == \/ SpinTry(p) \/ SpinCheck(p) \/ Try(p) \/ Check(p)
             \/ SpinLoad(p) \/ SpinWaitCheck(p) \/ Load(p) \/ WaitCheck(p)
             \/ FutexWait(p) \/ FutexWake(p)

Next == \E p \in Procs : \/ Lock(p) \/ Wait(p) \/ Unlock(p) \/ Wake(p)
                         \/ UnlockForce(p) \/ Signal(p) \/ Inside(p)

Spec == Init /\ [][Next]_vars

\* Calls that were made are scheduled.  Nobody need make a call, and a holder
\* need not unlock.  Spinning ends: at most 999999999 turns.
FairSpec == /\ Spec
            /\ \A p \in Procs : /\ WF_vars(Inside(p))
                                /\ SF_vars(SpinCheck(p) /\ pc'[p] = "try")
                                /\ SF_vars(SpinWaitCheck(p) /\ pc'[p] = "load")

-----------------------------------------------------------------------------
(* Properties.                                                             *)

\* At most one process is between its udo_futex_lock and its udo_futex_unlock,
\* with forced unlocks of the word at any moment in between.
MutualExclusion ==
  /\ \A p, r \in Lockers : pc[p] = "held" /\ pc[r] = "held" => p = r
  /\ fux = UNLOCK => \A p \in Lockers : pc[p] # "held"

\* No wakeup is lost: a process of udo_futex_lock sleeps only while the word is
\* locked, one of udo_futex_wait only while it does not hold the value wanted,
\* or else a FUTEX_WAKE that will wake it is on its way.
NoLostWakeup ==
  \A p \in Procs : pc[p] = "asleep" => \/ p \in Lockers /\ fux = LOCK
                                       \/ p \in Waiters /\ fux # Desired
                                       \/ \E r \in Procs : pc[r] = "wake"

\* The lock with its spinning, sleeping and waking implements ForceLock.
Status(label) == IF label \in LockPCs \cup WaitPCs THEN "blocked"
                 ELSE IF label = "held" THEN "held" ELSE "idle"
StatusOf == [p \in Procs |-> Status(pc[p])]

Abstract == INSTANCE ForceLock WITH word <- fux, state <- StatusOf
AbstractSpec == Abstract!Spec

\* futex.h of udo_futex_lock: "Sets errno to EINTR if a call to
\* udo_futex_unlock_force() is made", which is all its callers can test: a
\* process that got the lock does not find EINTR.
ErrnoTellsForce ==
  [][\A p \in Lockers : Blocked(p) /\ pc'[p] = "held" => errno'[p] # "EINTR"]_vars

\* futex.h of udo_futex_unlock_force: "if a process/thread is waiting on the
\* lock. Process/thread will exit setting errno to EINTR".
ForcedExit ==
  [][\A p \in forced : ~ Blocked(p)' => errno'[p] = "EINTR"]_vars

\* The same sentence for udo_futex_wait, and for a force that lasts: a waiting
\* process leaves.  (The code loads the word twice; the first value may be that
\* of an earlier force, and the second one that of neither.)
ForceReachesWaiters ==
  \A p \in Waiters : (Blocked(p) /\ fux = FORCE) ~> (~ Blocked(p) \/ fux # FORCE)
=============================================================================
