--------------------------- MODULE FutexProofs ---------------------------
(***************************************************************************)
(* udo_futex_lock and its relatives, for any number of processes: mutual   *)
(* exclusion, no lost wakeup, and every step a step of ForceLock.          *)
(***************************************************************************)
EXTENDS Futex, TLAPS

\* A locker sleeps, if at all, on the value LOCK; a waiter never on the value
\* that it waits for.  Only they call FUTEX_WAIT, each from its own loop.
SleepInv == \A p \in Procs :
  /\ pc[p] \in {"wait", "asleep"} => p \in Lockers \cup Waiters
  /\ pc[p] \in {"wait", "asleep"} /\ p \in Lockers => wval[p] = LOCK
  /\ pc[p] \in {"waitCheck", "wait", "asleep"} /\ p \in Waiters => wval[p] # Desired
  /\ pc[p] \in {"held", "spinTry", "spinCheck", "try", "check"} => p \in Lockers
  /\ pc[p] \in {"spinLoad", "spinWaitCheck", "load", "waitCheck"} => p \in Waiters

Inv == TypeOK /\ SleepInv /\ MutualExclusion /\ NoLostWakeup

\* What the assumptions say of the constants.
LEMMA Roles == /\ Creator \in Lockers
               /\ Lockers \cap (Waiters \cup Others) = {}
               /\ Waiters \cap Others = {}
               /\ Desired \notin {0, 1, 2} /\ Desired \in Nat /\ MaxForces \in Nat
  BY RolesAssumption, DesiredAssumption, MaxForcesAssumption

\* A new futex satisfies the invariant.
LEMMA InvInit == Init => Inv
<1> SUFFICES ASSUME Init PROVE Inv
  OBVIOUS
<1>1. TypeOK
  BY Roles DEF Init, TypeOK, Words, Procs
<1>2. \A p \in Procs : pc[p] = IF p = Creator THEN "held" ELSE "idle"
  BY DEF Init
<1>3. SleepInv
  BY <1>2, Roles DEF SleepInv
<1>4. MutualExclusion
  <2>1. fux # UNLOCK
    BY DEF Init, UNLOCK, LOCK
  <2>2. \A p \in Procs : pc[p] = "held" => p = Creator
    BY <1>2
  <2> QED
    BY <2>1, <2>2 DEF MutualExclusion, Procs
<1>5. NoLostWakeup
  BY <1>2 DEF NoLostWakeup
<1> QED
  BY <1>1, <1>3, <1>4, <1>5 DEF Inv

\* Every step of a process keeps it.
LEMMA InvNext == Inv /\ [Next]_vars => Inv'
<1> SUFFICES ASSUME Inv, [Next]_vars PROVE Inv'
  OBVIOUS
<1> USE Roles DEF Inv, UNLOCK, LOCK, FORCE, Procs, Goto, SetErrno, Unblock, Again, Got,
        ReturnForced, ReturnDesired, history
<1>1. ASSUME NEW p \in Procs, Lock(p) PROVE Inv'
  <2>1. TypeOK'
    BY <1>1 DEF Lock, TypeOK, Words, LockPCs, WaitPCs, Blocked
  <2>2. SleepInv'
    BY <1>1 DEF Lock, TypeOK, SleepInv
  <2>3. MutualExclusion'
    BY <1>1 DEF Lock, TypeOK, MutualExclusion, SleepInv
  <2>4. NoLostWakeup'
    BY <1>1 DEF Lock, TypeOK, NoLostWakeup, SleepInv
  <2> QED
    BY <2>1, <2>2, <2>3, <2>4
<1>2. ASSUME NEW p \in Procs, Wait(p) PROVE Inv'
  <2>1. TypeOK'
    BY <1>2 DEF Wait, TypeOK, Words, LockPCs, WaitPCs, Blocked
  <2>2. SleepInv'
    BY <1>2 DEF Wait, TypeOK, SleepInv
  <2>3. MutualExclusion'
    BY <1>2 DEF Wait, TypeOK, MutualExclusion, SleepInv
  <2>4. NoLostWakeup'
    BY <1>2 DEF Wait, TypeOK, NoLostWakeup, SleepInv
  <2> QED
    BY <2>1, <2>2, <2>3, <2>4
<1>3. ASSUME NEW p \in Procs, Unlock(p) PROVE Inv'
  <2>1. TypeOK'
    BY <1>3 DEF Unlock, TypeOK, Words, LockPCs, WaitPCs, Blocked
  <2>2. SleepInv'
    BY <1>3 DEF Unlock, TypeOK, SleepInv
  <2>3. MutualExclusion'
    BY <1>3 DEF Unlock, TypeOK, MutualExclusion, SleepInv
  <2>4. NoLostWakeup'
    BY <1>3 DEF Unlock, TypeOK, NoLostWakeup, SleepInv
  <2> QED
    BY <2>1, <2>2, <2>3, <2>4
<1>4. ASSUME NEW p \in Procs, Wake(p) PROVE Inv'
  <2>1. TypeOK'
    BY <1>4 DEF Wake, TypeOK, Words, LockPCs, WaitPCs, Blocked
  <2>2. SleepInv'
    BY <1>4 DEF Wake, TypeOK, SleepInv
  <2>3. MutualExclusion'
    BY <1>4 DEF Wake, TypeOK, MutualExclusion, SleepInv
  <2>4. NoLostWakeup'
    BY <1>4 DEF Wake, TypeOK, NoLostWakeup, SleepInv
  <2> QED
    BY <2>1, <2>2, <2>3, <2>4
<1>5. ASSUME NEW p \in Procs, UnlockForce(p) PROVE Inv'
  <2>1. TypeOK'
    BY <1>5 DEF UnlockForce, TypeOK, Words, LockPCs, WaitPCs, Blocked
  <2>2. SleepInv'
    BY <1>5 DEF UnlockForce, TypeOK, SleepInv
  <2>3. MutualExclusion'
    BY <1>5 DEF UnlockForce, TypeOK, MutualExclusion, SleepInv
  <2>4. NoLostWakeup'
    BY <1>5 DEF UnlockForce, TypeOK, NoLostWakeup, SleepInv
  <2> QED
    BY <2>1, <2>2, <2>3, <2>4
<1>6. ASSUME NEW p \in Procs, Signal(p) PROVE Inv'
  <2>1. TypeOK'
    BY <1>6 DEF Signal, TypeOK, Words, LockPCs, WaitPCs, Blocked
  <2>2. SleepInv'
    BY <1>6 DEF Signal, TypeOK, SleepInv
  <2>3. MutualExclusion'
    BY <1>6 DEF Signal, TypeOK, MutualExclusion, SleepInv
  <2>4. NoLostWakeup'
    BY <1>6 DEF Signal, TypeOK, NoLostWakeup, SleepInv
  <2> QED
    BY <2>1, <2>2, <2>3, <2>4
<1>7. ASSUME NEW p \in Procs, SpinTry(p) PROVE Inv'
  <2>1. TypeOK'
    BY <1>7 DEF SpinTry, TypeOK, Words, LockPCs, WaitPCs, Blocked
  <2>2. SleepInv'
    BY <1>7 DEF SpinTry, TypeOK, SleepInv
  <2>3. MutualExclusion'
    BY <1>7 DEF SpinTry, TypeOK, MutualExclusion, SleepInv
  <2>4. NoLostWakeup'
    BY <1>7 DEF SpinTry, TypeOK, NoLostWakeup, SleepInv
  <2> QED
    BY <2>1, <2>2, <2>3, <2>4
<1>8. ASSUME NEW p \in Procs, SpinCheck(p) PROVE Inv'
  <2>1. TypeOK'
    BY <1>8 DEF SpinCheck, TypeOK, Words, LockPCs, WaitPCs, Blocked
  <2>2. SleepInv'
    BY <1>8 DEF SpinCheck, TypeOK, SleepInv
  <2>3. MutualExclusion'
    BY <1>8 DEF SpinCheck, TypeOK, MutualExclusion, SleepInv
  <2>4. NoLostWakeup'
    BY <1>8 DEF SpinCheck, TypeOK, NoLostWakeup, SleepInv
  <2> QED
    BY <2>1, <2>2, <2>3, <2>4
<1>9. ASSUME NEW p \in Procs, Try(p) PROVE Inv'
  <2>1. TypeOK'
    BY <1>9 DEF Try, TypeOK, Words, LockPCs, WaitPCs, Blocked
  <2>2. SleepInv'
    BY <1>9 DEF Try, TypeOK, SleepInv
  <2>3. MutualExclusion'
    BY <1>9 DEF Try, TypeOK, MutualExclusion, SleepInv
  <2>4. NoLostWakeup'
    BY <1>9 DEF Try, TypeOK, NoLostWakeup, SleepInv
  <2> QED
    BY <2>1, <2>2, <2>3, <2>4
<1>10. ASSUME NEW p \in Procs, Check(p) PROVE Inv'
  <2>1. TypeOK'
    BY <1>10 DEF Check, TypeOK, Words, LockPCs, WaitPCs, Blocked
  <2>2. SleepInv'
    BY <1>10 DEF Check, TypeOK, SleepInv
  <2>3. MutualExclusion'
    BY <1>10 DEF Check, TypeOK, MutualExclusion, SleepInv
  <2>4. NoLostWakeup'
    BY <1>10 DEF Check, TypeOK, NoLostWakeup, SleepInv
  <2> QED
    BY <2>1, <2>2, <2>3, <2>4
<1>11. ASSUME NEW p \in Procs, SpinLoad(p) PROVE Inv'
  <2>1. TypeOK'
    BY <1>11 DEF SpinLoad, TypeOK, Words, LockPCs, WaitPCs, Blocked
  <2>2. SleepInv'
    BY <1>11 DEF SpinLoad, TypeOK, SleepInv
  <2>3. MutualExclusion'
    BY <1>11 DEF SpinLoad, TypeOK, MutualExclusion, SleepInv
  <2>4. NoLostWakeup'
    BY <1>11 DEF SpinLoad, TypeOK, NoLostWakeup, SleepInv
  <2> QED
    BY <2>1, <2>2, <2>3, <2>4
<1>12. ASSUME NEW p \in Procs, SpinWaitCheck(p) PROVE Inv'
  <2>1. TypeOK'
    BY <1>12 DEF SpinWaitCheck, TypeOK, Words, LockPCs, WaitPCs, Blocked
  <2>2. SleepInv'
    BY <1>12 DEF SpinWaitCheck, TypeOK, SleepInv
  <2>3. MutualExclusion'
    BY <1>12 DEF SpinWaitCheck, TypeOK, MutualExclusion, SleepInv
  <2>4. NoLostWakeup'
    BY <1>12 DEF SpinWaitCheck, TypeOK, NoLostWakeup, SleepInv
  <2> QED
    BY <2>1, <2>2, <2>3, <2>4
<1>13. ASSUME NEW p \in Procs, Load(p) PROVE Inv'
  <2>1. TypeOK'
    BY <1>13 DEF Load, TypeOK, Words, LockPCs, WaitPCs, Blocked
  <2>2. SleepInv'
    BY <1>13 DEF Load, TypeOK, SleepInv
  <2>3. MutualExclusion'
    BY <1>13 DEF Load, TypeOK, MutualExclusion, SleepInv
  <2>4. NoLostWakeup'
    BY <1>13 DEF Load, TypeOK, NoLostWakeup, SleepInv
  <2> QED
    BY <2>1, <2>2, <2>3, <2>4
<1>14. ASSUME NEW p \in Procs, WaitCheck(p) PROVE Inv'
  <2>1. TypeOK'
    BY <1>14 DEF WaitCheck, TypeOK, Words, LockPCs, WaitPCs, Blocked
  <2>2. SleepInv'
    BY <1>14 DEF WaitCheck, TypeOK, SleepInv
  <2>3. MutualExclusion'
    BY <1>14 DEF WaitCheck, TypeOK, MutualExclusion, SleepInv
  <2>4. NoLostWakeup'
    BY <1>14 DEF WaitCheck, TypeOK, NoLostWakeup, SleepInv
  <2> QED
    BY <2>1, <2>2, <2>3, <2>4
<1>15. ASSUME NEW p \in Procs, FutexWait(p) PROVE Inv'
  <2>1. TypeOK'
    BY <1>15 DEF FutexWait, TypeOK, Words, LockPCs, WaitPCs, Blocked
  <2>2. SleepInv'
    BY <1>15 DEF FutexWait, TypeOK, SleepInv
  <2>3. MutualExclusion'
    BY <1>15 DEF FutexWait, TypeOK, MutualExclusion, SleepInv
  <2>4. NoLostWakeup'
    BY <1>15 DEF FutexWait, TypeOK, NoLostWakeup, SleepInv
  <2> QED
    BY <2>1, <2>2, <2>3, <2>4
<1>16. ASSUME NEW p \in Procs, FutexWake(p) PROVE Inv'
  <2>1. TypeOK'
    BY <1>16 DEF FutexWake, TypeOK, Words, LockPCs, WaitPCs, Blocked
  <2>2. SleepInv'
    BY <1>16 DEF FutexWake, TypeOK, SleepInv
  <2>3. MutualExclusion'
    BY <1>16 DEF FutexWake, TypeOK, MutualExclusion, SleepInv
  <2>4. NoLostWakeup'
    BY <1>16 DEF FutexWake, TypeOK, NoLostWakeup, SleepInv
  <2> QED
    BY <2>1, <2>2, <2>3, <2>4
<1>17. CASE UNCHANGED vars
  BY <1>17 DEF vars, TypeOK, SleepInv, MutualExclusion, NoLostWakeup
<1> QED
  BY <1>1, <1>2, <1>3, <1>4, <1>5, <1>6, <1>7, <1>8, <1>9, <1>10, <1>11, <1>12, <1>13, <1>14, <1>15, <1>16, <1>17 DEF Next, Inside

\* So it holds in every reachable state.
LEMMA InvAlways == Spec => []Inv
  BY InvInit, InvNext, PTL DEF Spec

\* At most one process holds the lock, for any number of processes and
\* whenever forced unlocks and other stores hit the word.
THEOREM LockExcludes == Spec => []MutualExclusion
<1>1. Inv => MutualExclusion
  BY DEF Inv
<1> QED
  BY <1>1, InvAlways, PTL

\* No sleeper is left behind by a change of the word that concerns it.
THEOREM WakeupsArrive == Spec => []NoLostWakeup
<1>1. Inv => NoLostWakeup
  BY DEF Inv
<1> QED
  BY <1>1, InvAlways, PTL

\* A step of one process changes the status of that process only ...
LEMMA StatusStep ==
  ASSUME NEW S, pc \in [Procs -> S], NEW p \in Procs, NEW label,
         pc' = [pc EXCEPT ![p] = label]
  PROVE  StatusOf' = [StatusOf EXCEPT ![p] = Status(label)]
  BY DEF StatusOf

\* ... and a step between two places inside a call changes none.
LEMMA StatusStays ==
  ASSUME NEW S, pc \in [Procs -> S], NEW p \in Procs,
         pc[p] \in LockPCs \cup WaitPCs, NEW label \in LockPCs \cup WaitPCs,
         pc' = [pc EXCEPT ![p] = label], UNCHANGED fux
  PROVE  UNCHANGED <<fux, StatusOf>>
  BY DEF StatusOf, Status

\* What the word and the processes do, spinning and sleeping hidden, is what
\* ForceLock allows (its safety part; the fairness is TLC's to check).
THEOREM ImplementsForceLock == Spec => Abstract!Init /\ [][Abstract!Next]_(Abstract!vars)
<1> USE Roles DEF UNLOCK, LOCK, FORCE, Procs, Abstract!UNLOCK, Abstract!LOCK, Abstract!FORCE,
        Abstract!Procs, Abstract!vars
<1>1. Init => Abstract!Init
  BY DEF Init, Abstract!Init, StatusOf, Status, LockPCs, WaitPCs
<1>2. Inv /\ [Next]_vars => [Abstract!Next]_(Abstract!vars)
  <2> SUFFICES ASSUME Inv, [Next]_vars PROVE [Abstract!Next]_(Abstract!vars)
    OBVIOUS
  <2> USE DEF Inv, Goto
  <2>0. pc \in [Procs -> {"idle", "held", "wake"} \cup LockPCs \cup WaitPCs]
    BY DEF TypeOK
  <2>1. ASSUME NEW p \in Procs, Lock(p) PROVE [Abstract!Next]_(Abstract!vars)
    <3>1. StatusOf[p] = "idle" /\ StatusOf' = [StatusOf EXCEPT ![p] = "blocked"]
      BY <2>0, <2>1, StatusStep DEF Lock, StatusOf, Status, LockPCs, WaitPCs
    <3>2. Abstract!Request(p)
      BY <2>1, <3>1 DEF Lock, Abstract!Request
    <3> QED
      BY <3>2 DEF Abstract!Next
  <2>2. ASSUME NEW p \in Procs, Wait(p) PROVE [Abstract!Next]_(Abstract!vars)
    <3>1. StatusOf[p] = "idle" /\ StatusOf' = [StatusOf EXCEPT ![p] = "blocked"]
      BY <2>0, <2>2, StatusStep DEF Wait, StatusOf, Status, LockPCs, WaitPCs
    <3>2. Abstract!Request(p)
      BY <2>2, <3>1 DEF Wait, Abstract!Request
    <3> QED
      BY <3>2 DEF Abstract!Next
  <2>3. ASSUME NEW p \in Procs, Unlock(p) PROVE [Abstract!Next]_(Abstract!vars)
    <3>1. StatusOf[p] = "held" /\ StatusOf' = [StatusOf EXCEPT ![p] = "idle"]
      BY <2>0, <2>3, StatusStep DEF Unlock, StatusOf, Status, LockPCs, WaitPCs
    <3>2. Abstract!Release(p)
      BY <2>3, <3>1 DEF Unlock, Abstract!Release
    <3> QED
      BY <3>2 DEF Abstract!Next
  <2>4. ASSUME NEW p \in Procs, Wake(p) PROVE [Abstract!Next]_(Abstract!vars)
    <3>1. StatusOf' = StatusOf
      BY <2>0, <2>4 DEF Wake, StatusOf, Status, LockPCs, WaitPCs
    <3> QED
      BY <2>4, <3>1 DEF Wake, Abstract!Next, Abstract!Store
  <2>5. ASSUME NEW p \in Procs, UnlockForce(p) PROVE [Abstract!Next]_(Abstract!vars)
    <3>1. StatusOf' = StatusOf
      BY <2>0, <2>5 DEF UnlockForce, StatusOf, Status, LockPCs, WaitPCs
    <3> QED
      BY <2>5, <3>1 DEF UnlockForce, Abstract!Next, Abstract!Store
  <2>6. ASSUME NEW p \in Procs, Signal(p) PROVE [Abstract!Next]_(Abstract!vars)
    BY <2>0, <2>6, StatusStays DEF Signal, Again, LockPCs, WaitPCs
  <2>7. ASSUME NEW p \in Procs, SpinTry(p) PROVE [Abstract!Next]_(Abstract!vars)
    <3>1. CASE Got(p)
      <4>1. StatusOf[p] = "blocked" /\ StatusOf' = [StatusOf EXCEPT ![p] = "held"]
        BY <2>0, <2>7, <3>1, StatusStep DEF SpinTry, Got, StatusOf, Status, LockPCs, WaitPCs
      <4>2. Abstract!Acquire(p)
        BY <2>7, <3>1, <4>1 DEF SpinTry, Got, Abstract!Acquire, SleepInv
      <4> QED
        BY <4>2 DEF Abstract!Next
    <3>2. CASE ~ Got(p)
      BY <2>0, <2>7, <3>2, StatusStays DEF SpinTry, LockPCs, WaitPCs
    <3> QED
      BY <3>1, <3>2
  <2>8. ASSUME NEW p \in Procs, SpinCheck(p) PROVE [Abstract!Next]_(Abstract!vars)
    <3>1. CASE ReturnForced(p)
      <4>1. StatusOf[p] = "blocked" /\ StatusOf' = [StatusOf EXCEPT ![p] = "idle"]
        BY <2>0, <2>8, <3>1, StatusStep DEF SpinCheck, ReturnForced, StatusOf, Status, LockPCs, WaitPCs
      <4>2. Abstract!ReturnForced(p)
        BY <2>8, <3>1, <4>1 DEF SpinCheck, ReturnForced, Abstract!ReturnForced
      <4> QED
        BY <4>2 DEF Abstract!Next
    <3>2. CASE ~ ReturnForced(p)
      BY <2>0, <2>8, <3>2, StatusStays DEF SpinCheck, LockPCs, WaitPCs
    <3> QED
      BY <3>1, <3>2
  <2>9. ASSUME NEW p \in Procs, Try(p) PROVE [Abstract!Next]_(Abstract!vars)
    <3>1. CASE Got(p)
      <4>1. StatusOf[p] = "blocked" /\ StatusOf' = [StatusOf EXCEPT ![p] = "held"]
        BY <2>0, <2>9, <3>1, StatusStep DEF Try, Got, StatusOf, Status, LockPCs, WaitPCs
      <4>2. Abstract!Acquire(p)
        BY <2>9, <3>1, <4>1 DEF Try, Got, Abstract!Acquire, SleepInv
      <4> QED
        BY <4>2 DEF Abstract!Next
    <3>2. CASE ~ Got(p)
      BY <2>0, <2>9, <3>2, StatusStays DEF Try, LockPCs, WaitPCs
    <3> QED
      BY <3>1, <3>2
  <2>10. ASSUME NEW p \in Procs, Check(p) PROVE [Abstract!Next]_(Abstract!vars)
    <3>1. CASE ReturnForced(p)
      <4>1. StatusOf[p] = "blocked" /\ StatusOf' = [StatusOf EXCEPT ![p] = "idle"]
        BY <2>0, <2>10, <3>1, StatusStep DEF Check, ReturnForced, StatusOf, Status, LockPCs, WaitPCs
      <4>2. Abstract!ReturnForced(p)
        BY <2>10, <3>1, <4>1 DEF Check, ReturnForced, Abstract!ReturnForced
      <4> QED
        BY <4>2 DEF Abstract!Next
    <3>2. CASE ~ ReturnForced(p)
      BY <2>0, <2>10, <3>2, StatusStays DEF Check, LockPCs, WaitPCs
    <3> QED
      BY <3>1, <3>2
  <2>11. ASSUME NEW p \in Procs, SpinLoad(p) PROVE [Abstract!Next]_(Abstract!vars)
    <3>1. CASE ReturnDesired(p)
      <4>1. StatusOf[p] = "blocked" /\ StatusOf' = [StatusOf EXCEPT ![p] = "idle"]
        BY <2>0, <2>11, <3>1, StatusStep DEF SpinLoad, ReturnDesired, StatusOf, Status, LockPCs, WaitPCs
      <4>2. Abstract!ReturnDesired(p)
        BY <2>11, <3>1, <4>1 DEF SpinLoad, ReturnDesired, Abstract!ReturnDesired, SleepInv
      <4> QED
        BY <4>2 DEF Abstract!Next
    <3>2. CASE ~ ReturnDesired(p)
      BY <2>0, <2>11, <3>2, StatusStays DEF SpinLoad, LockPCs, WaitPCs
    <3> QED
      BY <3>1, <3>2
  <2>12. ASSUME NEW p \in Procs, SpinWaitCheck(p) PROVE [Abstract!Next]_(Abstract!vars)
    <3>1. CASE ReturnForced(p)
      <4>1. StatusOf[p] = "blocked" /\ StatusOf' = [StatusOf EXCEPT ![p] = "idle"]
        BY <2>0, <2>12, <3>1, StatusStep DEF SpinWaitCheck, ReturnForced, StatusOf, Status, LockPCs, WaitPCs
      <4>2. Abstract!ReturnForced(p)
        BY <2>12, <3>1, <4>1 DEF SpinWaitCheck, ReturnForced, Abstract!ReturnForced
      <4> QED
        BY <4>2 DEF Abstract!Next
    <3>2. CASE ~ ReturnForced(p)
      BY <2>0, <2>12, <3>2, StatusStays DEF SpinWaitCheck, LockPCs, WaitPCs
    <3> QED
      BY <3>1, <3>2
  <2>13. ASSUME NEW p \in Procs, Load(p) PROVE [Abstract!Next]_(Abstract!vars)
    <3>1. CASE ReturnDesired(p)
      <4>1. StatusOf[p] = "blocked" /\ StatusOf' = [StatusOf EXCEPT ![p] = "idle"]
        BY <2>0, <2>13, <3>1, StatusStep DEF Load, ReturnDesired, StatusOf, Status, LockPCs, WaitPCs
      <4>2. Abstract!ReturnDesired(p)
        BY <2>13, <3>1, <4>1 DEF Load, ReturnDesired, Abstract!ReturnDesired, SleepInv
      <4> QED
        BY <4>2 DEF Abstract!Next
    <3>2. CASE ~ ReturnDesired(p)
      BY <2>0, <2>13, <3>2, StatusStays DEF Load, LockPCs, WaitPCs
    <3> QED
      BY <3>1, <3>2
  <2>14. ASSUME NEW p \in Procs, WaitCheck(p) PROVE [Abstract!Next]_(Abstract!vars)
    <3>1. CASE ReturnForced(p)
      <4>1. StatusOf[p] = "blocked" /\ StatusOf' = [StatusOf EXCEPT ![p] = "idle"]
        BY <2>0, <2>14, <3>1, StatusStep DEF WaitCheck, ReturnForced, StatusOf, Status, LockPCs, WaitPCs
      <4>2. Abstract!ReturnForced(p)
        BY <2>14, <3>1, <4>1 DEF WaitCheck, ReturnForced, Abstract!ReturnForced
      <4> QED
        BY <4>2 DEF Abstract!Next
    <3>2. CASE ~ ReturnForced(p)
      BY <2>0, <2>14, <3>2, StatusStays DEF WaitCheck, LockPCs, WaitPCs
    <3> QED
      BY <3>1, <3>2
  <2>15. ASSUME NEW p \in Procs, FutexWait(p) PROVE [Abstract!Next]_(Abstract!vars)
    BY <2>0, <2>15, StatusStays DEF FutexWait, Again, LockPCs, WaitPCs
  <2>16. ASSUME NEW p \in Procs, FutexWake(p) PROVE [Abstract!Next]_(Abstract!vars)
    BY <2>0, <2>16 DEF FutexWake, Again, StatusOf, Status, LockPCs, WaitPCs
  <2>17. CASE UNCHANGED vars
    BY <2>17 DEF vars, StatusOf
  <2> QED
    BY <2>1, <2>2, <2>3, <2>4, <2>5, <2>6, <2>7, <2>8, <2>9, <2>10, <2>11, <2>12, <2>13, <2>14, <2>15, <2>16, <2>17 DEF Next, Inside
<1> QED
  BY <1>1, <1>2, InvAlways, PTL DEF Spec

====
