------------------------- MODULE JobPoolProofs -------------------------
(***************************************************************************)
(* Proofs about JobPool, for every number of threads and jobs and every    *)
(* queue of at least one record.  In four layers:                          *)
(*                                                                         *)
(*   BoundsInv  add_job passes p_queue_full, or an emptied queue, before   *)
(*              it fills a record: its writes stay in bounds.              *)
(*   CallerInv  the program's thread: the round-robin word follows the     *)
(*              jobs, destroy forces each queue once, when it is empty.    *)
(*   OnceInv    a job is in one record, then with one worker, then it has  *)
(*              run: it runs once, early takes or not.                     *)
(*   DrainInv   while every take has found a complete record, the records  *)
(*              between front and rear are the jobs to be run, in order,   *)
(*              and job_count counts them; so the workers stay in bounds   *)
(*              too.  The first early take ends it.                        *)
(***************************************************************************)
EXTENDS JobPool, Integers, TLAPS

\* A call of add_job is in progress and has not counted its job yet.
InCallAdd == \/ pc \in {"full", "addRear", "fill"}
             \/ pc \in WaitPCs /\ cont = "add"

\* Then there is a job.
AddingInv == InCallAdd => added > 0

\* The thread is stopped only by destroy.
StoppingInv == pc \in {"force", "forceWake", "forceWakeCond", "join"} => cont = "destroy"

\* A worker that calls has found a function, in a record of its queue.
CallingInv == \A t \in Threads :
  /\ wpc[t] \in {"arg", "run"} => wfunc[t] # NULL
  /\ wpc[t] \in {"arg", "run", "clear"} => InQueue(wslot[t])

\* There is room for the record that add_job is going to fill.
RoomInv == /\ pc = "addRear" => InQueue(rear[q])
           /\ pc = "fill" => InQueue(cslot)

BoundsInv == TypeOK /\ AddingInv /\ StoppingInv /\ CallingInv /\ RoomInv

\* What the assumptions say of the constants.
LEMMA ConstantFacts == /\ ThreadCount \in Nat \ {0} /\ MaxJobs \in Nat \ {0}
                       /\ Wrap \in Nat /\ Wrap > MaxJobs + 1
                       /\ QueueSize \in Nat /\ QueueSize >= 16
                       /\ 0 \in Threads
  BY ThreadCountAssumption, MaxJobsAssumption, WrapAssumption, QueueSizeAssumption DEF Threads

\* The round-robin index names a thread.
LEMMA ModType == ASSUME NEW a \in Nat PROVE a % ThreadCount \in Threads
  BY ThreadCountAssumption DEF Threads

\* A record inside the data area is one of the modelled slots.
LEMMA InQueueSlot == ASSUME NEW s \in Nat, InQueue(s) PROVE s \in Slots
  BY QueueSizeAssumption DEF InQueue, Slots, JobSize

\* Steps that leave a group of variables alone keep what is said of it.
LEMMA FrameTypeShared == TypeShared /\ UNCHANGED shared => TypeShared'
  BY DEF TypeShared, shared

\* What a step does not change keeps its part of the type invariant.
LEMMA FrameTypeWorkers == TypeWorkers /\ UNCHANGED worker => TypeWorkers'
  BY DEF TypeWorkers, worker

\* The same for the program's thread.
LEMMA FrameTypeCaller == TypeCaller /\ UNCHANGED caller => TypeCaller'
  BY DEF TypeCaller, caller

\* The same for the history.
LEMMA FrameTypeHistory == TypeHistory /\ UNCHANGED history => TypeHistory'
  BY DEF TypeHistory, history

\* What a step does not change keeps CallingInv.
LEMMA FrameCallingInv == CallingInv /\ UNCHANGED <<wpc, wfunc, wslot>> => CallingInv'
  BY DEF CallingInv

\* The same for AddingInv.
LEMMA FrameAddingInv == AddingInv /\ UNCHANGED <<pc, cont, added>> => AddingInv'
  BY DEF AddingInv, InCallAdd

\* The same for StoppingInv.
LEMMA FrameStoppingInv == StoppingInv /\ UNCHANGED <<pc, cont>> => StoppingInv'
  BY DEF StoppingInv

\* The same for RoomInv.
LEMMA FrameRoomInv == RoomInv /\ UNCHANGED <<pc, q, rear, cslot>> => RoomInv'
  BY DEF RoomInv

\* A pool that is being created satisfies the invariant.
LEMMA BoundsInit == Init => BoundsInv
<1> SUFFICES ASSUME Init PROVE BoundsInv
  OBVIOUS
<1> USE ConstantFacts DEF Init, NULL
<1>1. TypeShared
  BY DEF TypeShared, Jobs, NoJob
<1>2. TypeWorkers
  BY DEF TypeWorkers, WorkerPCs
<1>3. TypeCaller
  BY DEF TypeCaller, CallerPCs
<1>4. TypeHistory
  <2>1. added \in 0 .. MaxJobs
    OBVIOUS
  <2>2. ran \subseteq Jobs \X (Jobs \cup {NULL})
    BY DEF Init
  <2>3. early \in BOOLEAN
    BY DEF Init
  <2> QED
    BY <2>1, <2>2, <2>3 DEF TypeHistory
<1>5. AddingInv /\ StoppingInv /\ CallingInv /\ RoomInv
  BY DEF AddingInv, StoppingInv, InCallAdd, WaitPCs, ResetPCs, CallingInv, RoomInv
<1> QED
  BY <1>1, <1>2, <1>3, <1>4, <1>5 DEF BoundsInv, TypeOK

\* Every step of a worker and of the caller keeps it.
LEMMA BoundsNext == BoundsInv /\ [Next]_vars => BoundsInv'
<1> SUFFICES ASSUME BoundsInv, [Next]_vars PROVE BoundsInv'
  OBVIOUS
<1> USE ConstantFacts DEF BoundsInv, TypeOK
<1>1. ASSUME NEW t \in Threads, CanLoop(t) PROVE BoundsInv'
  <2>1. TypeWorkers'
    BY <1>1 DEF CanLoop, TypeShared, TypeWorkers, WorkerPCs, Goto, WakeQ, Locals
  <2>2. CallingInv'
    BY <1>1 DEF CanLoop, TypeShared, TypeWorkers, CallingInv, Goto, WakeQ, Locals, NULL
  <2> QED
    BY <1>1, <2>1, <2>2, FrameTypeShared, FrameTypeCaller, FrameTypeHistory, FrameAddingInv, FrameStoppingInv, FrameRoomInv DEF CanLoop, shared, worker, caller, history, Locals
<1>2. ASSUME NEW t \in Threads, LoadRear(t) PROVE BoundsInv'
  <2>1. TypeWorkers'
    BY <1>2 DEF LoadRear, TypeShared, TypeWorkers, WorkerPCs, Goto, WakeQ, Locals
  <2>2. CallingInv'
    BY <1>2 DEF LoadRear, TypeShared, TypeWorkers, CallingInv, Goto, WakeQ, Locals, NULL
  <2> QED
    BY <1>2, <2>1, <2>2, FrameTypeShared, FrameTypeCaller, FrameTypeHistory, FrameAddingInv, FrameStoppingInv, FrameRoomInv DEF LoadRear, shared, worker, caller, history, Locals
<1>3. ASSUME NEW t \in Threads, LoadFront(t) PROVE BoundsInv'
  <2>1. TypeWorkers'
    BY <1>3 DEF LoadFront, TypeShared, TypeWorkers, WorkerPCs, Goto, WakeQ, Locals
  <2>2. CallingInv'
    BY <1>3 DEF LoadFront, TypeShared, TypeWorkers, CallingInv, Goto, WakeQ, Locals, NULL
  <2> QED
    BY <1>3, <2>1, <2>2, FrameTypeShared, FrameTypeCaller, FrameTypeHistory, FrameAddingInv, FrameStoppingInv, FrameRoomInv DEF LoadFront, shared, worker, caller, history, Locals
<1>4. ASSUME NEW t \in Threads, CheckForce(t) PROVE BoundsInv'
  <2>1. TypeWorkers'
    BY <1>4 DEF CheckForce, TypeShared, TypeWorkers, WorkerPCs, Goto, WakeQ, Locals
  <2>2. CallingInv'
    BY <1>4 DEF CheckForce, TypeShared, TypeWorkers, CallingInv, Goto, WakeQ, Locals, NULL
  <2> QED
    BY <1>4, <2>1, <2>2, FrameTypeShared, FrameTypeCaller, FrameTypeHistory, FrameAddingInv, FrameStoppingInv, FrameRoomInv DEF CheckForce, shared, worker, caller, history, Locals
<1>5. ASSUME NEW t \in Threads, LoadValue(t) PROVE BoundsInv'
  <2>1. TypeWorkers'
    BY <1>5 DEF LoadValue, TypeShared, TypeWorkers, WorkerPCs, Goto, WakeQ, Locals
  <2>2. CallingInv'
    BY <1>5 DEF LoadValue, TypeShared, TypeWorkers, CallingInv, Goto, WakeQ, Locals, NULL
  <2> QED
    BY <1>5, <2>1, <2>2, FrameTypeShared, FrameTypeCaller, FrameTypeHistory, FrameAddingInv, FrameStoppingInv, FrameRoomInv DEF LoadValue, shared, worker, caller, history, Locals
<1>6. ASSUME NEW t \in Threads, FutexWait(t) PROVE BoundsInv'
  <2>1. TypeWorkers'
    BY <1>6 DEF FutexWait, TypeShared, TypeWorkers, WorkerPCs, Goto, WakeQ, Locals
  <2>2. CallingInv'
    BY <1>6 DEF FutexWait, TypeShared, TypeWorkers, CallingInv, Goto, WakeQ, Locals, NULL
  <2> QED
    BY <1>6, <2>1, <2>2, FrameTypeShared, FrameTypeCaller, FrameTypeHistory, FrameAddingInv, FrameStoppingInv, FrameRoomInv DEF FutexWait, shared, worker, caller, history, Locals
<1>7. ASSUME NEW t \in Threads, Interrupted(t) PROVE BoundsInv'
  <2>1. TypeWorkers'
    BY <1>7 DEF Interrupted, TypeShared, TypeWorkers, WorkerPCs, Goto, WakeQ, Locals
  <2>2. CallingInv'
    BY <1>7 DEF Interrupted, TypeShared, TypeWorkers, CallingInv, Goto, WakeQ, Locals, NULL
  <2> QED
    BY <1>7, <2>1, <2>2, FrameTypeShared, FrameTypeCaller, FrameTypeHistory, FrameAddingInv, FrameStoppingInv, FrameRoomInv DEF Interrupted, shared, worker, caller, history, Locals
<1>8. ASSUME NEW t \in Threads, Take(t) PROVE BoundsInv'
  <2>1. TypeShared'
    BY <1>8 DEF Take, TypeShared, Jobs, NULL, FORCE
  <2>2. TypeWorkers'
    BY <1>8 DEF Take, TypeShared, TypeWorkers, WorkerPCs, Goto, WakeQ, Locals
  <2>3. TypeHistory'
    BY <1>8 DEF Take, TypeHistory, TypeWorkers, CallingInv
  <2>4. CallingInv'
    BY <1>8 DEF Take, TypeShared, TypeWorkers, CallingInv, Goto, WakeQ, Locals, NULL
  <2> QED
    BY <1>8, <2>1, <2>2, <2>3, <2>4, FrameTypeCaller, FrameAddingInv, FrameStoppingInv, FrameRoomInv DEF Take, shared, worker, caller, history, Locals
<1>9. ASSUME NEW t \in Threads, LoadFunc(t) PROVE BoundsInv'
  <2>1. TypeWorkers'
    <3>1. CASE ~ InQueue(wslot[t])
      BY <1>9, <3>1 DEF LoadFunc, TypeWorkers, WorkerPCs, Goto
    <3>2. CASE InQueue(wslot[t])
      <4>1. wslot[t] \in Slots
        BY <3>2, InQueueSlot DEF TypeWorkers
      <4>2. mem[t][wslot[t]]["func"] \in Jobs \cup {NULL}
        BY <4>1 DEF TypeShared, Fields
      <4> QED
        BY <1>9, <3>2, <4>2 DEF LoadFunc, TypeWorkers, WorkerPCs, Goto
    <3> QED
      BY <3>1, <3>2
  <2>2. CallingInv'
    BY <1>9 DEF LoadFunc, TypeShared, TypeWorkers, CallingInv, Goto, WakeQ, Locals, NULL, InQueue
  <2> QED
    BY <1>9, <2>1, <2>2, FrameTypeShared, FrameTypeCaller, FrameTypeHistory, FrameAddingInv, FrameStoppingInv, FrameRoomInv DEF LoadFunc, shared, worker, caller, history, Locals
<1>10. ASSUME NEW t \in Threads, LoadArg(t) PROVE BoundsInv'
  <2>1. TypeWorkers'
    <3>1. wslot[t] \in Slots
      BY <1>10, InQueueSlot DEF LoadArg, TypeWorkers, CallingInv
    <3>2. mem[t][wslot[t]]["arg"] \in Jobs \cup {NULL}
      BY <3>1 DEF TypeShared, Fields
    <3> QED
      BY <1>10, <3>2 DEF LoadArg, TypeWorkers, WorkerPCs, Goto
  <2>2. CallingInv'
    BY <1>10 DEF LoadArg, TypeShared, TypeWorkers, CallingInv, Goto, WakeQ, Locals, NULL
  <2> QED
    BY <1>10, <2>1, <2>2, FrameTypeShared, FrameTypeCaller, FrameTypeHistory, FrameAddingInv, FrameStoppingInv, FrameRoomInv DEF LoadArg, shared, worker, caller, history, Locals
<1>11. ASSUME NEW t \in Threads, Run(t) PROVE BoundsInv'
  <2>1. TypeWorkers'
    BY <1>11 DEF Run, TypeShared, TypeWorkers, WorkerPCs, Goto, WakeQ, Locals
  <2>2. CallingInv'
    BY <1>11 DEF Run, TypeShared, TypeWorkers, CallingInv, Goto, WakeQ, Locals, NULL
  <2>3. TypeHistory'
    BY <1>11 DEF Run, TypeHistory, TypeWorkers, CallingInv
  <2> QED
    BY <1>11, <2>1, <2>2, <2>3, FrameTypeShared, FrameTypeCaller, FrameAddingInv, FrameStoppingInv, FrameRoomInv DEF Run, shared, worker, caller, history, Locals
<1>12. ASSUME NEW t \in Threads, JobReset(t) PROVE BoundsInv'
  <2>1. TypeShared'
    <3>1. wslot[t] \in Slots
      BY <1>12, InQueueSlot DEF TypeWorkers, CallingInv, JobReset
    <3>2. PICK F \in (SUBSET wleft[t]) \ {{}} :
           mem' = [mem EXCEPT ![t][wslot[t]] =
                     [f \in Fields |-> IF f \in F THEN NULL ELSE mem[t][wslot[t]][f]]]
      BY <1>12 DEF JobReset
    <3>3. [f \in Fields |-> IF f \in F THEN NULL ELSE mem[t][wslot[t]][f]]
            \in [Fields -> Jobs \cup {NULL}]
      BY <3>1 DEF TypeShared
    <3>4. mem' \in [Threads -> [Slots -> [Fields -> Jobs \cup {NULL}]]]
      BY <3>1, <3>2, <3>3 DEF TypeShared
    <3> QED
      BY <1>12, <3>4 DEF JobReset, TypeShared
  <2>2. TypeWorkers'
    BY <1>12 DEF JobReset, TypeShared, TypeWorkers, WorkerPCs, Goto, WakeQ, Locals
  <2>3. CallingInv'
    BY <1>12 DEF JobReset, TypeShared, TypeWorkers, CallingInv, Goto, WakeQ, Locals, NULL
  <2> QED
    BY <1>12, <2>1, <2>2, <2>3, FrameTypeCaller, FrameTypeHistory, FrameAddingInv, FrameStoppingInv, FrameRoomInv DEF JobReset, shared, worker, caller, history, Locals
<1>13. ASSUME NEW t \in Threads, SubJobCount(t) PROVE BoundsInv'
  <2>1. TypeShared'
    BY <1>13 DEF SubJobCount, TypeShared, Jobs, NULL, FORCE, Dec
  <2>2. TypeWorkers'
    BY <1>13 DEF SubJobCount, TypeShared, TypeWorkers, WorkerPCs, Goto, WakeQ, Locals
  <2>3. CallingInv'
    BY <1>13 DEF SubJobCount, TypeShared, TypeWorkers, CallingInv, Goto, WakeQ, Locals, NULL
  <2> QED
    BY <1>13, <2>1, <2>2, <2>3, FrameTypeCaller, FrameTypeHistory, FrameAddingInv, FrameStoppingInv, FrameRoomInv DEF SubJobCount, shared, worker, caller, history, Locals
<1>14. CASE CreateNoMemory
  <2>1. TypeCaller'
    BY <1>14 DEF CreateNoMemory, TypeShared, TypeCaller, CallerPCs, WaitPCs, ResetPCs, Threads
  <2>2. AddingInv'
    BY <1>14 DEF CreateNoMemory, StoppingInv, TypeHistory, TypeCaller, AddingInv, InCallAdd, WaitPCs, ResetPCs, history
  <2>3. StoppingInv'
    BY <1>14 DEF CreateNoMemory, StoppingInv
  <2>4. RoomInv'
    BY <1>14 DEF CreateNoMemory, RoomInv, TypeShared, TypeCaller, InQueue, JobSize
  <2> QED
    BY <1>14, <2>1, <2>2, <2>3, <2>4, FrameTypeShared, FrameTypeWorkers, FrameTypeHistory, FrameCallingInv DEF CreateNoMemory, shared, worker, caller, history, Locals
<1>15. CASE CreateThread
  <2>1. TypeWorkers'
    BY <1>15 DEF CreateThread, TypeShared, TypeWorkers, WorkerPCs, Goto, WakeQ, Locals
  <2>2. CallingInv'
    BY <1>15 DEF CreateThread, TypeShared, TypeWorkers, CallingInv, Goto, WakeQ, Locals, NULL
  <2>3. TypeCaller'
    BY <1>15 DEF CreateThread, TypeShared, TypeCaller, CallerPCs, WaitPCs, ResetPCs, Threads
  <2>4. AddingInv'
    BY <1>15 DEF CreateThread, StoppingInv, TypeHistory, TypeCaller, AddingInv, InCallAdd, WaitPCs, ResetPCs, history
  <2>5. StoppingInv'
    BY <1>15 DEF CreateThread, StoppingInv
  <2>6. RoomInv'
    BY <1>15 DEF CreateThread, RoomInv, TypeShared, TypeCaller, InQueue, JobSize
  <2> QED
    BY <1>15, <2>1, <2>2, <2>3, <2>4, <2>5, <2>6, FrameTypeShared, FrameTypeHistory DEF CreateThread, shared, worker, caller, history, Locals
<1>16. CASE CreateFails
  <2>1. TypeCaller'
    BY <1>16 DEF CreateFails, TypeShared, TypeCaller, CallerPCs, WaitPCs, ResetPCs, Threads
  <2>2. AddingInv'
    BY <1>16 DEF CreateFails, StoppingInv, TypeHistory, TypeCaller, AddingInv, InCallAdd, WaitPCs, ResetPCs, history
  <2>3. StoppingInv'
    BY <1>16 DEF CreateFails, StoppingInv
  <2>4. RoomInv'
    BY <1>16 DEF CreateFails, RoomInv, TypeShared, TypeCaller, InQueue, JobSize
  <2> QED
    BY <1>16, <2>1, <2>2, <2>3, <2>4, FrameTypeShared, FrameTypeWorkers, FrameTypeHistory, FrameCallingInv DEF CreateFails, shared, worker, caller, history, Locals
<1>17. CASE AddJob
  <2>1. TypeShared'
    <3>1. cur + 1 \in Nat
      BY DEF TypeShared, Threads
    <3>2. (cur + 1) % ThreadCount \in Threads
      BY <3>1, ModType
    <3> QED
      BY <1>17, <3>2 DEF AddJob, TypeShared
  <2>2. TypeCaller'
    BY <1>17 DEF AddJob, TypeShared, TypeCaller, CallerPCs, WaitPCs, ResetPCs, Threads
  <2>3. AddingInv'
    BY <1>17 DEF AddJob, StoppingInv, TypeHistory, TypeCaller, AddingInv, InCallAdd, WaitPCs, ResetPCs, history
  <2>4. StoppingInv'
    BY <1>17 DEF AddJob, StoppingInv
  <2>5. TypeHistory'
    BY <1>17 DEF AddJob, TypeHistory, TypeWorkers, CallingInv
  <2>6. RoomInv'
    BY <1>17 DEF AddJob, RoomInv, TypeShared, TypeCaller, InQueue, JobSize
  <2> QED
    BY <1>17, <2>1, <2>2, <2>3, <2>4, <2>5, <2>6, FrameTypeWorkers, FrameCallingInv DEF AddJob, shared, worker, caller, history, Locals
<1>18. CASE CheckFull
  <2>1. TypeCaller'
    BY <1>18 DEF CheckFull, TypeShared, TypeCaller, CallerPCs, WaitPCs, ResetPCs, Threads
  <2>2. AddingInv'
    BY <1>18 DEF CheckFull, StoppingInv, TypeHistory, TypeCaller, AddingInv, InCallAdd, WaitPCs, ResetPCs, history
  <2>3. StoppingInv'
    BY <1>18 DEF CheckFull, StoppingInv
  <2>4. RoomInv'
    <3>1. ~ Full(q) => InQueue(rear[q])
      BY ConstantFacts DEF Full, InQueue, JobSize, TypeShared, TypeCaller
    <3> QED
      BY <1>18, <3>1 DEF CheckFull, RoomInv, shared
  <2> QED
    BY <1>18, <2>1, <2>2, <2>3, <2>4, FrameTypeShared, FrameTypeWorkers, FrameTypeHistory, FrameCallingInv DEF CheckFull, shared, worker, caller, history, Locals
<1>19. CASE AddRear
  <2>1. TypeShared'
    BY <1>19 DEF AddRear, TypeShared, Jobs, NULL, FORCE, TypeCaller
  <2>2. TypeCaller'
    BY <1>19 DEF AddRear, TypeShared, TypeCaller, CallerPCs, WaitPCs, ResetPCs, Threads
  <2>3. AddingInv'
    BY <1>19 DEF AddRear, StoppingInv, TypeHistory, TypeCaller, AddingInv, InCallAdd, WaitPCs, ResetPCs, history
  <2>4. StoppingInv'
    BY <1>19 DEF AddRear, StoppingInv
  <2>5. RoomInv'
    BY <1>19 DEF AddRear, RoomInv, TypeShared, TypeCaller, InQueue, JobSize
  <2> QED
    BY <1>19, <2>1, <2>2, <2>3, <2>4, <2>5, FrameTypeWorkers, FrameTypeHistory, FrameCallingInv DEF AddRear, shared, worker, caller, history, Locals
<1>20. CASE Fill
  <2>1. TypeShared'
    <3>1. q \in Threads /\ cslot \in Slots
      BY <1>20, InQueueSlot DEF Fill, RoomInv, TypeCaller
    <3>2. added \in Jobs
      BY <1>20 DEF Fill, AddingInv, InCallAdd, TypeHistory, Jobs
    <3>3. PICK F \in (SUBSET cleft) \ {{}} :
           mem' = [mem EXCEPT ![q][cslot] =
                     [f \in Fields |-> IF f \in F THEN added ELSE mem[q][cslot][f]]]
      BY <1>20 DEF Fill
    <3>4. [f \in Fields |-> IF f \in F THEN added ELSE mem[q][cslot][f]]
            \in [Fields -> Jobs \cup {NULL}]
      BY <3>1, <3>2 DEF TypeShared
    <3>5. mem' \in [Threads -> [Slots -> [Fields -> Jobs \cup {NULL}]]]
      BY <3>1, <3>3, <3>4 DEF TypeShared
    <3> QED
      BY <1>20, <3>5 DEF Fill, TypeShared
  <2>2. TypeCaller'
    BY <1>20 DEF Fill, TypeShared, TypeCaller, CallerPCs, WaitPCs, ResetPCs, Threads
  <2>3. AddingInv'
    BY <1>20 DEF Fill, StoppingInv, TypeHistory, TypeCaller, AddingInv, InCallAdd, WaitPCs, ResetPCs, history, AddingInv, InCallAdd, TypeHistory, TypeCaller
  <2>4. StoppingInv'
    BY <1>20 DEF Fill, StoppingInv
  <2>5. RoomInv'
    BY <1>20 DEF Fill, RoomInv, TypeShared, TypeCaller, InQueue, JobSize
  <2> QED
    BY <1>20, <2>1, <2>2, <2>3, <2>4, <2>5, FrameTypeWorkers, FrameTypeHistory, FrameCallingInv DEF Fill, shared, worker, caller, history, Locals
<1>21. CASE AddJobCount
  <2>1. TypeShared'
    <3>1. count[q] \in 0 .. Wrap - 1
      BY DEF TypeShared, TypeCaller
    <3>2. Inc(count[q]) \in 0 .. Wrap - 1
      BY <3>1, WrapAssumption DEF Inc
    <3> QED
      BY <1>21, <3>2 DEF AddJobCount, TypeShared, TypeCaller
  <2>2. TypeCaller'
    BY <1>21 DEF AddJobCount, TypeShared, TypeCaller, CallerPCs, WaitPCs, ResetPCs, Threads
  <2>3. AddingInv'
    BY <1>21 DEF AddJobCount, StoppingInv, TypeHistory, TypeCaller, AddingInv, InCallAdd, WaitPCs, ResetPCs, history
  <2>4. StoppingInv'
    BY <1>21 DEF AddJobCount, StoppingInv
  <2>5. RoomInv'
    BY <1>21 DEF AddJobCount, RoomInv, TypeShared, TypeCaller, InQueue, JobSize
  <2> QED
    BY <1>21, <2>1, <2>2, <2>3, <2>4, <2>5, FrameTypeWorkers, FrameTypeHistory, FrameCallingInv DEF AddJobCount, shared, worker, caller, history, Locals
<1>22. CASE AddWake
  <2>1. TypeWorkers'
    BY <1>22 DEF AddWake, TypeShared, TypeWorkers, WorkerPCs, Goto, WakeQ, Locals
  <2>2. CallingInv'
    BY <1>22 DEF AddWake, TypeShared, TypeWorkers, CallingInv, Goto, WakeQ, Locals, NULL
  <2>3. TypeCaller'
    BY <1>22 DEF AddWake, TypeShared, TypeCaller, CallerPCs, WaitPCs, ResetPCs, Threads
  <2>4. AddingInv'
    BY <1>22 DEF AddWake, StoppingInv, TypeHistory, TypeCaller, AddingInv, InCallAdd, WaitPCs, ResetPCs, history
  <2>5. StoppingInv'
    BY <1>22 DEF AddWake, StoppingInv
  <2>6. RoomInv'
    BY <1>22 DEF AddWake, RoomInv, TypeShared, TypeCaller, InQueue, JobSize
  <2> QED
    BY <1>22, <2>1, <2>2, <2>3, <2>4, <2>5, <2>6, FrameTypeShared, FrameTypeHistory DEF AddWake, shared, worker, caller, history, Locals
<1>23. CASE Wait
  <2>1. TypeCaller'
    BY <1>23 DEF Wait, TypeShared, TypeCaller, CallerPCs, WaitPCs, ResetPCs, Threads
  <2>2. AddingInv'
    BY <1>23 DEF Wait, StoppingInv, TypeHistory, TypeCaller, AddingInv, InCallAdd, WaitPCs, ResetPCs, history
  <2>3. StoppingInv'
    BY <1>23 DEF Wait, StoppingInv
  <2>4. RoomInv'
    BY <1>23 DEF Wait, RoomInv, TypeShared, TypeCaller, InQueue, JobSize
  <2> QED
    BY <1>23, <2>1, <2>2, <2>3, <2>4, FrameTypeShared, FrameTypeWorkers, FrameTypeHistory, FrameCallingInv DEF Wait, shared, worker, caller, history, Locals
<1>24. CASE Destroy
  <2>1. TypeCaller'
    BY <1>24 DEF Destroy, TypeShared, TypeCaller, CallerPCs, WaitPCs, ResetPCs, Threads
  <2>2. AddingInv'
    BY <1>24 DEF Destroy, StoppingInv, TypeHistory, TypeCaller, AddingInv, InCallAdd, WaitPCs, ResetPCs, history
  <2>3. StoppingInv'
    BY <1>24 DEF Destroy, StoppingInv
  <2>4. RoomInv'
    BY <1>24 DEF Destroy, RoomInv, TypeShared, TypeCaller, InQueue, JobSize
  <2> QED
    BY <1>24, <2>1, <2>2, <2>3, <2>4, FrameTypeShared, FrameTypeWorkers, FrameTypeHistory, FrameCallingInv DEF Destroy, shared, worker, caller, history, Locals
<1>25. CASE WaitLoad
  <2>1. TypeCaller'
    BY <1>25 DEF WaitLoad, TypeShared, TypeCaller, CallerPCs, WaitPCs, ResetPCs, Threads
  <2>2. AddingInv'
    BY <1>25 DEF WaitLoad, StoppingInv, TypeHistory, TypeCaller, AddingInv, InCallAdd, WaitPCs, ResetPCs, history
  <2>3. StoppingInv'
    BY <1>25 DEF WaitLoad, StoppingInv
  <2>4. RoomInv'
    BY <1>25 DEF WaitLoad, RoomInv, TypeShared, TypeCaller, InQueue, JobSize
  <2> QED
    BY <1>25, <2>1, <2>2, <2>3, <2>4, FrameTypeShared, FrameTypeWorkers, FrameTypeHistory, FrameCallingInv DEF WaitLoad, shared, worker, caller, history, Locals
<1>26. CASE WaitWake
  <2>1. TypeWorkers'
    BY <1>26 DEF WaitWake, TypeShared, TypeWorkers, WorkerPCs, Goto, WakeQ, Locals
  <2>2. CallingInv'
    BY <1>26 DEF WaitWake, TypeShared, TypeWorkers, CallingInv, Goto, WakeQ, Locals, NULL
  <2>3. TypeCaller'
    BY <1>26 DEF WaitWake, TypeShared, TypeCaller, CallerPCs, WaitPCs, ResetPCs, Threads
  <2>4. AddingInv'
    BY <1>26 DEF WaitWake, StoppingInv, TypeHistory, TypeCaller, AddingInv, InCallAdd, WaitPCs, ResetPCs, history
  <2>5. StoppingInv'
    BY <1>26 DEF WaitWake, StoppingInv
  <2>6. RoomInv'
    BY <1>26 DEF WaitWake, RoomInv, TypeShared, TypeCaller, InQueue, JobSize
  <2> QED
    BY <1>26, <2>1, <2>2, <2>3, <2>4, <2>5, <2>6, FrameTypeShared, FrameTypeHistory DEF WaitWake, shared, worker, caller, history, Locals
<1>27. CASE ResetFree
  <2>1. TypeShared'
    BY <1>27 DEF ResetFree, TypeShared, Jobs, NULL, FORCE, TypeCaller
  <2>2. TypeCaller'
    BY <1>27 DEF ResetFree, TypeShared, TypeCaller, CallerPCs, WaitPCs, ResetPCs, Threads
  <2>3. AddingInv'
    BY <1>27 DEF ResetFree, StoppingInv, TypeHistory, TypeCaller, AddingInv, InCallAdd, WaitPCs, ResetPCs, history
  <2>4. StoppingInv'
    BY <1>27 DEF ResetFree, StoppingInv
  <2>5. RoomInv'
    BY <1>27 DEF ResetFree, RoomInv, TypeShared, TypeCaller, InQueue, JobSize
  <2> QED
    BY <1>27, <2>1, <2>2, <2>3, <2>4, <2>5, FrameTypeWorkers, FrameTypeHistory, FrameCallingInv DEF ResetFree, shared, worker, caller, history, Locals
<1>28. CASE ResetCount
  <2>1. TypeShared'
    BY <1>28 DEF ResetCount, TypeShared, Jobs, NULL, FORCE, TypeCaller
  <2>2. TypeCaller'
    BY <1>28 DEF ResetCount, TypeShared, TypeCaller, CallerPCs, WaitPCs, ResetPCs, Threads
  <2>3. AddingInv'
    BY <1>28 DEF ResetCount, StoppingInv, TypeHistory, TypeCaller, AddingInv, InCallAdd, WaitPCs, ResetPCs, history
  <2>4. StoppingInv'
    BY <1>28 DEF ResetCount, StoppingInv
  <2>5. RoomInv'
    BY <1>28 DEF ResetCount, RoomInv, TypeShared, TypeCaller, InQueue, JobSize
  <2> QED
    BY <1>28, <2>1, <2>2, <2>3, <2>4, <2>5, FrameTypeWorkers, FrameTypeHistory, FrameCallingInv DEF ResetCount, shared, worker, caller, history, Locals
<1>29. CASE ResetFront
  <2>1. TypeShared'
    BY <1>29 DEF ResetFront, TypeShared, Jobs, NULL, FORCE, TypeCaller
  <2>2. TypeCaller'
    BY <1>29 DEF ResetFront, TypeShared, TypeCaller, CallerPCs, WaitPCs, ResetPCs, Threads
  <2>3. AddingInv'
    BY <1>29 DEF ResetFront, StoppingInv, TypeHistory, TypeCaller, AddingInv, InCallAdd, WaitPCs, ResetPCs, history
  <2>4. StoppingInv'
    BY <1>29 DEF ResetFront, StoppingInv
  <2>5. RoomInv'
    BY <1>29 DEF ResetFront, RoomInv, TypeShared, TypeCaller, InQueue, JobSize
  <2> QED
    BY <1>29, <2>1, <2>2, <2>3, <2>4, <2>5, FrameTypeWorkers, FrameTypeHistory, FrameCallingInv DEF ResetFront, shared, worker, caller, history, Locals
<1>30. CASE ResetRear
  <2>1. TypeShared'
    BY <1>30 DEF ResetRear, TypeShared, Jobs, NULL, FORCE, TypeCaller
  <2>2. TypeCaller'
    BY <1>30 DEF ResetRear, TypeShared, TypeCaller, CallerPCs, WaitPCs, ResetPCs, Threads
  <2>3. AddingInv'
    BY <1>30 DEF ResetRear, StoppingInv, TypeHistory, TypeCaller, AddingInv, InCallAdd, WaitPCs, ResetPCs, history
  <2>4. StoppingInv'
    BY <1>30 DEF ResetRear, StoppingInv
  <2>5. RoomInv'
    BY <1>30 DEF ResetRear, RoomInv, TypeShared, TypeCaller, InQueue, JobSize
  <2> QED
    BY <1>30, <2>1, <2>2, <2>3, <2>4, <2>5, FrameTypeWorkers, FrameTypeHistory, FrameCallingInv DEF ResetRear, shared, worker, caller, history, Locals
<1>31. CASE StoreForce
  <2>1. TypeShared'
    BY <1>31 DEF StoreForce, TypeShared, Jobs, NULL, FORCE, TypeCaller
  <2>2. TypeCaller'
    BY <1>31 DEF StoreForce, TypeShared, TypeCaller, CallerPCs, WaitPCs, ResetPCs, Threads
  <2>3. AddingInv'
    BY <1>31 DEF StoreForce, StoppingInv, TypeHistory, TypeCaller, AddingInv, InCallAdd, WaitPCs, ResetPCs, history
  <2>4. StoppingInv'
    BY <1>31 DEF StoreForce, StoppingInv
  <2>5. RoomInv'
    BY <1>31 DEF StoreForce, RoomInv, TypeShared, TypeCaller, InQueue, JobSize
  <2> QED
    BY <1>31, <2>1, <2>2, <2>3, <2>4, <2>5, FrameTypeWorkers, FrameTypeHistory, FrameCallingInv DEF StoreForce, shared, worker, caller, history, Locals
<1>32. CASE ForceWake
  <2>1. TypeWorkers'
    BY <1>32 DEF ForceWake, TypeShared, TypeWorkers, WorkerPCs, Goto, WakeQ, Locals
  <2>2. CallingInv'
    BY <1>32 DEF ForceWake, TypeShared, TypeWorkers, CallingInv, Goto, WakeQ, Locals, NULL
  <2>3. TypeCaller'
    BY <1>32 DEF ForceWake, TypeShared, TypeCaller, CallerPCs, WaitPCs, ResetPCs, Threads
  <2>4. AddingInv'
    BY <1>32 DEF ForceWake, StoppingInv, TypeHistory, TypeCaller, AddingInv, InCallAdd, WaitPCs, ResetPCs, history
  <2>5. StoppingInv'
    BY <1>32 DEF ForceWake, StoppingInv
  <2>6. RoomInv'
    BY <1>32 DEF ForceWake, RoomInv, TypeShared, TypeCaller, InQueue, JobSize
  <2> QED
    BY <1>32, <2>1, <2>2, <2>3, <2>4, <2>5, <2>6, FrameTypeShared, FrameTypeHistory DEF ForceWake, shared, worker, caller, history, Locals
<1>33. CASE Join
  <2>1. TypeCaller'
    BY <1>33 DEF Join, TypeShared, TypeCaller, CallerPCs, WaitPCs, ResetPCs, Threads
  <2>2. AddingInv'
    BY <1>33 DEF Join, StoppingInv, TypeHistory, TypeCaller, AddingInv, InCallAdd, WaitPCs, ResetPCs, history
  <2>3. StoppingInv'
    BY <1>33 DEF Join, StoppingInv
  <2>4. RoomInv'
    BY <1>33 DEF Join, RoomInv, TypeShared, TypeCaller, InQueue, JobSize
  <2> QED
    BY <1>33, <2>1, <2>2, <2>3, <2>4, FrameTypeShared, FrameTypeWorkers, FrameTypeHistory, FrameCallingInv DEF Join, shared, worker, caller, history, Locals
<1>34. CASE JoinNoThread
  <2>1. TypeCaller'
    BY <1>34 DEF JoinNoThread, TypeShared, TypeCaller, CallerPCs, WaitPCs, ResetPCs, Threads
  <2>2. AddingInv'
    BY <1>34 DEF JoinNoThread, StoppingInv, TypeHistory, TypeCaller, AddingInv, InCallAdd, WaitPCs, ResetPCs, history
  <2>3. StoppingInv'
    BY <1>34 DEF JoinNoThread, StoppingInv
  <2>4. RoomInv'
    BY <1>34 DEF JoinNoThread, RoomInv, TypeShared, TypeCaller, InQueue, JobSize
  <2> QED
    BY <1>34, <2>1, <2>2, <2>3, <2>4, FrameTypeShared, FrameTypeWorkers, FrameTypeHistory, FrameCallingInv DEF JoinNoThread, shared, worker, caller, history, Locals
<1>35. CASE UNCHANGED vars
  BY <1>35, FrameTypeShared, FrameTypeWorkers, FrameTypeCaller, FrameTypeHistory, FrameCallingInv, FrameAddingInv, FrameStoppingInv, FrameRoomInv DEF vars, shared, worker, caller, history
<1> QED
  BY <1>1, <1>2, <1>3, <1>4, <1>5, <1>6, <1>7, <1>8, <1>9, <1>10, <1>11, <1>12, <1>13, <1>14, <1>15, <1>16, <1>17, <1>18, <1>19, <1>20, <1>21, <1>22, <1>23, <1>24, <1>25, <1>26, <1>27, <1>28, <1>29, <1>30, <1>31, <1>32, <1>33, <1>34, <1>35 DEF Next, CallerStep, CallerStart, WorkerStep

\* So it holds in every reachable state.
LEMMA BoundsAlways == Spec => []BoundsInv
  BY BoundsInit, BoundsNext, PTL DEF Spec

\* Every reachable state of the pool is well typed: the counters are naturals,
\* records hold jobs or NULL, the round-robin index names a thread.
THEOREM TypeCorrect == Spec => []TypeOK
<1>1. BoundsInv => TypeOK
  BY DEF BoundsInv
<1> QED
  BY <1>1, BoundsAlways, PTL

-----------------------------------------------------------------------------
(* The calls of the program, and what becomes of a job.                    *)

\* add_job has chosen a queue and not made the job's record visible yet.
PendingAdd == \/ pc \in {"full", "addRear"}
              \/ pc \in WaitPCs /\ cont = "add"

\* The function of job j has been stored in a record.
Stored(j) ==
  /\ j \in 1 .. added
  /\ j = added => ~ PendingAdd /\ ~ (pc = "fill" /\ "func" \in cleft)

\* What a record's func says, and whether a worker has loaded it and not called yet.
FuncAt(t, s) == mem[t][s]["func"]
Calling(t)   == wpc[t] \in {"arg", "run"}

\* Jobs are stored before they are loaded, and loaded before they run.
StoredInv ==
  /\ \A c \in ran : Stored(c[1])
  /\ \A t \in Threads, s \in Slots : FuncAt(t, s) # NULL => Stored(FuncAt(t, s))
  /\ \A t \in Threads : Calling(t) => Stored(wfunc[t])

\* Each is in one record at most.
OnePlaceInv ==
  \A t1, t2 \in Threads : \A s1, s2 \in Slots :
    FuncAt(t1, s1) # NULL /\ FuncAt(t1, s1) = FuncAt(t2, s2) => t1 = t2 /\ s1 = s2

\* Only one worker has loaded it, from that record, and it has not run.
OneCallInv ==
  \A t \in Threads : Calling(t) =>
    /\ \A c \in ran : c[1] # wfunc[t]
    /\ \A u \in Threads : \A s \in Slots : FuncAt(u, s) = wfunc[t] => u = t /\ s = wslot[t]
    /\ \A u \in Threads : Calling(u) /\ wfunc[u] = wfunc[t] => u = t

\* A job that has run is in a record only until the worker has cleared it.
ClearedInv ==
  \A t \in Threads : \A s \in Slots : \A c \in ran :
    FuncAt(t, s) = c[1] => wpc[t] = "clear" /\ s = wslot[t] /\ "func" \in wleft[t]

OnceInv == StoredInv /\ OnePlaceInv /\ OneCallInv /\ ClearedInv

\* No step makes a job be not stored.
LEMMA StoredKept ==
  ASSUME BoundsInv, [Next]_vars, NEW j, Stored(j)
  PROVE  Stored(j)'
<1>1. CASE AddJob
  BY <1>1 DEF AddJob, Stored, BoundsInv, TypeOK, TypeHistory
<1>2. CASE Fill
  <2>1. PICK F \in (SUBSET cleft) \ {{}} :
          cleft' = cleft \ F /\ pc' = IF F = cleft THEN "addCount" ELSE "fill"
    BY <1>2 DEF Fill
  <2>2. pc = "fill" /\ pc' \in {"addCount", "fill"} /\ added' = added
    BY <1>2, <2>1 DEF Fill, history
  <2> QED BY <2>1, <2>2 DEF Stored, PendingAdd, WaitPCs, ResetPCs
<1>3. CASE CreateThread \/ CheckFull \/ AddRear \/ AddJobCount \/ AddWake
        \/ WaitLoad \/ WaitWake \/ StoreForce \/ ForceWake \/ Join \/ JoinNoThread
        \/ ResetFree \/ ResetCount \/ ResetFront \/ ResetRear
  BY <1>3 DEF CreateThread, CheckFull, AddRear, AddJobCount, AddWake, WaitLoad, WaitWake,
       StoreForce, ForceWake, Join, JoinNoThread, ResetFree, ResetCount, ResetFront, ResetRear,
       Stored, PendingAdd, WaitPCs, ResetPCs, history, Fields, BoundsInv, StoppingInv
<1>4. CASE CreateNoMemory \/ CreateFails \/ Wait \/ Destroy
  BY <1>4 DEF CreateNoMemory, CreateFails, Wait, Destroy, Stored, PendingAdd, WaitPCs, ResetPCs, history
<1>5. CASE \E t \in Threads : WorkerStep(t) \/ Interrupted(t)
  BY <1>5 DEF WorkerStep, Interrupted, CanLoop, LoadRear, LoadFront, CheckForce, LoadValue, FutexWait,
       Take, LoadFunc, LoadArg, Run, JobReset, SubJobCount, Stored, PendingAdd, caller, history
<1>6. CASE UNCHANGED vars
  BY <1>6 DEF Stored, PendingAdd, vars, caller, history
<1> QED
  BY <1>1, <1>2, <1>3, <1>4, <1>5, <1>6 DEF Next, CallerStep, CallerStart

\* Steps that move no job keep the invariant.
LEMMA FrameOnceInv ==
  ASSUME BoundsInv, OnceInv, \A j \in Nat : Stored(j) => Stored(j)', UNCHANGED <<mem, ran>>,
         \A t \in Threads :
           /\ wpc'[t] \in {"arg", "run"} => wpc[t] \in {"arg", "run"}
           /\ wpc[t] = "clear" => wpc'[t] = "clear"
           /\ wpc[t] \in {"arg", "run", "clear"} =>
                wslot'[t] = wslot[t] /\ wfunc'[t] = wfunc[t] /\ wleft'[t] = wleft[t]
  PROVE  OnceInv'
<1>1. \A j : Stored(j) => j \in Nat
  BY DEF Stored, BoundsInv, TypeOK, TypeHistory
<1>2. \A t \in Threads : Calling(t)' => Calling(t) /\ wfunc'[t] = wfunc[t] /\ wslot'[t] = wslot[t]
  BY DEF Calling
<1>3. \A t, s : FuncAt(t, s)' = FuncAt(t, s)
  BY DEF FuncAt
<1>4. StoredInv'
  BY <1>1, <1>2, <1>3 DEF OnceInv, StoredInv
<1>5. OnePlaceInv'
  BY <1>3 DEF OnceInv, OnePlaceInv
<1>6. OneCallInv'
  BY <1>2, <1>3 DEF OnceInv, OneCallInv
<1>7. ClearedInv'
  BY <1>3 DEF OnceInv, ClearedInv
<1> QED BY <1>4, <1>5, <1>6, <1>7 DEF OnceInv

\* Round-robin by remainder and round-robin by counting agree.
LEMMA NextRemainder ==
  ASSUME NEW n \in Nat
  PROVE  ((n % ThreadCount) + 1) % ThreadCount = (n + 1) % ThreadCount
<1> DEFINE d == n \div ThreadCount
           r == n % ThreadCount
<1>1. d \in Nat /\ r \in 0 .. ThreadCount - 1 /\ n = d * ThreadCount + r
  BY ThreadCountAssumption, SMTT(30)
<1>2. (d + 1) * ThreadCount = d * ThreadCount + ThreadCount
  BY <1>1, ThreadCountAssumption, SMTT(30)
<1> HIDE DEF d, r
<1>3. CASE r + 1 = ThreadCount
  <2>1. n + 1 = (d + 1) * ThreadCount
    BY <1>1, <1>2, <1>3, ThreadCountAssumption
  <2>2. (n + 1) % ThreadCount = 0
    BY <1>1, <2>1, ThreadCountAssumption, SMTT(30)
  <2>3. (r + 1) % ThreadCount = 0
    BY <1>1, <1>3, ThreadCountAssumption, SMTT(30)
  <2> QED BY <2>2, <2>3 DEF r
<1>4. CASE r + 1 < ThreadCount
  <2>1. (n + 1) % ThreadCount = r + 1
    BY <1>1, <1>4, ThreadCountAssumption, SMTT(30)
  <2>2. (r + 1) % ThreadCount = r + 1
    BY <1>1, <1>4, ThreadCountAssumption, SMTT(30)
  <2> QED BY <2>1, <2>2 DEF r
<1> QED BY <1>1, <1>3, <1>4, ThreadCountAssumption

\* Threads are started in order.
StartInv == pc = "create" => \A t \in Threads : t >= q => wpc[t] = "none"

\* The round-robin word points behind the job added last, and a job that is being
\* added goes to the queue that it pointed to before.
Adding   == PendingAdd \/ pc \in {"fill", "addCount"}
RoundInv == /\ cur = added % ThreadCount
            /\ Adding => q = Owner(added)
            /\ pc = "full" => cont = "add"

\* destroy does not come back, and forces each word once, when its queue is empty.
Forced(t)  == fux[t] = FORCE
DestroyInv ==
  /\ cont = "destroy" =>
       pc \in WaitPCs \cup Wakes \cup {"join", "destroyed", "crashed"}
  /\ pc = "force" => rear[q] = 0
  /\ \A t \in Threads : Forced(t) =>
       /\ cont = "destroy"
       /\ \/ pc = "destroyed"
          \/ t < q
          \/ t = q /\ pc \in {"forceWake", "forceWakeCond", "join", "crashed"}

\* A queue holds no more records than jobs were added, and than its size allows.
RearInv ==
  /\ \A t \in Threads : rear[t] <= added /\ rear[t] * JobSize <= QueueSize
  /\ PendingAdd => \A t \in Threads : rear[t] < added

CallerInv == StartInv /\ RoundInv /\ DestroyInv /\ RearInv

\* At first nothing was added and nobody is stopped.
LEMMA CallerInit == Init => CallerInv
<1> SUFFICES ASSUME Init PROVE CallerInv
  OBVIOUS
<1>1. StartInv
  BY DEF Init, StartInv
<1>2. 0 % ThreadCount = 0
  BY ThreadCountAssumption, SMTT(30)
<1>3. RoundInv
  BY <1>2 DEF Init, RoundInv, Adding, PendingAdd, WaitPCs, ResetPCs
<1>4. DestroyInv
  BY DEF Init, DestroyInv, Forced, FORCE
<1>5. RearInv
  BY ConstantFacts DEF Init, RearInv, PendingAdd, WaitPCs, ResetPCs, JobSize
<1> QED BY <1>1, <1>3, <1>4, <1>5 DEF CallerInv

\* The workers write no word that the invariant is about.
LEMMA CallerWorker ==
  ASSUME BoundsInv, CallerInv, NEW u \in Threads, WorkerStep(u) \/ Interrupted(u)
  PROVE  CallerInv'
<1>1. UNCHANGED <<cur, rear, fux, pc, q, cont, cslot, cleft, added>>
  BY DEF WorkerStep, Interrupted, CanLoop, LoadRear, LoadFront, CheckForce, LoadValue, FutexWait,
         Take, LoadFunc, LoadArg, Run, JobReset, SubJobCount, shared, caller, history
<1>2. wpc[u] # "none" /\ \E l : wpc' = [wpc EXCEPT ![u] = l]
  BY DEF WorkerStep, Interrupted, CanLoop, LoadRear, LoadFront, CheckForce, LoadValue, FutexWait,
         Take, LoadFunc, LoadArg, Run, JobReset, SubJobCount, Goto
<1>3. StartInv'
  <2>1. \A t \in Threads : wpc[t] = "none" => wpc'[t] = "none"
    BY <1>2 DEF BoundsInv, TypeOK, TypeWorkers
  <2> QED BY <1>1, <2>1 DEF CallerInv, StartInv
<1>4. RoundInv' /\ DestroyInv' /\ RearInv'
  BY <1>1 DEF CallerInv, RoundInv, DestroyInv, RearInv, Adding, PendingAdd, Forced
<1> QED BY <1>3, <1>4 DEF CallerInv

\* Starting threads.
LEMMA CallerCreate ==
  ASSUME BoundsInv, CallerInv, CreateNoMemory \/ CreateThread \/ CreateFails
  PROVE  CallerInv'
<1> USE DEF BoundsInv, TypeOK, TypeShared, TypeWorkers, TypeCaller, Threads
<1>1. pc = "create" /\ UNCHANGED <<cur, rear, fux, added>>
  BY DEF CreateNoMemory, CreateThread, CreateFails, shared, history
<1>2. \A t \in Threads : ~ Forced(t)
  BY <1>1 DEF CallerInv, DestroyInv, WaitPCs, ResetPCs, Wakes
<1>3. pc' \in {"null", "create", "idle", "waitLoad"} /\ (pc' = "waitLoad" => cont' = "destroy")
      /\ (pc' # "waitLoad" => cont' = cont)
  BY DEF CreateNoMemory, CreateThread, CreateFails
<1>4. StartInv'
  <2>1. CASE CreateThread /\ q + 1 < ThreadCount
    BY <2>1 DEF CreateThread, CallerInv, StartInv
  <2>2. CASE CreateThread /\ ~ (q + 1 < ThreadCount)
    BY <2>2 DEF CreateThread, StartInv
  <2>3. CASE CreateNoMemory \/ CreateFails
    BY <2>3 DEF CreateNoMemory, CreateFails, StartInv
  <2> QED BY <2>1, <2>2, <2>3
<1>5. ~ Adding'
  BY <1>3 DEF Adding, PendingAdd, WaitPCs, ResetPCs
<1>6. RoundInv'
  BY <1>1, <1>3, <1>5 DEF CallerInv, RoundInv
<1>7. DestroyInv'
  <2>1. \A t \in Threads : ~ Forced(t)'
    BY <1>1, <1>2 DEF Forced
  <2>2. cont # "destroy"
    BY <1>1 DEF CallerInv, DestroyInv, WaitPCs, ResetPCs, Wakes
  <2> QED BY <1>3, <2>1, <2>2 DEF DestroyInv, WaitPCs
<1>8. RearInv'
  BY <1>1, <1>5 DEF CallerInv, RearInv, Adding
<1> QED BY <1>4, <1>6, <1>7, <1>8 DEF CallerInv

\* The steps of add_job outside p_queue_wait.
LEMMA CallerAdd ==
  ASSUME BoundsInv, CallerInv,
         AddJob \/ CheckFull \/ AddRear \/ Fill \/ AddJobCount \/ AddWake
  PROVE  CallerInv'
<1>1. pc \in {"idle", "full", "addRear", "fill", "addCount", "wake"} /\ fux' = fux
      /\ pc' \in {"full", "waitLoad", "addRear", "fill", "addCount", "wake", "idle"}
  BY DEF AddJob, CheckFull, AddRear, Fill, AddJobCount, AddWake, shared
<1>2. cont # "destroy" /\ (cont' = cont \/ cont' = "add")
  BY <1>1 DEF CallerInv, DestroyInv, WaitPCs, ResetPCs, Wakes, AddJob, CheckFull, AddRear, Fill, AddJobCount, AddWake
<1>3. StartInv'
  BY <1>1 DEF StartInv
<1>4. DestroyInv'
  <2>1. \A t \in Threads : ~ Forced(t)
    BY <1>2 DEF CallerInv, DestroyInv
  <2> QED BY <1>1, <1>2, <2>1 DEF DestroyInv, Forced
<1>5. CASE AddJob
  <2>1. added \in Nat /\ cur \in Nat
    BY DEF BoundsInv, TypeOK, TypeHistory, TypeShared, Threads
  <2>2. cur' = (added + 1) % ThreadCount
    BY <1>5, <2>1, NextRemainder DEF AddJob, CallerInv, RoundInv
  <2>3. q' = Owner(added')
    <3>1. added' = added + 1 /\ q' = cur /\ (added + 1) - 1 = added
      BY <1>5, <2>1 DEF AddJob
    <3> QED BY <3>1 DEF CallerInv, RoundInv, Owner
  <2>4. RoundInv'
    BY <1>5, <2>2, <2>3 DEF AddJob, RoundInv
  <2>5. RearInv'
    BY <1>5, <2>1 DEF AddJob, CallerInv, RearInv, BoundsInv, TypeOK, TypeShared
  <2> QED BY <1>3, <1>4, <2>4, <2>5 DEF CallerInv
<1>6. CASE AddRear
  <2>1. RoundInv'
    BY <1>6 DEF AddRear, CallerInv, RoundInv, Adding, PendingAdd, history
  <2>2. ~ PendingAdd'
    BY <1>6 DEF AddRear, PendingAdd, WaitPCs, ResetPCs
  <2>3. q \in Threads /\ rear[q] \in Nat /\ rear[q] < added /\ rear[q] * JobSize + JobSize <= QueueSize
    BY <1>6 DEF AddRear, CallerInv, RearInv, PendingAdd, BoundsInv, TypeOK, TypeShared, TypeCaller,
                RoomInv, InQueue
  <2>4. \A t \in Threads : rear'[t] = IF t = q THEN rear[q] + 1 ELSE rear[t]
    BY <1>6 DEF AddRear, BoundsInv, TypeOK, TypeShared
  <2>5. added \in Nat /\ added' = added
    BY <1>6 DEF AddRear, history, BoundsInv, TypeOK, TypeHistory
  <2>6. rear[q] + 1 <= added /\ (rear[q] + 1) * JobSize <= QueueSize
    BY <2>3, <2>5, ConstantFacts DEF JobSize
  <2>7. RearInv'
    BY <2>2, <2>4, <2>5, <2>6 DEF CallerInv, RearInv
  <2> QED BY <1>3, <1>4, <2>1, <2>7 DEF CallerInv
<1>7. CASE CheckFull \/ Fill \/ AddJobCount \/ AddWake
  <2>1. /\ UNCHANGED <<cur, rear, added>>
        /\ Adding' => Adding /\ q' = q
        /\ PendingAdd' => PendingAdd
    BY <1>7 DEF CheckFull, Fill, AddJobCount, AddWake, Adding, PendingAdd, WaitPCs, ResetPCs,
                shared, history
  <2>2. pc' # "full"
    BY <1>7 DEF CheckFull, Fill, AddJobCount, AddWake
  <2>3. RoundInv' /\ RearInv'
    BY <2>1, <2>2 DEF CallerInv, RoundInv, RearInv
  <2> QED BY <1>3, <1>4, <2>3 DEF CallerInv
<1> QED BY <1>5, <1>6, <1>7

\* The steps of p_queue_wait, and the calls of it by wait and destroy.
LEMMA CallerDrain ==
  ASSUME BoundsInv, CallerInv,
         Wait \/ Destroy \/ WaitLoad \/ WaitWake
           \/ ResetFree \/ ResetCount \/ ResetFront \/ ResetRear
  PROVE  CallerInv'
<1> USE DEF WaitPCs, ResetPCs
<1>1. pc \in WaitPCs \cup {"idle"} /\ pc' \in WaitPCs \cup {"addRear", "force", "idle"}
  BY DEF Wait, Destroy, WaitLoad, WaitWake, ResetFree, ResetCount, ResetFront, ResetRear
<1>2. StartInv'
  BY <1>1 DEF StartInv
<1>3. cur' = cur /\ added' = added
  BY DEF Wait, Destroy, WaitLoad, WaitWake, ResetFree, ResetCount, ResetFront, ResetRear,
         shared, history
<1>4. PendingAdd' => PendingAdd /\ q' = q
  BY DEF Wait, Destroy, WaitLoad, WaitWake, ResetFree, ResetCount, ResetFront, ResetRear, PendingAdd
<1>5. Adding' => Adding /\ q' = q
  BY <1>1, <1>4 DEF Adding
<1>6. RoundInv'
  BY <1>1, <1>3, <1>5 DEF CallerInv, RoundInv
<1>7. \A t \in Threads : rear'[t] = rear[t] \/ rear'[t] = 0
  BY DEF Wait, Destroy, WaitLoad, WaitWake, ResetFree, ResetCount, ResetFront, ResetRear,
         shared, BoundsInv, TypeOK, TypeShared
<1>8. RearInv'
  <2>1. \A t \in Threads : rear[t] \in Nat
    BY DEF BoundsInv, TypeOK, TypeShared
  <2>2. added \in Nat /\ (PendingAdd => added > 0)
    BY DEF BoundsInv, TypeOK, TypeHistory, AddingInv, InCallAdd, PendingAdd
  <2> QED BY <1>3, <1>4, <1>7, <2>1, <2>2, ConstantFacts DEF CallerInv, RearInv, JobSize
<1>9. DestroyInv'
  <2>1. cont' = "destroy" => pc' \in WaitPCs \cup {"force"}
    BY <1>1 DEF CallerInv, DestroyInv, Wakes, Wait, Destroy, WaitLoad, WaitWake,
                ResetFree, ResetCount, ResetFront, ResetRear
  <2>2. pc' = "force" => rear'[q'] = 0
    BY DEF Wait, Destroy, WaitLoad, WaitWake, ResetFree, ResetCount, ResetFront, ResetRear,
           BoundsInv, TypeOK, TypeShared, TypeCaller
  <2>3. \A t \in Threads : Forced(t)' => Forced(t)
    BY DEF Forced, FORCE, Wait, Destroy, WaitLoad, WaitWake, ResetFree, ResetCount, ResetFront, ResetRear,
           shared, BoundsInv, TypeOK, TypeShared, TypeCaller
  <2>4. \A t \in Threads : Forced(t) => cont = "destroy" /\ t < q
    BY <1>1 DEF CallerInv, DestroyInv
  <2>5. cont = "destroy" => q' = q /\ cont' = cont
    BY DEF CallerInv, DestroyInv, Wakes, Wait, Destroy, WaitLoad, WaitWake,
           ResetFree, ResetCount, ResetFront, ResetRear
  <2> QED BY <2>1, <2>2, <2>3, <2>4, <2>5 DEF DestroyInv, Wakes
<1> QED BY <1>2, <1>6, <1>8, <1>9 DEF CallerInv

\* The steps of destroy after the drain.
LEMMA CallerStop ==
  ASSUME BoundsInv, CallerInv, StoreForce \/ ForceWake \/ Join \/ JoinNoThread
  PROVE  CallerInv'
<1> USE DEF WaitPCs, ResetPCs
<1>1. pc \in Wakes \cup {"join"} /\ cont = "destroy" /\ cont' = cont
      /\ pc' \in {"forceWake", "forceWakeCond", "join", "waitLoad", "destroyed", "crashed"}
  BY DEF StoreForce, ForceWake, Join, JoinNoThread, Wakes, BoundsInv, StoppingInv
<1>2. StartInv'
  BY <1>1 DEF StartInv
<1>3. UNCHANGED <<cur, rear, added>> /\ ~ Adding' /\ ~ PendingAdd'
  BY <1>1 DEF StoreForce, ForceWake, Join, JoinNoThread, shared, history, Adding, PendingAdd
<1>4. RoundInv' /\ RearInv'
  BY <1>1, <1>3 DEF CallerInv, RoundInv, RearInv
<1>5. DestroyInv'
  <2>1. \A t \in Threads : t \in Nat /\ q \in Nat
    BY DEF Threads, BoundsInv, TypeOK, TypeCaller
  <2>2. CASE StoreForce
    BY <1>1, <2>1, <2>2 DEF StoreForce, CallerInv, DestroyInv, Forced, BoundsInv, TypeOK, TypeShared, Wakes
  <2>3. CASE ForceWake
    BY <1>1, <2>1, <2>3 DEF ForceWake, shared, CallerInv, DestroyInv, Forced, Wakes
  <2>4. CASE Join
    BY <1>1, <2>1, <2>4 DEF Join, shared, CallerInv, DestroyInv, Forced, Wakes
  <2>5. CASE JoinNoThread
    BY <1>1, <2>1, <2>5 DEF JoinNoThread, shared, CallerInv, DestroyInv, Forced, Wakes
  <2> QED BY <2>2, <2>3, <2>4, <2>5
<1> QED BY <1>2, <1>4, <1>5 DEF CallerInv

\* Every step keeps what the program's thread knows.
LEMMA CallerNext == BoundsInv /\ CallerInv /\ [Next]_vars => CallerInv'
<1> SUFFICES ASSUME BoundsInv, CallerInv, [Next]_vars PROVE CallerInv'
  OBVIOUS
<1>1. CASE UNCHANGED vars
  BY <1>1 DEF vars, shared, worker, caller, history, CallerInv, StartInv, RoundInv, DestroyInv,
       RearInv, Adding, PendingAdd, Forced
<1> QED
  BY <1>1, CallerWorker, CallerCreate, CallerAdd, CallerDrain, CallerStop
     DEF Next, CallerStep, CallerStart

\* What records hold is a job or NULL.
LEMMA FuncType ==
  ASSUME BoundsInv, NEW t \in Threads, NEW s \in Slots, NEW f \in Fields
  PROVE  mem[t][s][f] \in Jobs \cup {NULL}
  BY DEF BoundsInv, TypeOK, TypeShared

\* A record that is worked on or filled is one of the modelled slots.
LEMMA WorkedSlots ==
  ASSUME BoundsInv
  PROVE  /\ pc = "fill" => q \in Threads /\ cslot \in Slots /\ added \in Jobs
         /\ \A t \in Threads : wpc[t] \in {"arg", "run", "clear"} => wslot[t] \in Slots
<1>1. pc = "fill" => cslot \in Slots
  BY InQueueSlot DEF BoundsInv, TypeOK, TypeCaller, RoomInv
<1>2. pc = "fill" => q \in Threads /\ added \in Jobs
  BY DEF BoundsInv, TypeOK, TypeCaller, TypeHistory, AddingInv, InCallAdd, Jobs
<1>3. \A t \in Threads : wpc[t] \in {"arg", "run", "clear"} => wslot[t] \in Slots
  BY InQueueSlot DEF BoundsInv, TypeOK, TypeWorkers, CallingInv
<1> QED BY <1>1, <1>2, <1>3

\* The worker loads the function: it is the only one who can find that job.
LEMMA OnceLoadFunc ==
  ASSUME BoundsInv, OnceInv, \A j \in Nat : Stored(j) => Stored(j)',
         NEW u \in Threads, LoadFunc(u)
  PROVE  OnceInv'
<1>0. \A j : Stored(j) => j \in Nat
  BY DEF Stored, BoundsInv, TypeOK, TypeHistory
<1>1. CASE ~ InQueue(wslot[u])
  BY <1>1, FrameOnceInv DEF LoadFunc, Goto, shared, history, BoundsInv, TypeOK, TypeWorkers
<1>2. CASE InQueue(wslot[u])
  <2>1. wslot[u] \in Slots
    BY <1>2, InQueueSlot DEF BoundsInv, TypeOK, TypeWorkers
  <2>2. CASE FuncAt(u, wslot[u]) = NULL
    <3>1. wpc' = [wpc EXCEPT ![u] = "sub"] /\ wfunc' = [wfunc EXCEPT ![u] = NULL]
          /\ UNCHANGED <<mem, ran, wslot, wleft>> /\ wpc[u] = "func"
      BY <1>2, <2>2 DEF LoadFunc, Goto, FuncAt, shared, history
    <3>2. StoredInv'
      BY <3>1, <1>0 DEF OnceInv, StoredInv, Calling, FuncAt, BoundsInv, TypeOK, TypeWorkers
    <3>3. OnePlaceInv'
      BY <3>1 DEF OnceInv, OnePlaceInv, FuncAt
    <3>4. OneCallInv'
      BY <3>1 DEF OnceInv, OneCallInv, Calling, FuncAt, BoundsInv, TypeOK, TypeWorkers
    <3>5. ClearedInv'
      BY <3>1 DEF OnceInv, ClearedInv, FuncAt, BoundsInv, TypeOK, TypeWorkers
    <3> QED BY <3>2, <3>3, <3>4, <3>5 DEF OnceInv
  <2>3. CASE FuncAt(u, wslot[u]) # NULL
    <3> DEFINE j == FuncAt(u, wslot[u])
    <3>1. wpc' = [wpc EXCEPT ![u] = "arg"] /\ wfunc' = [wfunc EXCEPT ![u] = j]
          /\ UNCHANGED <<mem, ran, wslot, wleft>> /\ wpc[u] = "func"
      BY <1>2, <2>3 DEF LoadFunc, Goto, FuncAt, shared, history
    <3>2. Stored(j) /\ j # NULL
      BY <2>1, <2>3 DEF OnceInv, StoredInv
    <3>3. \A c \in ran : c[1] # j
      BY <2>1, <3>1 DEF OnceInv, ClearedInv
    <3>4. \A t \in Threads, s \in Slots : FuncAt(t, s) = j => t = u /\ s = wslot[u]
      BY <2>1, <3>2 DEF OnceInv, OnePlaceInv
    <3>5. \A t \in Threads : Calling(t) => wfunc[t] # j
      BY <2>1, <3>1 DEF OnceInv, OneCallInv, Calling
    <3>6. \A t \in Threads : /\ Calling(t)' <=> t = u \/ Calling(t)
                             /\ wfunc'[t] = IF t = u THEN j ELSE wfunc[t]
                             /\ wpc'[t] = IF t = u THEN "arg" ELSE wpc[t]
      BY <3>1 DEF Calling, BoundsInv, TypeOK, TypeWorkers
    <3>7. \A t, s : FuncAt(t, s)' = FuncAt(t, s)
      BY <3>1 DEF FuncAt
    <3> HIDE DEF j
    <3>8. StoredInv'
      BY <3>1, <3>2, <3>6, <3>7, <1>0 DEF OnceInv, StoredInv
    <3>9. OnePlaceInv'
      BY <3>7 DEF OnceInv, OnePlaceInv
    <3>10. OneCallInv'
      BY <3>1, <3>3, <3>4, <3>5, <3>6, <3>7 DEF OnceInv, OneCallInv
    <3>11. ClearedInv'
      BY <3>1, <3>6, <3>7 DEF OnceInv, ClearedInv
    <3> QED BY <3>8, <3>9, <3>10, <3>11 DEF OnceInv
  <2> QED BY <2>2, <2>3
<1> QED BY <1>1, <1>2

\* The function is called: the record is still to be cleared.
LEMMA OnceRun ==
  ASSUME BoundsInv, OnceInv, \A j \in Nat : Stored(j) => Stored(j)',
         NEW u \in Threads, Run(u)
  PROVE  OnceInv'
<1>0. \A j : Stored(j) => j \in Nat
  BY DEF Stored, BoundsInv, TypeOK, TypeHistory
<1>1. Calling(u) /\ ran' = ran \cup {<<wfunc[u], warg[u]>>} /\ UNCHANGED <<mem, wslot, wfunc>>
  BY DEF Run, Calling, shared
<1>2. \A t \in Threads : /\ wpc'[t] = IF t = u THEN "clear" ELSE wpc[t]
                         /\ wleft'[t] = IF t = u THEN Fields ELSE wleft[t]
                         /\ Calling(t)' <=> t # u /\ Calling(t)
  BY DEF Run, Goto, Calling, BoundsInv, TypeOK, TypeWorkers
<1>3. \A t, s : FuncAt(t, s)' = FuncAt(t, s)
  BY <1>1 DEF FuncAt
<1>4. \A c \in ran' : c \in ran \/ c[1] = wfunc[u]
  BY <1>1
<1>5. StoredInv'
  BY <1>0, <1>1, <1>2, <1>3, <1>4 DEF OnceInv, StoredInv
<1>6. OnePlaceInv'
  BY <1>3 DEF OnceInv, OnePlaceInv
<1>7. OneCallInv'
  BY <1>1, <1>2, <1>3, <1>4 DEF OnceInv, OneCallInv
<1>8. ClearedInv'
  <2>1. wpc[u] = "run" /\ "func" \in Fields
    BY DEF Run, Fields
  <2>2. \A t \in Threads, s \in Slots : FuncAt(t, s) = wfunc[u] => t = u /\ s = wslot[u]
    BY <1>1 DEF OnceInv, OneCallInv
  <2> QED BY <1>1, <1>2, <1>3, <1>4, <2>1, <2>2 DEF OnceInv, ClearedInv
<1> QED BY <1>5, <1>6, <1>7, <1>8 DEF OnceInv

\* The worker clears the record, the function or the argument first or both.
LEMMA OnceReset ==
  ASSUME BoundsInv, OnceInv, \A j \in Nat : Stored(j) => Stored(j)',
         NEW u \in Threads, JobReset(u)
  PROVE  OnceInv'
<1>0. \A j : Stored(j) => j \in Nat
  BY DEF Stored, BoundsInv, TypeOK, TypeHistory
<1>1. PICK F \in (SUBSET wleft[u]) \ {{}} :
        /\ mem' = [mem EXCEPT ![u][wslot[u]] =
                     [f \in Fields |-> IF f \in F THEN NULL ELSE mem[u][wslot[u]][f]]]
        /\ wleft' = [wleft EXCEPT ![u] = @ \ F]
        /\ wpc' = [wpc EXCEPT ![u] = IF F = wleft[u] THEN "sub" ELSE "clear"]
  BY DEF JobReset, Goto
<1>2. wpc[u] = "clear" /\ UNCHANGED <<ran, wslot, wfunc>>
  BY DEF JobReset, history
<1>3. wslot[u] \in Slots
  BY <1>2, WorkedSlots
<1>4. \A t \in Threads, s \in Slots :
        FuncAt(t, s)' = IF t = u /\ s = wslot[u] /\ "func" \in F THEN NULL ELSE FuncAt(t, s)
  BY <1>1, <1>3 DEF FuncAt, BoundsInv, TypeOK, TypeShared, Fields
<1>5. \A t \in Threads : /\ Calling(t)' <=> Calling(t)
                         /\ t # u => wpc'[t] = wpc[t] /\ wleft'[t] = wleft[t]
  BY <1>1, <1>2 DEF Calling, BoundsInv, TypeOK, TypeWorkers
<1>6. "func" \in wleft[u] /\ "func" \notin F => wpc'[u] = "clear" /\ "func" \in wleft'[u]
  BY <1>1 DEF BoundsInv, TypeOK, TypeWorkers
<1>7. \A c \in ran : c[1] # NULL
  BY <1>0 DEF OnceInv, StoredInv, Stored, NULL
<1>8. \A t \in Threads : Calling(t) => wfunc[t] # NULL
  BY DEF BoundsInv, CallingInv, Calling
<1>9. StoredInv'
  BY <1>0, <1>2, <1>4, <1>5 DEF OnceInv, StoredInv
<1>10. OnePlaceInv'
  BY <1>4 DEF OnceInv, OnePlaceInv
<1>11. OneCallInv'
  BY <1>2, <1>4, <1>5, <1>8 DEF OnceInv, OneCallInv
<1>12. ClearedInv'
  BY <1>2, <1>4, <1>5, <1>6, <1>7 DEF OnceInv, ClearedInv
<1> QED BY <1>9, <1>10, <1>11, <1>12 DEF OnceInv

\* add_job stores a job that was nowhere before.
LEMMA OnceFill ==
  ASSUME BoundsInv, OnceInv, \A j \in Nat : Stored(j) => Stored(j)', Fill
  PROVE  OnceInv'
<1>0. \A j : Stored(j) => j \in Nat
  BY DEF Stored, BoundsInv, TypeOK, TypeHistory
<1>1. PICK F \in (SUBSET cleft) \ {{}} :
        /\ mem' = [mem EXCEPT ![q][cslot] =
                     [f \in Fields |-> IF f \in F THEN added ELSE mem[q][cslot][f]]]
        /\ cleft' = cleft \ F
        /\ pc' = IF F = cleft THEN "addCount" ELSE "fill"
  BY DEF Fill
<1>2. pc = "fill" /\ UNCHANGED <<ran, added, wpc, wslot, wfunc, wleft>>
  BY DEF Fill, history, worker
<1>3. q \in Threads /\ cslot \in Slots /\ added \in Jobs
  BY <1>2, WorkedSlots
<1>4. \A t \in Threads, s \in Slots :
        FuncAt(t, s)' = IF t = q /\ s = cslot /\ "func" \in F THEN added ELSE FuncAt(t, s)
  BY <1>1, <1>3 DEF FuncAt, BoundsInv, TypeOK, TypeShared, Fields
<1>5. \A t : (Calling(t)' <=> Calling(t))
  BY <1>2 DEF Calling
<1>6. "func" \in F => ~ Stored(added) /\ Stored(added)'
  BY <1>1, <1>2, <1>3 DEF Stored, PendingAdd, WaitPCs, ResetPCs, Jobs
<1>7. added # NULL
  BY <1>3 DEF Jobs, NULL
<1>8. StoredInv'
  BY <1>0, <1>2, <1>4, <1>5, <1>6 DEF OnceInv, StoredInv
<1>9. OnePlaceInv'
  BY <1>4, <1>6, <1>7 DEF OnceInv, OnePlaceInv, StoredInv
<1>10. OneCallInv'
  BY <1>2, <1>4, <1>5, <1>6 DEF OnceInv, OneCallInv, StoredInv
<1>11. ClearedInv'
  BY <1>2, <1>4, <1>6 DEF OnceInv, ClearedInv, StoredInv
<1> QED BY <1>8, <1>9, <1>10, <1>11 DEF OnceInv

\* A pool that is being created has stored and run nothing.
LEMMA OnceInit == Init => OnceInv
<1> SUFFICES ASSUME Init PROVE OnceInv
  OBVIOUS
<1>1. /\ \A t \in Threads, s \in Slots : FuncAt(t, s) = NULL
      /\ \A t \in Threads : ~ Calling(t)
  BY DEF Init, FuncAt, Calling, NoJob, Fields
<1>2. ran = {}
  BY DEF Init
<1>3. StoredInv
  BY <1>1, <1>2 DEF StoredInv
<1>4. OnePlaceInv /\ OneCallInv /\ ClearedInv
  BY <1>1, <1>2 DEF OnePlaceInv, OneCallInv, ClearedInv
<1> QED BY <1>3, <1>4 DEF OnceInv

\* Every step of a worker and of the caller keeps it.
LEMMA OnceNext == BoundsInv /\ CallerInv /\ OnceInv /\ [Next]_vars => OnceInv'
<1> SUFFICES ASSUME BoundsInv, CallerInv, OnceInv, [Next]_vars PROVE OnceInv'
  OBVIOUS
<1>0. \A j \in Nat : Stored(j) => Stored(j)'
  BY StoredKept
<1>t. wpc \in [Threads -> WorkerPCs] /\ wslot \in [Threads -> Nat]
      /\ wfunc \in [Threads -> Jobs \cup {NULL}] /\ wleft \in [Threads -> SUBSET Fields]
  BY DEF BoundsInv, TypeOK, TypeWorkers
<1>1. ASSUME NEW u \in Threads,
             CanLoop(u) \/ LoadRear(u) \/ LoadFront(u) \/ CheckForce(u) \/ LoadValue(u)
               \/ FutexWait(u) \/ Interrupted(u)
      PROVE  OnceInv'
  <2>1. UNCHANGED <<mem, ran, wslot, wfunc, wleft>>
    BY <1>1 DEF CanLoop, LoadRear, LoadFront, CheckForce, LoadValue, FutexWait, Interrupted,
                shared, history
  <2>2. \E l \in {"done", "rear", "front", "take", "force", "val", "sleep", "asleep"} :
          wpc' = [wpc EXCEPT ![u] = l]
    BY <1>1 DEF CanLoop, LoadRear, LoadFront, CheckForce, LoadValue, FutexWait, Interrupted, Goto
  <2>3. wpc[u] \notin {"arg", "run", "clear"}
    BY <1>1 DEF CanLoop, LoadRear, LoadFront, CheckForce, LoadValue, FutexWait, Interrupted
  <2>4. \A t \in Threads : /\ wpc'[t] \in {"arg", "run"} => wpc[t] \in {"arg", "run"}
                           /\ wpc[t] = "clear" => wpc'[t] = "clear"
    BY <1>t, <2>2, <2>3
  <2> QED BY <1>0, <2>1, <2>4, FrameOnceInv
<1>2. ASSUME NEW u \in Threads, Take(u) PROVE OnceInv'
  BY <1>0, <1>t, <1>2, FrameOnceInv DEF Take, Goto
<1>3. ASSUME NEW u \in Threads, LoadArg(u) PROVE OnceInv'
  BY <1>0, <1>t, <1>3, FrameOnceInv DEF LoadArg, Goto, shared, history
<1>4. ASSUME NEW u \in Threads, SubJobCount(u) PROVE OnceInv'
  BY <1>0, <1>t, <1>4, FrameOnceInv DEF SubJobCount, Goto, history
<1>5. ASSUME NEW u \in Threads, WorkerStep(u) \/ Interrupted(u) PROVE OnceInv'
  BY <1>0, <1>1, <1>2, <1>3, <1>4, <1>5, OnceLoadFunc, OnceRun, OnceReset DEF WorkerStep
<1>6. CASE CreateThread \/ AddWake \/ WaitWake \/ ForceWake
  <2>1. UNCHANGED <<mem, ran, wslot, wfunc, wleft>>
    BY <1>6 DEF CreateThread, AddWake, WaitWake, ForceWake, Locals, shared, history
  <2>2. (wpc' = [wpc EXCEPT ![q] = "loop"] /\ wpc[q] = "none") \/ WakeQ
    BY <1>6 DEF CreateThread, AddWake, WaitWake, ForceWake, CallerInv, StartInv, Threads,
         BoundsInv, TypeOK, TypeCaller
  <2>3. CASE WakeQ
    BY <1>0, <1>t, <2>1, <2>3, FrameOnceInv DEF WakeQ
  <2>4. CASE wpc' = [wpc EXCEPT ![q] = "loop"] /\ wpc[q] = "none"
    <3>1. \A t \in Threads : wpc'[t] = IF t = q THEN "loop" ELSE wpc[t]
      BY <1>t, <2>4
    <3> QED BY <1>0, <2>1, <2>4, <3>1, FrameOnceInv
  <2> QED BY <2>2, <2>3, <2>4
<1>7. CASE CheckFull \/ AddRear \/ AddJobCount \/ WaitLoad \/ ResetFree \/ ResetCount
             \/ ResetFront \/ ResetRear \/ StoreForce \/ Join \/ JoinNoThread
  BY <1>0, <1>7, FrameOnceInv DEF CheckFull, AddRear, AddJobCount, WaitLoad, ResetFree, ResetCount,
       ResetFront, ResetRear, StoreForce, Join, JoinNoThread, worker, shared, history
<1>8. CASE CreateNoMemory \/ CreateFails \/ AddJob \/ Wait \/ Destroy
  BY <1>0, <1>8, FrameOnceInv DEF CreateNoMemory, CreateFails, AddJob, Wait, Destroy,
       worker, shared, history
<1>9. CASE UNCHANGED vars
  BY <1>0, <1>9, FrameOnceInv DEF vars, worker, shared, history
<1> QED
  BY <1>0, <1>5, <1>6, <1>7, <1>8, <1>9, OnceFill DEF Next, CallerStep, CallerStart

-----------------------------------------------------------------------------
(* The drain.  While every take finds a complete record, each queue is a   *)
(* queue: between front and rear lie the jobs still to be run, in order.   *)

\* The slots of records that are still to be taken; the reset of rear, the last of
\* four stores, takes effect with that of front.
End(t)    == IF q = t /\ pc = "resetRear" THEN 0 ELSE rear[t]
Queued(t) == {s \in Slots : front[t] <= s /\ s < End(t)}

Filling(t)   == q = t /\ pc = "fill"
Resetting(t) == q = t /\ pc \in ResetPCs
Working(t)   == wpc[t] \in {"func", "arg", "run", "clear"}

\* The job whose record is at s, being filled or full.
JobAt(t, s) == IF Filling(t) /\ s = cslot THEN added ELSE FuncAt(t, s)

\* The worker has taken job j and not run it.
InHand(t, j) == \/ wpc[t] = "func" /\ FuncAt(t, wslot[t]) = j
                \/ Calling(t) /\ wfunc[t] = j

\* Where front and rear are, and the record that is worked on.  A forced worker takes
\* one record that is none, the first.
PlaceInv(t) ==
  /\ Busy(t) = 1 => wslot[t] + 1 = front[t]
  /\ wpc[t] = "func" => InQueue(wslot[t])
  /\ wpc[t] # "fault"
  /\ ~ Forced(t) => front[t] <= End(t)
  /\ Forced(t) => /\ rear[t] = 0
                  /\ \/ front[t] = 0
                     \/ front[t] = 1 /\ wpc[t] \in {"func", "sub", "loop", "done"}
                  /\ wpc[t] = "func" => FuncAt(t, wslot[t]) = NULL

\* What job_count should be; it is compared in 32 bits.
Due(t) == rear[t] - front[t] + Busy(t) - Uncounted(t)

LedgerInv(t) ==
  /\ Resetting(t) => count[t] = 0 /\ Busy(t) = 0 /\ front[t] = End(t)
  /\ ~ Resetting(t) => count[t] = IF Due(t) < 0 THEN Due(t) + Wrap ELSE Due(t)

\* The records in the queue are full, but for the one being filled; the others are
\* empty, but for the one worked on.
RecordInv(t) ==
  /\ \A s \in Queued(t) : ~ (Filling(t) /\ s = cslot) => FuncAt(t, s) = mem[t][s]["arg"]
  /\ Filling(t) => /\ cslot + 1 = rear[t] /\ front[t] <= cslot /\ cleft # {}
                   /\ \A f \in Fields : mem[t][cslot][f] = IF f \in cleft THEN NULL ELSE added
  /\ \A s \in Slots : ~ (front[t] <= s /\ s < End(t)) /\ ~ (Working(t) /\ s = wslot[t])
       => mem[t][s] = NoJob
  /\ wpc[t] = "func" => FuncAt(t, wslot[t]) = mem[t][wslot[t]]["arg"]
  /\ wpc[t] = "arg" => mem[t][wslot[t]]["arg"] = wfunc[t]
  /\ wpc[t] = "run" => warg[t] = wfunc[t]
  /\ wpc[t] = "clear" => \A f \in Fields \ wleft[t] : mem[t][wslot[t]][f] = NULL

\* Every job of the queue has run, is in hand or in the queue, in this order.
OrderInv(t) ==
  /\ \A j \in Visible(t) :
       \/ <<j, j>> \in ran
       \/ InHand(t, j)
       \/ \E s \in Queued(t) : JobAt(t, s) = j
  /\ \A s \in Queued(t) : JobAt(t, s) \in Visible(t)
  /\ \A r, s \in Queued(t) : r < s => JobAt(t, r) < JobAt(t, s)
  /\ \A j \in Jobs : InHand(t, j) => j \in Visible(t) /\ \A s \in Queued(t) : j < JobAt(t, s)

QueueInv(t) == PlaceInv(t) /\ LedgerInv(t) /\ RecordInv(t) /\ OrderInv(t)

\* All this is lost with the first early take.
DrainInv == ~ early => \A t \in Threads : QueueInv(t)

\* What a step may do around queue t without touching it.
Idle == {"none", "loop", "rear", "front", "force", "val", "sleep", "asleep", "take", "done"}

WorkerAway(t) ==
  /\ mem'[t] = mem[t] /\ front'[t] = front[t] /\ count'[t] = count[t]
  /\ wslot'[t] = wslot[t] /\ wfunc'[t] = wfunc[t] /\ warg'[t] = warg[t] /\ wleft'[t] = wleft[t]
  /\ \/ wpc'[t] = wpc[t]
     \/ /\ wpc[t] \in Idle /\ wpc'[t] \in Idle
        /\ Forced(t) /\ wpc[t] \in {"loop", "done"} => wpc'[t] \in {"loop", "done"}
  /\ ran \subseteq ran'

CallerAway(t) ==
  /\ rear'[t] = rear[t] /\ fux'[t] = fux[t]
  /\ End(t)' = End(t) /\ Uncounted(t)' = Uncounted(t)
  /\ Resetting(t)' <=> Resetting(t)
  /\ Filling(t)' <=> Filling(t)
  /\ Filling(t) => cslot' = cslot /\ cleft' = cleft /\ added' = added
  /\ Visible(t)' = Visible(t)

\* A queue that neither its worker nor the program's thread works on stays right.
LEMMA QueueAway ==
  ASSUME BoundsInv, NEW t \in Threads, QueueInv(t), WorkerAway(t), CallerAway(t)
  PROVE  QueueInv(t)'
<1>1. /\ Busy(t)' = Busy(t) /\ (Forced(t)' <=> Forced(t)) /\ (Working(t)' <=> Working(t))
      /\ (Calling(t)' <=> Calling(t)) /\ (wpc'[t] = wpc[t] \/ (wpc[t] \in Idle /\ wpc'[t] \in Idle))
  <2>1. Forced(t)' <=> Forced(t)
    BY DEF CallerAway, Forced
  <2>2. CASE wpc'[t] = wpc[t]
    <3>1. Busy(t)' = Busy(t)
      BY <2>2 DEF Busy
    <3>2. (Working(t)' <=> Working(t)) /\ (Calling(t)' <=> Calling(t))
      BY <2>2 DEF Working, Calling
    <3> QED BY <2>1, <2>2, <3>1, <3>2
  <2>3. CASE wpc[t] \in Idle /\ wpc'[t] \in Idle
    <3>1. Busy(t) = 0 /\ Busy(t)' = 0
      BY <2>3 DEF Busy, Idle
    <3>2. ~ Working(t) /\ ~ Working(t)' /\ ~ Calling(t) /\ ~ Calling(t)'
      BY <2>3 DEF Working, Calling, Idle
    <3> QED BY <2>1, <2>3, <3>1, <3>2
  <2> QED BY <2>2, <2>3 DEF WorkerAway
<1>2. Queued(t)' = Queued(t)
  BY DEF WorkerAway, CallerAway, Queued
<1>3. \A s : FuncAt(t, s)' = FuncAt(t, s) /\ JobAt(t, s)' = JobAt(t, s)
  BY DEF WorkerAway, CallerAway, FuncAt, JobAt
<1>4. \A j : InHand(t, j)' <=> InHand(t, j)
  BY <1>1, <1>3 DEF WorkerAway, InHand, Idle
<1>5. PlaceInv(t)'
  BY <1>1, <1>3 DEF WorkerAway, CallerAway, QueueInv, PlaceInv, Idle, InQueue
<1>6. LedgerInv(t)'
  BY <1>1 DEF WorkerAway, CallerAway, QueueInv, LedgerInv, Due
<1>7. RecordInv(t)'
  BY <1>1, <1>2, <1>3 DEF WorkerAway, CallerAway, QueueInv, RecordInv, Idle
<1>8. OrderInv(t)'
  BY <1>2, <1>3, <1>4 DEF WorkerAway, CallerAway, QueueInv, OrderInv
<1> QED BY <1>5, <1>6, <1>7, <1>8 DEF QueueInv

\* The types that the steps of one queue need.
LEMMA QueueTypes ==
  ASSUME BoundsInv, NEW t \in Threads
  PROVE  /\ t \in Nat /\ q \in Threads /\ added \in 0 .. MaxJobs
         /\ front[t] \in Nat /\ rear[t] \in Nat /\ count[t] \in 0 .. Wrap - 1
         /\ wslot[t] \in Nat /\ wpc[t] \in WorkerPCs /\ cslot \in Nat
         /\ End(t) \in Nat /\ End(t) <= rear[t]
         /\ Busy(t) \in {0, 1} /\ Uncounted(t) \in {0, 1}
  BY DEF BoundsInv, TypeOK, TypeShared, TypeWorkers, TypeCaller, TypeHistory, Threads, End, Busy, Uncounted

\* A slot below rear is inside the queue.
LEMMA BelowRear ==
  ASSUME BoundsInv, CallerInv, NEW t \in Threads, NEW s \in Nat, s < rear[t]
  PROVE  s \in Slots /\ InQueue(s)
<1>1. rear[t] \in Nat /\ rear[t] * JobSize <= QueueSize
  BY QueueTypes DEF CallerInv, RearInv
<1>2. InQueue(s)
  BY <1>1, ConstantFacts DEF InQueue, JobSize
<1> QED BY <1>2, InQueueSlot

\* What a step of worker u leaves alone.
LEMMA WorkerCallerAway ==
  ASSUME UNCHANGED <<rear, fux, caller, added>>, NEW t \in Threads
  PROVE  CallerAway(t)
  BY DEF CallerAway, caller, End, Uncounted, Resetting, Filling, Visible

\* A forced worker takes a record, although there is none.
LEMMA QueueTakeForced ==
  ASSUME BoundsInv, CallerInv, NEW u \in Threads, QueueInv(u), Take(u), Forced(u)
  PROVE  QueueInv(u)'
<1> USE QueueTypes
<1>1. wpc[u] = "take" /\ Busy(u) = 0 /\ ~ Working(u) /\ front[u] = 0 /\ rear[u] = 0
  BY DEF Take, QueueInv, PlaceInv, Busy, Working
<1>2. /\ wslot'[u] = 0 /\ front'[u] = 1 /\ wpc'[u] = "func"
      /\ UNCHANGED <<mem, rear, count, fux, caller, added, ran>>
  BY <1>1 DEF Take, Goto, BoundsInv, TypeOK, TypeShared, TypeWorkers
<1>3. cont = "destroy" /\ ~ Resetting(u) /\ ~ Filling(u)
  BY DEF CallerInv, DestroyInv, Resetting, Filling, ResetPCs, WaitPCs, Wakes
<1>4. /\ Busy(u)' = 1 /\ Uncounted(u)' = Uncounted(u) /\ ~ Resetting(u)' /\ ~ Filling(u)'
      /\ End(u) = 0 /\ End(u)' = 0 /\ Visible(u)' = Visible(u)
  BY <1>1, <1>2, <1>3 DEF Busy, Uncounted, Resetting, Filling, End, Visible, caller
<1>5. Queued(u) = {} /\ Queued(u)' = {}
  <2>1. \A s \in Slots : s \in Nat /\ ~ (s < 0)
    BY DEF Slots
  <2> QED BY <1>1, <1>2, <1>4, <2>1 DEF Queued
<1>6. 0 \in Slots /\ InQueue(0)
  BY ConstantFacts, InQueueSlot DEF InQueue, JobSize
<1>7. \A s \in Slots : mem'[u][s] = NoJob
  <2>1. \A s \in Slots : s \in Nat
    BY DEF Slots
  <2>2. \A s \in Slots : mem[u][s] = NoJob
    BY <1>1, <1>4, <2>1 DEF QueueInv, RecordInv
  <2> QED BY <1>2, <2>2
<1>8. PlaceInv(u)'
  <2>1. FuncAt(u, 0)' = NULL
    BY <1>6, <1>7 DEF FuncAt, NoJob, Fields
  <2> QED BY <1>2, <1>1, <1>6, <2>1 DEF PlaceInv, InQueue, Forced, FuncAt
<1>9. LedgerInv(u)'
  BY <1>1, <1>2, <1>3, <1>4 DEF QueueInv, LedgerInv, Due
<1>10. RecordInv(u)'
  BY <1>2, <1>4, <1>5, <1>6, <1>7 DEF RecordInv, FuncAt, NoJob, Fields
<1>11. OrderInv(u)'
  <2>1. \A j \in Jobs : ~ InHand(u, j) /\ ~ InHand(u, j)'
    BY <1>1, <1>2, <1>6, <1>7 DEF InHand, Calling, FuncAt, NoJob, Fields, Jobs, NULL
  <2>2. \A j \in Visible(u) : j \in Jobs
    BY ConstantFacts DEF Visible, Jobs
  <2>3. \A j \in Visible(u) : <<j, j>> \in ran
    BY <1>5, <2>1, <2>2 DEF QueueInv, OrderInv
  <2> QED BY <1>2, <1>4, <1>5, <2>1, <2>3 DEF OrderInv
<1> QED BY <1>8, <1>9, <1>10, <1>11 DEF QueueInv

\* Otherwise it takes the oldest record of the queue, and that is full.
LEMMA QueueTakeFull ==
  ASSUME BoundsInv, CallerInv, NEW u \in Threads, QueueInv(u), Take(u), ~ Forced(u), ~ early'
  PROVE  QueueInv(u)'
<1> USE QueueTypes
<1> DEFINE s == front[u]
<1>1. wpc[u] = "take" /\ Busy(u) = 0 /\ ~ Working(u) /\ ~ Calling(u)
  BY DEF Take, Busy, Working, Calling
<1>2. /\ wslot'[u] = s /\ front'[u] = s + 1 /\ wpc'[u] = "func"
      /\ UNCHANGED <<mem, rear, count, fux, caller, added, ran, wfunc>>
  BY DEF Take, Goto, BoundsInv, TypeOK, TypeShared, TypeWorkers
<1>3. s < rear[u] /\ s \in Slots /\ \A f \in Fields : mem[u][s][f] # NULL
  BY DEF Take, Forced
<1>4. ~ Resetting(u) /\ s < End(u)
  <2>1. CASE Resetting(u) /\ pc = "resetRear"
    <3>1. mem[u][s] = NoJob
      BY <1>1, <1>3, <2>1 DEF QueueInv, LedgerInv, RecordInv, Resetting
    <3> QED BY <1>3, <3>1 DEF NoJob, Fields
  <2>2. CASE Resetting(u) /\ pc # "resetRear"
    BY <1>3, <2>2 DEF QueueInv, LedgerInv, End
  <2>3. CASE ~ Resetting(u)
    BY <1>3, <2>3 DEF Resetting, End, ResetPCs
  <2> QED BY <2>1, <2>2, <2>3
<1>5. s \in Queued(u)
  BY <1>3, <1>4 DEF Queued
<1>6. ~ (Filling(u) /\ s = cslot)
  BY <1>3 DEF QueueInv, RecordInv, BoundsInv, TypeOK, TypeCaller
<1>7. JobAt(u, s) = FuncAt(u, s) /\ FuncAt(u, s) = mem[u][s]["arg"] /\ FuncAt(u, s) \in Visible(u)
  BY <1>5, <1>6 DEF QueueInv, RecordInv, OrderInv, JobAt
<1>8. CallerAway(u)
  BY <1>2, WorkerCallerAway
<1>9. Queued(u)' = Queued(u) \ {s} /\ \A r \in Queued(u)' : s < r
  BY <1>2, <1>8 DEF CallerAway, Queued, Slots
<1>10. \A r : JobAt(u, r)' = JobAt(u, r) /\ FuncAt(u, r)' = FuncAt(u, r)
  BY <1>2, <1>8 DEF CallerAway, JobAt, FuncAt
<1>11. \A j : ~ InHand(u, j) /\ (InHand(u, j)' <=> j = FuncAt(u, s))
  BY <1>1, <1>2 DEF InHand, Calling, FuncAt
<1>12. PlaceInv(u)'
  <2>1. InQueue(s)
    BY <1>3, BelowRear
  <2>2. ~ Forced(u)'
    BY <1>2 DEF Forced
  <2> QED BY <1>2, <1>4, <1>8, <2>1, <2>2 DEF PlaceInv, CallerAway, InQueue
<1>13. LedgerInv(u)'
  <2>1. Busy(u)' = 1
    BY <1>2 DEF Busy
  <2> QED BY <1>1, <1>2, <1>4, <1>8, <2>1 DEF QueueInv, LedgerInv, Due, CallerAway
<1>14. RecordInv(u)'
  <2>1. Working(u)'
    BY <1>2 DEF Working
  <2>2. \A r \in Slots : ~ (front'[u] <= r /\ r < End(u)') /\ r # s => mem'[u][r] = NoJob
    BY <1>1, <1>2, <1>8 DEF QueueInv, RecordInv, CallerAway, Slots
  <2>3. Filling(u)' => /\ cslot' + 1 = rear'[u] /\ front'[u] <= cslot' /\ cleft' # {}
                       /\ \A f \in Fields : mem'[u][cslot'][f] = IF f \in cleft' THEN NULL ELSE added'
    BY <1>2, <1>6, <1>8 DEF QueueInv, RecordInv, CallerAway, caller
  <2>4. \A r \in Queued(u)' : ~ (Filling(u)' /\ r = cslot') => FuncAt(u, r)' = mem'[u][r]["arg"]
    BY <1>2, <1>8, <1>9, <1>10 DEF QueueInv, RecordInv, CallerAway, caller
  <2> QED BY <1>2, <1>7, <1>10, <2>1, <2>2, <2>3, <2>4 DEF RecordInv
<1>15. OrderInv(u)'
  <2>1. \A j \in Visible(u) : <<j, j>> \in ran \/ j = FuncAt(u, s) \/ \E r \in Queued(u)' : JobAt(u, r) = j
    BY <1>7, <1>9, <1>11 DEF QueueInv, OrderInv
  <2>2. \A r \in Queued(u)' : FuncAt(u, s) < JobAt(u, r)
    BY <1>5, <1>7, <1>9 DEF QueueInv, OrderInv
  <2>3. /\ \A r \in Queued(u)' : JobAt(u, r) \in Visible(u)
        /\ \A r1, r2 \in Queued(u)' : r1 < r2 => JobAt(u, r1) < JobAt(u, r2)
    BY <1>9 DEF QueueInv, OrderInv
  <2>4. Visible(u)' = Visible(u) /\ ran' = ran
    BY <1>2, <1>8 DEF CallerAway
  <2> HIDE DEF s
  <2> QED BY <1>7, <1>10, <1>11, <2>1, <2>2, <2>3, <2>4 DEF OrderInv
<1> QED BY <1>12, <1>13, <1>14, <1>15 DEF QueueInv

\* A record is a pair of fields.
LEMMA RecordIsNoJob ==
  ASSUME BoundsInv, NEW t \in Threads, NEW s \in Slots, \A f \in Fields : mem[t][s][f] = NULL
  PROVE  mem[t][s] = NoJob
<1>1. mem[t][s] \in [Fields -> Jobs \cup {NULL}]
  BY DEF BoundsInv, TypeOK, TypeShared
<1> QED BY <1>1 DEF NoJob

\* The worker reads the function of the record that it took.
LEMMA QueueLoadFunc ==
  ASSUME BoundsInv, CallerInv, NEW u \in Threads, QueueInv(u), LoadFunc(u)
  PROVE  QueueInv(u)'
<1> USE QueueTypes
<1> DEFINE s == wslot[u]
<1>1. wpc[u] = "func" /\ Busy(u) = 1 /\ Working(u) /\ ~ Calling(u)
  BY DEF LoadFunc, Busy, Working, Calling
<1>2. InQueue(s) /\ s \in Slots /\ s + 1 = front[u]
  BY <1>1, InQueueSlot DEF QueueInv, PlaceInv
<1>3. /\ UNCHANGED <<mem, front, rear, count, fux, wslot, wleft, caller, added, ran>>
      /\ wfunc'[u] = FuncAt(u, s)
      /\ wpc'[u] = IF FuncAt(u, s) = NULL THEN "sub" ELSE "arg"
  BY <1>2 DEF LoadFunc, Goto, FuncAt, shared, history, BoundsInv, TypeOK, TypeWorkers
<1>4. CallerAway(u)
  BY <1>3, WorkerCallerAway
<1>5. Queued(u)' = Queued(u)
  BY <1>3, <1>4 DEF CallerAway, Queued
<1>6. \A r : JobAt(u, r)' = JobAt(u, r) /\ FuncAt(u, r)' = FuncAt(u, r)
  BY <1>3, <1>4 DEF CallerAway, JobAt, FuncAt
<1>7. \A j \in Jobs : InHand(u, j)' <=> InHand(u, j)
  <2>1. \A j \in Jobs : j # NULL
    BY DEF Jobs, NULL
  <2> QED BY <1>1, <1>3, <1>6, <2>1 DEF InHand, Calling
<1>8. Busy(u)' = Busy(u) /\ (Forced(u)' <=> Forced(u))
  BY <1>1, <1>3 DEF Busy, Forced
<1>9. PlaceInv(u)'
  <2>1. Forced(u) => FuncAt(u, s) = NULL
    BY <1>1 DEF QueueInv, PlaceInv
  <2> QED BY <1>1, <1>2, <1>3, <1>4, <1>8, <2>1 DEF QueueInv, PlaceInv, CallerAway
<1>10. LedgerInv(u)'
  BY <1>3, <1>4, <1>8 DEF QueueInv, LedgerInv, Due, CallerAway
<1>11. RecordInv(u)'
  <2>1. FuncAt(u, s) = mem[u][s]["arg"]
    BY <1>1 DEF QueueInv, RecordInv
  <2>2. FuncAt(u, s) = NULL => mem[u][s] = NoJob
    BY <1>2, <2>1, RecordIsNoJob DEF FuncAt, Fields
  <2>3. Working(u)' <=> FuncAt(u, s) # NULL
    BY <1>3 DEF Working
  <2>4. \A r \in Slots : ~ (front'[u] <= r /\ r < End(u)') /\ ~ (Working(u)' /\ r = wslot'[u])
          => mem'[u][r] = NoJob
    BY <1>1, <1>3, <1>4, <2>2, <2>3 DEF QueueInv, RecordInv, CallerAway
  <2>5. \A r \in Queued(u)' : ~ (Filling(u)' /\ r = cslot') => FuncAt(u, r)' = mem'[u][r]["arg"]
    BY <1>3, <1>4, <1>5, <1>6 DEF QueueInv, RecordInv, CallerAway, caller
  <2>6. Filling(u)' => /\ cslot' + 1 = rear'[u] /\ front'[u] <= cslot' /\ cleft' # {}
                       /\ \A f \in Fields : mem'[u][cslot'][f] = IF f \in cleft' THEN NULL ELSE added'
    BY <1>3, <1>4 DEF QueueInv, RecordInv, CallerAway, caller
  <2> QED BY <1>3, <2>1, <2>4, <2>5, <2>6 DEF RecordInv
<1>12. OrderInv(u)'
  <2>1. \A j \in Visible(u) : j \in Jobs
    BY ConstantFacts DEF Visible, Jobs
  <2> QED BY <1>3, <1>4, <1>5, <1>6, <1>7, <2>1 DEF QueueInv, OrderInv, CallerAway
<1> QED BY <1>9, <1>10, <1>11, <1>12 DEF QueueInv

\* It reads the argument.
LEMMA QueueLoadArg ==
  ASSUME BoundsInv, CallerInv, NEW u \in Threads, QueueInv(u), LoadArg(u)
  PROVE  QueueInv(u)'
<1> USE QueueTypes
<1>1. /\ wpc[u] = "arg" /\ wpc'[u] = "run" /\ warg'[u] = mem[u][wslot[u]]["arg"]
      /\ UNCHANGED <<mem, front, rear, count, fux, wslot, wfunc, wleft, caller, added, ran>>
  BY DEF LoadArg, Goto, shared, history, BoundsInv, TypeOK, TypeWorkers
<1>2. CallerAway(u)
  BY <1>1, WorkerCallerAway
<1>3. Queued(u)' = Queued(u)
  BY <1>1, <1>2 DEF CallerAway, Queued
<1>4. \A r : JobAt(u, r)' = JobAt(u, r) /\ FuncAt(u, r)' = FuncAt(u, r)
  BY <1>1, <1>2 DEF CallerAway, JobAt, FuncAt
<1>5. \A j : InHand(u, j)' <=> InHand(u, j)
  BY <1>1, <1>4 DEF InHand, Calling
<1>6. Busy(u)' = Busy(u) /\ (Forced(u)' <=> Forced(u)) /\ Working(u) /\ Working(u)'
  BY <1>1 DEF Busy, Forced, Working
<1>7. PlaceInv(u)'
  BY <1>1, <1>2, <1>6 DEF QueueInv, PlaceInv, CallerAway
<1>8. LedgerInv(u)'
  BY <1>1, <1>2, <1>6 DEF QueueInv, LedgerInv, Due, CallerAway
<1>9. RecordInv(u)'
  BY <1>1, <1>2, <1>3, <1>4, <1>6 DEF QueueInv, RecordInv, CallerAway, caller
<1>10. OrderInv(u)'
  BY <1>1, <1>2, <1>3, <1>4, <1>5 DEF QueueInv, OrderInv, CallerAway
<1> QED BY <1>7, <1>8, <1>9, <1>10 DEF QueueInv

\* The job in hand has run.
LEMMA QueueRun ==
  ASSUME BoundsInv, CallerInv, NEW u \in Threads, QueueInv(u), Run(u)
  PROVE  QueueInv(u)'
<1> USE QueueTypes
<1>1. /\ wpc[u] = "run" /\ wpc'[u] = "clear" /\ wleft'[u] = Fields
      /\ ran' = ran \cup {<<wfunc[u], warg[u]>>}
      /\ UNCHANGED <<mem, front, rear, count, fux, wslot, wfunc, warg, caller, added>>
  BY DEF Run, Goto, shared, history, BoundsInv, TypeOK, TypeWorkers
<1>2. CallerAway(u)
  BY <1>1, WorkerCallerAway
<1>3. Queued(u)' = Queued(u)
  BY <1>1, <1>2 DEF CallerAway, Queued
<1>4. \A r : JobAt(u, r)' = JobAt(u, r) /\ FuncAt(u, r)' = FuncAt(u, r)
  BY <1>1, <1>2 DEF CallerAway, JobAt, FuncAt
<1>5. \A j : ~ InHand(u, j)' /\ (InHand(u, j) <=> j = wfunc[u])
  BY <1>1 DEF InHand, Calling
<1>6. Busy(u)' = Busy(u) /\ (Forced(u)' <=> Forced(u)) /\ Working(u) /\ Working(u)'
  BY <1>1 DEF Busy, Forced, Working
<1>7. PlaceInv(u)'
  BY <1>1, <1>2, <1>6 DEF QueueInv, PlaceInv, CallerAway
<1>8. LedgerInv(u)'
  BY <1>1, <1>2, <1>6 DEF QueueInv, LedgerInv, Due, CallerAway
<1>9. RecordInv(u)'
  BY <1>1, <1>2, <1>3, <1>4, <1>6 DEF QueueInv, RecordInv, CallerAway, caller
<1>10. OrderInv(u)'
  <2>1. <<wfunc[u], wfunc[u]>> \in ran' /\ ran \subseteq ran'
    BY <1>1 DEF QueueInv, RecordInv
  <2> QED BY <1>2, <1>3, <1>4, <1>5, <2>1 DEF QueueInv, OrderInv, CallerAway
<1> QED BY <1>7, <1>8, <1>9, <1>10 DEF QueueInv

\* The record worked on is cleared; it lies before front, and no other is touched.
LEMMA QueueReset ==
  ASSUME BoundsInv, CallerInv, NEW u \in Threads, QueueInv(u), JobReset(u)
  PROVE  QueueInv(u)'
<1> USE QueueTypes
<1> DEFINE s == wslot[u]
<1>1. PICK F \in (SUBSET wleft[u]) \ {{}} :
        /\ mem' = [mem EXCEPT ![u][s] = [f \in Fields |-> IF f \in F THEN NULL ELSE mem[u][s][f]]]
        /\ wleft' = [wleft EXCEPT ![u] = @ \ F]
        /\ wpc' = [wpc EXCEPT ![u] = IF F = wleft[u] THEN "sub" ELSE "clear"]
  BY DEF JobReset, Goto
<1>2. /\ wpc[u] = "clear" /\ Busy(u) = 1 /\ Working(u) /\ ~ Calling(u)
      /\ UNCHANGED <<front, rear, count, fux, wslot, wfunc, warg, caller, added, ran>>
  BY DEF JobReset, Busy, Working, Calling, history
<1>3. s \in Slots /\ s + 1 = front[u]
  BY <1>2, WorkedSlots DEF QueueInv, PlaceInv
<1>4. /\ wleft'[u] = wleft[u] \ F /\ wleft[u] \subseteq Fields
      /\ wpc'[u] = IF F = wleft[u] THEN "sub" ELSE "clear"
  BY <1>1 DEF BoundsInv, TypeOK, TypeWorkers
<1>5. /\ \A r \in Slots : r # s => mem'[u][r] = mem[u][r]
      /\ \A f \in Fields : mem'[u][s][f] = IF f \in F THEN NULL ELSE mem[u][s][f]
  BY <1>1, <1>3 DEF BoundsInv, TypeOK, TypeShared
<1>6. mem'[u][s] = [f \in Fields |-> IF f \in F THEN NULL ELSE mem[u][s][f]]
  BY <1>1, <1>3 DEF BoundsInv, TypeOK, TypeShared
<1>7. CallerAway(u)
  BY <1>2, WorkerCallerAway
<1>8. Queued(u)' = Queued(u) /\ s \notin Queued(u)
  BY <1>2, <1>3, <1>7 DEF CallerAway, Queued
<1>9. Filling(u) => cslot # s /\ cslot \in Slots
  BY <1>3, WorkedSlots DEF QueueInv, RecordInv, Filling
<1>10. \A r \in Queued(u) : JobAt(u, r)' = JobAt(u, r) /\ FuncAt(u, r)' = FuncAt(u, r)
  <2>1. \A r \in Queued(u) : r \in Slots /\ r # s
    BY <1>8 DEF Queued
  <2> QED BY <1>2, <1>5, <1>7, <2>1 DEF CallerAway, JobAt, FuncAt
<1>11. \A j : ~ InHand(u, j) /\ ~ InHand(u, j)'
  BY <1>2, <1>4 DEF InHand, Calling
<1>12. Busy(u)' = 1 /\ (Forced(u)' <=> Forced(u))
  BY <1>2, <1>4 DEF Busy, Forced
<1>13. PlaceInv(u)'
  BY <1>2, <1>4, <1>7, <1>12 DEF QueueInv, PlaceInv, CallerAway
<1>14. LedgerInv(u)'
  BY <1>2, <1>7, <1>12 DEF QueueInv, LedgerInv, Due, CallerAway
<1>15. RecordInv(u)'
  <2>1. \A f \in Fields \ wleft'[u] : mem'[u][s][f] = NULL
    BY <1>2, <1>4, <1>5 DEF QueueInv, RecordInv
  <2>2. wpc'[u] = "sub" => mem'[u][s] = NoJob
    <3>1. wpc'[u] = "sub" => \A f \in Fields : mem'[u][s][f] = NULL
      BY <1>4, <2>1
    <3> QED BY <1>6, <3>1 DEF NoJob
  <2>3. wpc'[u] # "sub" => Working(u)'
    BY <1>4 DEF Working
  <2>4. \A r \in Slots : ~ (front'[u] <= r /\ r < End(u)') /\ ~ (Working(u)' /\ r = wslot'[u])
          => mem'[u][r] = NoJob
    BY <1>2, <1>5, <1>7, <2>2, <2>3 DEF QueueInv, RecordInv, CallerAway
  <2>5. \A r \in Queued(u)' : ~ (Filling(u)' /\ r = cslot') => FuncAt(u, r)' = mem'[u][r]["arg"]
    <3>1. \A r \in Queued(u) : mem'[u][r] = mem[u][r]
      BY <1>5, <1>8 DEF Queued
    <3> QED BY <1>2, <1>7, <1>8, <1>10, <3>1 DEF QueueInv, RecordInv, CallerAway, caller
  <2>6. Filling(u)' => /\ cslot' + 1 = rear'[u] /\ front'[u] <= cslot' /\ cleft' # {}
                       /\ \A f \in Fields : mem'[u][cslot'][f] = IF f \in cleft' THEN NULL ELSE added'
    BY <1>2, <1>5, <1>7, <1>9 DEF QueueInv, RecordInv, CallerAway, caller
  <2> QED BY <1>2, <1>4, <2>1, <2>4, <2>5, <2>6 DEF RecordInv
<1>16. OrderInv(u)'
  <2> HIDE DEF s
  <2> QED BY <1>2, <1>7, <1>8, <1>10, <1>11 DEF QueueInv, OrderInv, CallerAway
<1> QED BY <1>13, <1>14, <1>15, <1>16 DEF QueueInv

\* The record is counted off.
LEMMA QueueSub ==
  ASSUME BoundsInv, CallerInv, NEW u \in Threads, QueueInv(u), SubJobCount(u)
  PROVE  QueueInv(u)'
<1> USE QueueTypes
<1>1. /\ wpc[u] = "sub" /\ wpc'[u] = "loop" /\ count'[u] = Dec(count[u])
      /\ UNCHANGED <<mem, front, rear, fux, wleft, caller, added, ran>>
  BY DEF SubJobCount, Goto, history, BoundsInv, TypeOK, TypeWorkers, TypeShared
<1>2. CallerAway(u)
  BY <1>1, WorkerCallerAway
<1>3. Queued(u)' = Queued(u)
  BY <1>1, <1>2 DEF CallerAway, Queued
<1>4. \A r : JobAt(u, r)' = JobAt(u, r) /\ FuncAt(u, r)' = FuncAt(u, r)
  BY <1>1, <1>2 DEF CallerAway, JobAt, FuncAt
<1>5. \A j : ~ InHand(u, j)' /\ ~ InHand(u, j)
  BY <1>1 DEF InHand, Calling
<1>6. Busy(u)' = 0 /\ Busy(u) = 1 /\ (Forced(u)' <=> Forced(u)) /\ ~ Working(u) /\ ~ Working(u)'
  BY <1>1 DEF Busy, Forced, Working
<1>7. PlaceInv(u)'
  BY <1>1, <1>2, <1>6 DEF QueueInv, PlaceInv, CallerAway
<1>8. LedgerInv(u)'
  <2>1. ~ Resetting(u) /\ ~ Resetting(u)'
    BY <1>2, <1>6 DEF QueueInv, LedgerInv, CallerAway
  <2>2. front[u] <= rear[u] + 1 /\ (front[u] = rear[u] + 1 => Uncounted(u) = 0)
    <3>1. CASE ~ Forced(u)
      BY <3>1 DEF QueueInv, PlaceInv
    <3>2. CASE Forced(u)
      <4>1. Uncounted(u) = 0
        BY <3>2 DEF CallerInv, DestroyInv, Uncounted, WaitPCs, ResetPCs, Wakes
      <4> QED BY <3>2, <4>1 DEF QueueInv, PlaceInv
    <3> QED BY <3>1, <3>2
  <2>3. Due(u)' = Due(u) - 1 /\ Due(u) \in Int /\ Due(u) >= 0
    <3>1. CASE front[u] <= rear[u]
      BY <1>1, <1>2, <1>6, <3>1 DEF Due, CallerAway
    <3>2. CASE front[u] = rear[u] + 1
      BY <1>1, <1>2, <1>6, <2>2, <3>2 DEF Due, CallerAway
    <3> QED BY <2>2, <3>1, <3>2
  <2>4. count[u] = Due(u)
    BY <2>1, <2>3 DEF QueueInv, LedgerInv
  <2>5. count'[u] = IF Due(u)' < 0 THEN Due(u)' + Wrap ELSE Due(u)'
    BY <1>1, <2>3, <2>4, ConstantFacts DEF Dec
  <2> QED BY <2>1, <2>5 DEF LedgerInv
<1>9. RecordInv(u)'
  BY <1>1, <1>2, <1>3, <1>4, <1>6 DEF QueueInv, RecordInv, CallerAway, caller
<1>10. OrderInv(u)'
  BY <1>1, <1>2, <1>3, <1>4, <1>5 DEF QueueInv, OrderInv, CallerAway
<1> QED BY <1>7, <1>8, <1>9, <1>10 DEF QueueInv

\* add_job makes the next record visible; it was empty.
LEMMA QueueAddRear ==
  ASSUME BoundsInv, CallerInv, NEW t \in Threads, t = q, QueueInv(t), AddRear
  PROVE  QueueInv(t)'
<1> USE QueueTypes
<1>0. PICK slot \in Nat : slot = rear[t]
  OBVIOUS
<1>1. /\ pc = "addRear" /\ pc' = "fill" /\ q' = q /\ cslot' = slot /\ rear'[t] = slot + 1 /\ cleft' = Fields
      /\ UNCHANGED <<mem, front, count, fux, worker, added, ran>>
  BY <1>0 DEF AddRear, history, BoundsInv, TypeOK, TypeShared
<1>2. ~ Forced(t) /\ ~ Forced(t)' /\ ~ Resetting(t) /\ ~ Resetting(t)' /\ ~ Filling(t) /\ Filling(t)'
  BY <1>1 DEF CallerInv, DestroyInv, Forced, Resetting, Filling, WaitPCs, ResetPCs, Wakes
<1>3. slot \in Slots /\ InQueue(slot)
  BY <1>0, <1>1, InQueueSlot DEF BoundsInv, RoomInv
<1>4. End(t) = slot /\ End(t)' = slot + 1 /\ front[t] <= slot
  BY <1>0, <1>1, <1>2 DEF End, QueueInv, PlaceInv
<1>5. Queued(t)' = Queued(t) \cup {slot} /\ \A r \in Queued(t) : r < slot /\ r \in Nat
  BY <1>1, <1>3, <1>4 DEF Queued, Slots
<1>6. \A r : FuncAt(t, r)' = FuncAt(t, r)
  BY <1>1 DEF FuncAt
<1>7. JobAt(t, slot)' = added /\ \A r \in Queued(t) : JobAt(t, r)' = JobAt(t, r)
  <2>1. \A r \in Queued(t) : r # slot
    BY <1>5
  <2> QED BY <1>1, <1>2, <1>6, <2>1 DEF JobAt
<1>8. /\ Busy(t)' = Busy(t) /\ (Working(t)' <=> Working(t)) /\ \A j : (InHand(t, j)' <=> InHand(t, j))
      /\ Uncounted(t) = 0 /\ Uncounted(t)' = 1
  BY <1>1, <1>6 DEF worker, Busy, Working, InHand, Calling, Uncounted
<1>9. Working(t) => wslot[t] < slot
  <2>1. Working(t) => Busy(t) = 1
    BY DEF Working, Busy
  <2> QED BY <1>4, <2>1 DEF QueueInv, PlaceInv
<1>10. mem[t][slot] = NoJob
  BY <1>3, <1>4, <1>9 DEF QueueInv, RecordInv
<1>11. Visible(t)' = Visible(t) \cup {added} /\ \A j \in Visible(t) : j < added
  <2>1. PendingAdd /\ ~ PendingAdd' /\ added > 0 /\ Owner(added) = t
    BY <1>1 DEF PendingAdd, WaitPCs, ResetPCs, BoundsInv, AddingInv, InCallAdd, CallerInv, RoundInv, Adding
  <2>2. Visible(t) = {j \in 1 .. added : Owner(j) = t /\ j # added}
    BY <1>1 DEF Visible
  <2>3. Visible(t)' = {j \in 1 .. added : Owner(j) = t}
    BY <1>1 DEF Visible, WaitPCs, ResetPCs
  <2> QED BY <2>1, <2>2, <2>3
<1>12. PlaceInv(t)'
  BY <1>1, <1>2, <1>4, <1>8 DEF QueueInv, PlaceInv, worker
<1>13. LedgerInv(t)'
  BY <1>0, <1>1, <1>2, <1>8 DEF QueueInv, LedgerInv, Due
<1>14. RecordInv(t)'
  <2>1. \A r \in Queued(t)' : ~ (Filling(t)' /\ r = cslot') => FuncAt(t, r)' = mem'[t][r]["arg"]
    BY <1>1, <1>2, <1>5, <1>6 DEF QueueInv, RecordInv
  <2>2. \A r \in Slots : ~ (front'[t] <= r /\ r < End(t)') /\ ~ (Working(t)' /\ r = wslot'[t])
          => mem'[t][r] = NoJob
    BY <1>1, <1>4, <1>8 DEF QueueInv, RecordInv, worker, Slots
  <2>3. cleft' # {} /\ \A f \in Fields : mem'[t][cslot'][f] = IF f \in cleft' THEN NULL ELSE added'
    BY <1>1, <1>10 DEF NoJob, Fields
  <2>4. cslot' + 1 = rear'[t] /\ front'[t] <= cslot'
    BY <1>1, <1>4
  <2> QED BY <1>1, <1>6, <2>1, <2>2, <2>3, <2>4 DEF QueueInv, RecordInv, worker
<1>15. OrderInv(t)'
  <2>1. \A j \in Visible(t)' : \/ <<j, j>> \in ran' \/ InHand(t, j)'
                               \/ \E r \in Queued(t)' : JobAt(t, r)' = j
    <3>1. \E r \in Queued(t)' : JobAt(t, r)' = added
      BY <1>5, <1>7
    <3>2. ASSUME NEW j \in Visible(t), NEW r \in Queued(t), JobAt(t, r) = j
          PROVE  \E x \in Queued(t)' : JobAt(t, x)' = j
      BY <1>5, <1>7, <3>2
    <3>3. \A j \in Visible(t) : \/ <<j, j>> \in ran' \/ InHand(t, j)'
                                \/ \E r \in Queued(t)' : JobAt(t, r)' = j
      BY <1>1, <1>8, <3>2 DEF QueueInv, OrderInv
    <3> QED BY <1>11, <3>1, <3>3
  <2>2. \A r \in Queued(t)' : JobAt(t, r)' \in Visible(t)'
    BY <1>5, <1>7, <1>11 DEF QueueInv, OrderInv
  <2>3. \A r1, r2 \in Queued(t)' : r1 < r2 => JobAt(t, r1)' < JobAt(t, r2)'
    BY <1>5, <1>7, <1>11 DEF QueueInv, OrderInv
  <2>4. \A j \in Jobs : InHand(t, j)' => j \in Visible(t)' /\ \A r \in Queued(t)' : j < JobAt(t, r)'
    BY <1>5, <1>7, <1>8, <1>11 DEF QueueInv, OrderInv
  <2> QED BY <2>1, <2>2, <2>3, <2>4 DEF OrderInv
<1> QED BY <1>12, <1>13, <1>14, <1>15 DEF QueueInv

\* It fills the record, the function or the argument first or both.
LEMMA QueueFill ==
  ASSUME BoundsInv, CallerInv, NEW t \in Threads, t = q, QueueInv(t), Fill
  PROVE  QueueInv(t)'
<1> USE QueueTypes
<1>0. PICK slot \in Nat : slot = cslot
  OBVIOUS
<1>1. PICK F \in (SUBSET cleft) \ {{}} :
        /\ mem' = [mem EXCEPT ![q][slot] = [f \in Fields |-> IF f \in F THEN added ELSE mem[q][slot][f]]]
        /\ cleft' = cleft \ F
        /\ pc' = IF F = cleft THEN "addCount" ELSE "fill"
  BY <1>0 DEF Fill
<1>2. /\ pc = "fill" /\ Filling(t) /\ UNCHANGED <<front, rear, count, fux, worker, q, cont, cslot, added, ran>>
      /\ slot = cslot
  BY <1>0 DEF Fill, Filling, history
<1>3. slot \in Slots /\ slot + 1 = rear[t] /\ front[t] <= slot
  BY <1>2, WorkedSlots DEF QueueInv, RecordInv
<1>4. /\ \A r \in Slots : r # slot => mem'[t][r] = mem[t][r]
      /\ \A f \in Fields : mem'[t][slot][f] = IF f \in F THEN added ELSE mem[t][slot][f]
  BY <1>1, <1>3 DEF BoundsInv, TypeOK, TypeShared
<1>5. Filling(t)' <=> F # cleft
  BY <1>1, <1>2 DEF Filling
<1>6. \A f \in Fields : mem'[t][slot][f] = IF f \in cleft' THEN NULL ELSE added
  BY <1>1, <1>2, <1>4 DEF QueueInv, RecordInv
<1>7. End(t) = rear[t] /\ End(t)' = rear[t] /\ ~ Resetting(t) /\ ~ Resetting(t)' /\ (Forced(t)' <=> Forced(t))
  BY <1>1, <1>2 DEF End, Resetting, ResetPCs, Forced
<1>8. /\ Busy(t)' = Busy(t) /\ (Working(t)' <=> Working(t)) /\ (Calling(t)' <=> Calling(t))
      /\ Uncounted(t)' = Uncounted(t)
  BY <1>1, <1>2 DEF worker, Busy, Working, Calling, Uncounted
<1>9. Working(t) => wslot[t] # slot /\ wslot[t] \in Slots
  <2>1. Working(t) => Busy(t) = 1
    BY DEF Working, Busy
  <2>2. Busy(t) = 1 => wslot[t] < slot
    BY <1>3 DEF QueueInv, PlaceInv
  <2>3. Working(t) => wslot[t] \in Slots
    BY WorkedSlots, InQueueSlot DEF Working, QueueInv, PlaceInv
  <2> QED BY <2>1, <2>2, <2>3
<1>10. Queued(t)' = Queued(t)
  BY <1>2, <1>7 DEF Queued
<1>11. \A r \in Slots : r # slot => FuncAt(t, r)' = FuncAt(t, r)
  BY <1>4 DEF FuncAt
<1>12. \A r \in Queued(t) : JobAt(t, r)' = JobAt(t, r)
  <2>1. JobAt(t, slot) = added
    BY <1>2 DEF JobAt
  <2>2. JobAt(t, slot)' = added
    BY <1>1, <1>2, <1>5, <1>6 DEF JobAt, FuncAt, Fields
  <2>3. \A r \in Queued(t) : r # slot => JobAt(t, r)' = JobAt(t, r)
    BY <1>2, <1>11 DEF JobAt, Queued
  <2> QED BY <2>1, <2>2, <2>3
<1>13. \A j : InHand(t, j)' <=> InHand(t, j)
  <2>1. Working(t) => FuncAt(t, wslot[t])' = FuncAt(t, wslot[t])
    BY <1>2, <1>9, <1>11 DEF worker, FuncAt
  <2> QED BY <1>2, <1>8, <2>1 DEF InHand, worker, Working
<1>14. Visible(t)' = Visible(t)
  BY <1>1, <1>2 DEF Visible, WaitPCs, ResetPCs
<1>15. PlaceInv(t)'
  <2>1. wpc[t] = "func" => FuncAt(t, wslot[t])' = FuncAt(t, wslot[t])
    BY <1>2, <1>9, <1>11 DEF worker, Working, FuncAt
  <2> QED BY <1>2, <1>7, <1>8, <2>1 DEF QueueInv, PlaceInv, worker
<1>16. LedgerInv(t)'
  BY <1>2, <1>7, <1>8 DEF QueueInv, LedgerInv, Due
<1>17. RecordInv(t)'
  <2>1. \A r \in Queued(t)' : ~ (Filling(t)' /\ r = cslot') => FuncAt(t, r)' = mem'[t][r]["arg"]
    <3>1. \A r \in Queued(t) : r # slot => FuncAt(t, r)' = mem'[t][r]["arg"]
      BY <1>2, <1>4, <1>11 DEF QueueInv, RecordInv, Queued
    <3>2. ~ Filling(t)' => FuncAt(t, slot)' = mem'[t][slot]["arg"]
      BY <1>1, <1>2, <1>5, <1>6 DEF FuncAt, Fields
    <3> QED BY <1>2, <1>10, <3>1, <3>2
  <2>2. \A r \in Slots : ~ (front'[t] <= r /\ r < End(t)') /\ ~ (Working(t)' /\ r = wslot'[t])
          => mem'[t][r] = NoJob
    BY <1>2, <1>3, <1>4, <1>7, <1>8 DEF QueueInv, RecordInv, worker
  <2>3. Filling(t)' => cleft' # {}
    BY <1>1, <1>5
  <2>4. /\ cslot' + 1 = rear'[t] /\ front'[t] <= cslot'
        /\ \A f \in Fields : mem'[t][cslot'][f] = IF f \in cleft' THEN NULL ELSE added'
    BY <1>2, <1>3, <1>6
  <2>5. Working(t) => mem'[t][wslot[t]] = mem[t][wslot[t]] /\ FuncAt(t, wslot[t])' = FuncAt(t, wslot[t])
    BY <1>2, <1>4, <1>9, <1>11 DEF worker, FuncAt
  <2> QED BY <1>2, <2>1, <2>2, <2>3, <2>4, <2>5 DEF QueueInv, RecordInv, worker, Working
<1>18. OrderInv(t)'
  <2>1. OrderInv(t) /\ ran' = ran
    BY <1>2 DEF QueueInv
  <2>2. \A j \in Visible(t)' : \/ <<j, j>> \in ran' \/ InHand(t, j)'
                               \/ \E r \in Queued(t)' : JobAt(t, r)' = j
    <3>1. ASSUME NEW j \in Visible(t), NEW r \in Queued(t), JobAt(t, r) = j
          PROVE  \E x \in Queued(t)' : JobAt(t, x)' = j
      BY <1>10, <1>12, <3>1
    <3>2. \A j \in Visible(t) : \/ <<j, j>> \in ran' \/ InHand(t, j)'
                                \/ \E r \in Queued(t)' : JobAt(t, r)' = j
      BY <1>13, <2>1, <3>1 DEF OrderInv
    <3> QED BY <1>14, <3>2
  <2>3. \A r \in Queued(t)' : JobAt(t, r)' \in Visible(t)'
    BY <1>10, <1>12, <1>14, <2>1 DEF OrderInv
  <2>4. \A r1, r2 \in Queued(t)' : r1 < r2 => JobAt(t, r1)' < JobAt(t, r2)'
    BY <1>10, <1>12, <1>14, <2>1 DEF OrderInv
  <2>5. \A j \in Jobs : InHand(t, j)' => j \in Visible(t)' /\ \A r \in Queued(t)' : j < JobAt(t, r)'
    BY <1>10, <1>12, <1>13, <1>14, <2>1 DEF OrderInv
  <2> QED BY <2>2, <2>3, <2>4, <2>5 DEF OrderInv
<1> QED BY <1>15, <1>16, <1>17, <1>18 DEF QueueInv

\* The job is counted; job_count comes back from -1 if it has run already.
LEMMA QueueAddCount ==
  ASSUME BoundsInv, CallerInv, NEW t \in Threads, t = q, QueueInv(t), AddJobCount
  PROVE  QueueInv(t)'
<1> USE QueueTypes
<1>1. /\ pc = "addCount" /\ pc' = "wake" /\ count'[t] = Inc(count[t])
      /\ UNCHANGED <<mem, front, rear, fux, worker, q, cont, added, ran>>
  BY DEF AddJobCount, history, BoundsInv, TypeOK, TypeShared
<1>2. /\ ~ Forced(t) /\ ~ Forced(t)' /\ ~ Resetting(t) /\ ~ Resetting(t)' /\ ~ Filling(t) /\ ~ Filling(t)'
      /\ Uncounted(t) = 1 /\ Uncounted(t)' = 0
  BY <1>1 DEF CallerInv, DestroyInv, Forced, Resetting, Filling, Uncounted, WaitPCs, ResetPCs, Wakes
<1>3. End(t)' = End(t) /\ End(t) = rear[t] /\ Visible(t)' = Visible(t)
  BY <1>1 DEF End, Visible, WaitPCs, ResetPCs
<1>4. /\ Queued(t)' = Queued(t) /\ Busy(t)' = Busy(t) /\ (Working(t)' <=> Working(t))
      /\ (Calling(t)' <=> Calling(t))
  BY <1>1, <1>3 DEF worker, Queued, Busy, Working, Calling
<1>5. \A r : FuncAt(t, r)' = FuncAt(t, r) /\ JobAt(t, r)' = JobAt(t, r)
  BY <1>1, <1>2 DEF FuncAt, JobAt
<1>6. \A j : InHand(t, j)' <=> InHand(t, j)
  BY <1>1, <1>4, <1>5 DEF InHand, worker
<1>7. PlaceInv(t)'
  BY <1>1, <1>2, <1>3, <1>4, <1>5 DEF QueueInv, PlaceInv, worker
<1>8. LedgerInv(t)'
  <2>1. Due(t)' = Due(t) + 1
    BY <1>1, <1>2, <1>4 DEF Due
  <2>2. Due(t) \in -1 .. Wrap - 2
    <3>1. front[t] <= rear[t] /\ rear[t] <= added /\ (Busy(t) = 1 => front[t] >= 1)
      BY <1>2, <1>3 DEF QueueInv, PlaceInv, CallerInv, RearInv
    <3>2. rear[t] - front[t] + Busy(t) \in 0 .. MaxJobs
      BY <3>1, ConstantFacts
    <3> QED BY <1>2, <3>2, ConstantFacts DEF Due
  <2>3. count[t] = IF Due(t) < 0 THEN Due(t) + Wrap ELSE Due(t)
    BY <1>2 DEF QueueInv, LedgerInv
  <2>4. count'[t] = Due(t) + 1
    BY <1>1, <2>2, <2>3, ConstantFacts DEF Inc
  <2> QED BY <1>2, <2>1, <2>2, <2>4 DEF LedgerInv
<1>9. RecordInv(t)'
  BY <1>1, <1>2, <1>3, <1>4, <1>5 DEF QueueInv, RecordInv, worker
<1>10. OrderInv(t)'
  BY <1>1, <1>3, <1>4, <1>5, <1>6 DEF QueueInv, OrderInv
<1> QED BY <1>7, <1>8, <1>9, <1>10 DEF QueueInv

\* job_count was found 0: nothing is queued, and the worker has nothing in hand.
LEMMA QueueDrained ==
  ASSUME BoundsInv, CallerInv, NEW t \in Threads, t = q, QueueInv(t), WaitLoad, count[t] = 0
  PROVE  QueueInv(t)'
<1> USE QueueTypes
<1>1. /\ pc = "waitLoad" /\ pc' = "resetFree"
      /\ UNCHANGED <<mem, front, rear, count, fux, worker, q, cont, added, ran>>
  BY DEF WaitLoad, shared, history
<1>2. /\ ~ Forced(t) /\ ~ Forced(t)' /\ ~ Resetting(t) /\ Resetting(t)' /\ ~ Filling(t) /\ ~ Filling(t)'
      /\ Uncounted(t) = 0
  BY <1>1 DEF CallerInv, DestroyInv, Forced, Resetting, Filling, Uncounted, WaitPCs, ResetPCs, Wakes
<1>3. End(t)' = End(t) /\ End(t) = rear[t] /\ Visible(t)' = Visible(t)
  BY <1>1 DEF End, Visible, WaitPCs, ResetPCs
<1>4. /\ Queued(t)' = Queued(t) /\ Busy(t)' = Busy(t) /\ (Working(t)' <=> Working(t))
      /\ (Calling(t)' <=> Calling(t))
  BY <1>1, <1>3 DEF worker, Queued, Busy, Working, Calling
<1>5. \A r : FuncAt(t, r)' = FuncAt(t, r) /\ JobAt(t, r)' = JobAt(t, r)
  BY <1>1, <1>2 DEF FuncAt, JobAt
<1>6. \A j : InHand(t, j)' <=> InHand(t, j)
  BY <1>1, <1>4, <1>5 DEF InHand, worker
<1>7. PlaceInv(t)'
  BY <1>1, <1>2, <1>3, <1>4, <1>5 DEF QueueInv, PlaceInv, worker
<1>8. LedgerInv(t)'
  <2>1. front[t] <= rear[t]
    BY <1>2, <1>3 DEF QueueInv, PlaceInv
  <2>2. Due(t) = 0
    BY <1>2, <2>1 DEF QueueInv, LedgerInv, Due
  <2>3. Busy(t) = 0 /\ front[t] = rear[t]
    <3>1. front[t] \in Nat /\ rear[t] \in Nat /\ Busy(t) \in {0, 1} /\ Uncounted(t) = 0
      BY <1>2
    <3>2. rear[t] - front[t] + Busy(t) - 0 = 0
      BY <2>2, <3>1 DEF Due
    <3>3. \A f, r \in Nat : \A b \in {0, 1} : f <= r /\ r - f + b - 0 = 0 => b = 0 /\ f = r
      OBVIOUS
    <3> QED BY ONLY <2>1, <3>1, <3>2, <3>3
  <2> QED BY <1>1, <1>2, <1>3, <1>4, <2>3 DEF LedgerInv
<1>9. RecordInv(t)'
  BY <1>1, <1>2, <1>3, <1>4, <1>5 DEF QueueInv, RecordInv, worker
<1>10. OrderInv(t)'
  BY <1>1, <1>3, <1>4, <1>5, <1>6 DEF QueueInv, OrderInv
<1> QED BY <1>7, <1>8, <1>9, <1>10 DEF QueueInv

\* front and rear are set back: the queue is empty before, in between and after.
LEMMA QueueSetBack ==
  ASSUME BoundsInv, CallerInv, NEW t \in Threads, t = q, QueueInv(t), ResetFront \/ ResetRear
  PROVE  QueueInv(t)'
<1> USE QueueTypes
<1>1. /\ pc \in {"resetFront", "resetRear"} /\ front'[t] = 0
      /\ UNCHANGED <<mem, count, fux, worker, added, ran>>
      /\ pc' \in {"resetRear", "addRear", "force", "waitLoad", "idle"}
  <2>1. CASE ResetFront
    BY <2>1 DEF ResetFront, history, BoundsInv, TypeOK, TypeShared
  <2>2. CASE ResetRear
    <3>1. front[t] = 0
      BY <2>2 DEF ResetRear, QueueInv, LedgerInv, Resetting, ResetPCs, End
    <3> QED BY <2>2, <3>1 DEF ResetRear, history
  <2> QED BY <2>1, <2>2
<1>2. /\ ~ Forced(t) /\ ~ Forced(t)' /\ Resetting(t) /\ ~ Filling(t) /\ ~ Filling(t)'
      /\ Busy(t) = 0 /\ Busy(t)' = 0 /\ ~ Working(t) /\ ~ Working(t)' /\ ~ Calling(t) /\ ~ Calling(t)'
  <2>1. Resetting(t)
    BY <1>1 DEF Resetting, ResetPCs
  <2>2. Busy(t) = 0
    BY <2>1 DEF QueueInv, LedgerInv
  <2>3. wpc[t] \notin {"func", "arg", "run", "clear", "sub"}
    BY <2>2 DEF Busy
  <2>4. ~ Forced(t) /\ ~ Forced(t)'
    BY <1>1 DEF CallerInv, DestroyInv, Forced
  <2>5. ~ Filling(t) /\ ~ Filling(t)'
    BY <1>1 DEF Filling
  <2> QED BY <1>1, <2>1, <2>2, <2>3, <2>4, <2>5 DEF worker, Busy, Working, Calling
<1>3. End(t)' = 0
  BY DEF ResetFront, ResetRear, End, BoundsInv, TypeOK, TypeShared
<1>4. front[t] = End(t) /\ count[t] = 0
  BY <1>2 DEF QueueInv, LedgerInv
<1>5. Queued(t) = {} /\ Queued(t)' = {}
  <2>1. \A r \in Slots : ~ (front[t] <= r /\ r < End(t)) /\ ~ (front'[t] <= r /\ r < End(t)')
    BY <1>1, <1>3, <1>4 DEF Slots
  <2> QED BY <2>1 DEF Queued
<1>6. \A r \in Slots : mem'[t][r] = NoJob
  <2>1. \A r \in Slots : ~ (front[t] <= r /\ r < End(t))
    BY <1>4 DEF Slots
  <2> QED BY <1>1, <1>2, <2>1 DEF QueueInv, RecordInv
<1>7. Visible(t)' = Visible(t)
  <2>1. CASE ResetFront
    BY <2>1 DEF ResetFront, history, Visible, WaitPCs, ResetPCs
  <2>2. CASE ResetRear
    BY <2>2 DEF ResetRear, history, Visible, WaitPCs, ResetPCs
  <2> QED BY <2>1, <2>2
<1>8. \A j : ~ InHand(t, j) /\ ~ InHand(t, j)'
  <2>1. wpc[t] # "func" /\ wpc'[t] # "func"
    BY <1>2 DEF Working
  <2> QED BY <1>2, <2>1 DEF InHand
<1>9. PlaceInv(t)'
  <2>1. wpc'[t] \notin {"func", "fault"}
    BY <1>1, <1>2 DEF worker, QueueInv, PlaceInv, Working
  <2> QED BY <1>1, <1>2, <1>3, <2>1 DEF PlaceInv
<1>10. LedgerInv(t)'
  <2>1. ~ Resetting(t)' => rear'[t] = 0 /\ Uncounted(t)' = 0
    <3>1. CASE ResetFront
      BY <3>1 DEF ResetFront, Resetting, ResetPCs
    <3>2. CASE ResetRear
      BY <3>2 DEF ResetRear, Uncounted, BoundsInv, TypeOK, TypeShared
    <3> QED BY <3>1, <3>2
  <2>2. ~ Resetting(t)' => Due(t)' = 0
    BY <1>1, <1>2, <2>1 DEF Due
  <2> QED BY <1>1, <1>2, <1>3, <1>4, <2>2 DEF LedgerInv
<1>11. RecordInv(t)'
  BY <1>2, <1>5, <1>6 DEF RecordInv, Working
<1>12. OrderInv(t)'
  BY <1>1, <1>5, <1>7, <1>8 DEF QueueInv, OrderInv
<1> QED BY <1>9, <1>10, <1>11, <1>12 DEF QueueInv

\* The word of an empty queue is forced.
LEMMA QueueForce ==
  ASSUME BoundsInv, CallerInv, NEW t \in Threads, t = q, QueueInv(t), StoreForce
  PROVE  QueueInv(t)'
<1> USE QueueTypes
<1>1. /\ pc = "force" /\ pc' = "forceWake" /\ rear[t] = 0 /\ Forced(t)'
      /\ UNCHANGED <<mem, front, rear, count, worker, q, cont, added, ran>>
  BY DEF StoreForce, history, CallerInv, DestroyInv, Forced, BoundsInv, TypeOK, TypeShared
<1>2. /\ ~ Forced(t) /\ ~ Resetting(t) /\ ~ Resetting(t)' /\ ~ Filling(t) /\ ~ Filling(t)'
      /\ Uncounted(t) = 0 /\ Uncounted(t)' = 0
  BY <1>1 DEF CallerInv, DestroyInv, Forced, Resetting, Filling, Uncounted, WaitPCs, ResetPCs, Wakes
<1>3. End(t)' = End(t) /\ End(t) = rear[t] /\ Visible(t)' = Visible(t)
  BY <1>1 DEF End, Visible, WaitPCs, ResetPCs
<1>4. /\ Queued(t)' = Queued(t) /\ Busy(t)' = Busy(t) /\ (Working(t)' <=> Working(t))
      /\ (Calling(t)' <=> Calling(t))
  BY <1>1, <1>3 DEF worker, Queued, Busy, Working, Calling
<1>5. \A r : FuncAt(t, r)' = FuncAt(t, r) /\ JobAt(t, r)' = JobAt(t, r)
  BY <1>1, <1>2 DEF FuncAt, JobAt
<1>6. \A j : InHand(t, j)' <=> InHand(t, j)
  BY <1>1, <1>4, <1>5 DEF InHand, worker
<1>7. PlaceInv(t)'
  <2>1. front[t] = 0
    BY <1>1, <1>2, <1>3 DEF QueueInv, PlaceInv
  <2>2. wpc[t] # "func"
    <3>1. wpc[t] = "func" => Busy(t) = 1
      BY DEF Busy
    <3> QED BY <2>1, <3>1 DEF QueueInv, PlaceInv
  <2> QED BY <1>1, <1>3, <1>4, <1>5, <2>1, <2>2 DEF QueueInv, PlaceInv, worker
<1>8. LedgerInv(t)'
  BY <1>1, <1>2, <1>4 DEF QueueInv, LedgerInv, Due
<1>9. RecordInv(t)'
  BY <1>1, <1>2, <1>3, <1>4, <1>5 DEF QueueInv, RecordInv, worker
<1>10. OrderInv(t)'
  BY <1>1, <1>3, <1>4, <1>5, <1>6 DEF QueueInv, OrderInv
<1> QED BY <1>7, <1>8, <1>9, <1>10 DEF QueueInv

\* A queue that is being created is empty.
LEMMA DrainInit == Init => DrainInv
<1> SUFFICES ASSUME Init, NEW t \in Threads PROVE QueueInv(t)
  BY DEF DrainInv
<1>1. /\ front[t] = 0 /\ rear[t] = 0 /\ count[t] = 0 /\ wpc[t] = "none" /\ ~ Forced(t)
      /\ pc = "create" /\ added = 0 /\ \A s \in Slots : mem[t][s] = NoJob
  BY DEF Init, Forced, FORCE
<1>2. /\ Busy(t) = 0 /\ Uncounted(t) = 0 /\ ~ Resetting(t) /\ ~ Filling(t) /\ ~ Working(t)
      /\ End(t) = 0 /\ Visible(t) = {} /\ \A j : ~ InHand(t, j)
  BY <1>1 DEF Busy, Uncounted, Resetting, ResetPCs, Filling, Working, End, Visible, InHand, Calling
<1>3. Queued(t) = {}
  BY <1>1, <1>2 DEF Queued, Slots
<1>4. PlaceInv(t) /\ RecordInv(t) /\ OrderInv(t)
  BY <1>1, <1>2, <1>3 DEF PlaceInv, RecordInv, OrderInv
<1>5. LedgerInv(t)
  BY <1>1, <1>2 DEF LedgerInv, Due
<1> QED BY <1>4, <1>5 DEF QueueInv

\* A worker's step is in its own queue.
LEMMA OtherWorker ==
  ASSUME BoundsInv, NEW u \in Threads, WorkerStep(u) \/ Interrupted(u), NEW t \in Threads, t # u
  PROVE  WorkerAway(t) /\ CallerAway(t)
<1>1. UNCHANGED <<rear, fux, caller, added>>
  BY DEF WorkerStep, Interrupted, CanLoop, LoadRear, LoadFront, CheckForce, LoadValue, FutexWait,
         Take, LoadFunc, LoadArg, Run, JobReset, SubJobCount, shared, history
<1>2. wpc'[t] = wpc[t] /\ ran \subseteq ran'
  BY DEF WorkerStep, Interrupted, CanLoop, LoadRear, LoadFront, CheckForce, LoadValue, FutexWait,
         Take, LoadFunc, LoadArg, Run, JobReset, SubJobCount, Goto, shared, history,
         BoundsInv, TypeOK, TypeWorkers
<1>3. mem'[t] = mem[t] /\ front'[t] = front[t] /\ count'[t] = count[t]
  BY DEF WorkerStep, Interrupted, CanLoop, LoadRear, LoadFront, CheckForce, LoadValue, FutexWait,
         Take, LoadFunc, LoadArg, Run, JobReset, SubJobCount, shared, BoundsInv, TypeOK, TypeShared
<1>4. wslot'[t] = wslot[t] /\ wfunc'[t] = wfunc[t] /\ warg'[t] = warg[t] /\ wleft'[t] = wleft[t]
  BY DEF WorkerStep, Interrupted, CanLoop, LoadRear, LoadFront, CheckForce, LoadValue, FutexWait,
         Take, LoadFunc, LoadArg, Run, JobReset, SubJobCount, BoundsInv, TypeOK, TypeWorkers
<1> QED BY <1>1, <1>2, <1>3, <1>4, WorkerCallerAway DEF WorkerAway

\* Looking for a record, spinning and sleeping move none.
LEMMA LookingAway ==
  ASSUME BoundsInv, NEW u \in Threads,
         CanLoop(u) \/ LoadRear(u) \/ LoadFront(u) \/ CheckForce(u) \/ LoadValue(u)
           \/ FutexWait(u) \/ Interrupted(u)
  PROVE  WorkerAway(u) /\ CallerAway(u)
<1>1. UNCHANGED <<mem, front, rear, count, fux, wslot, wfunc, warg, wleft, caller, added, ran>>
  BY DEF CanLoop, LoadRear, LoadFront, CheckForce, LoadValue, FutexWait, Interrupted, shared, history
<1>2. CASE CanLoop(u)
  <2>1. wpc[u] = "loop" /\ wpc'[u] = IF Forced(u) THEN "done" ELSE "rear"
    BY <1>2 DEF CanLoop, Goto, Forced, BoundsInv, TypeOK, TypeWorkers
  <2> QED BY <1>1, <2>1, WorkerCallerAway DEF WorkerAway, Idle
<1>3. CASE LoadRear(u) \/ LoadFront(u) \/ CheckForce(u) \/ LoadValue(u) \/ FutexWait(u) \/ Interrupted(u)
  <2>1. wpc[u] \in {"rear", "front", "force", "val", "sleep", "asleep"} /\ wpc'[u] \in Idle
    BY <1>3 DEF LoadRear, LoadFront, CheckForce, LoadValue, FutexWait, Interrupted, Goto, Idle,
                BoundsInv, TypeOK, TypeWorkers
  <2> QED BY <1>1, <2>1, WorkerCallerAway DEF WorkerAway, Idle
<1> QED BY <1>2, <1>3

\* The workers keep the invariant.
LEMMA DrainWorker ==
  ASSUME BoundsInv, CallerInv, DrainInv, NEW u \in Threads, WorkerStep(u) \/ Interrupted(u)
  PROVE  DrainInv'
<1> SUFFICES ASSUME ~ early', NEW t \in Threads PROVE QueueInv(t)'
  BY DEF DrainInv, Threads
<1>1. ~ early
  BY DEF WorkerStep, Interrupted, CanLoop, LoadRear, LoadFront, CheckForce, LoadValue, FutexWait,
         Take, LoadFunc, LoadArg, Run, JobReset, SubJobCount, history, BoundsInv, TypeOK, TypeHistory
<1>2. QueueInv(t) /\ QueueInv(u)
  BY <1>1 DEF DrainInv
<1>3. CASE t # u
  BY <1>2, <1>3, OtherWorker, QueueAway
<1>4. ASSUME CanLoop(u) \/ LoadRear(u) \/ LoadFront(u) \/ CheckForce(u) \/ LoadValue(u)
               \/ FutexWait(u) \/ Interrupted(u)
      PROVE  QueueInv(u)'
  BY <1>2, <1>4, LookingAway, QueueAway
<1>5. QueueInv(u)'
  BY <1>2, <1>4, QueueTakeForced, QueueTakeFull, QueueLoadFunc, QueueLoadArg, QueueRun, QueueReset,
     QueueSub DEF WorkerStep
<1> QED BY <1>3, <1>5

\* What Visible depends on.
LEMMA VisibleKept ==
  ASSUME NEW t, added' = added, PendingAdd' <=> PendingAdd, PendingAdd => q' = q
  PROVE  Visible(t)' = Visible(t)
<1>1. Visible(t) = {j \in 1 .. added : Owner(j) = t /\ ~ (j = added /\ q = t /\ PendingAdd)}
  BY DEF Visible, PendingAdd
<1>2. Visible(t)' = {j \in 1 .. added' : Owner(j) = t /\ ~ (j = added' /\ q' = t /\ PendingAdd')}
  BY DEF Visible, PendingAdd
<1> QED BY <1>1, <1>2

\* A job that add_job has only numbered is not visible.
LEMMA VisibleAddJob ==
  ASSUME BoundsInv, CallerInv, AddJob, NEW t \in Threads
  PROVE  Visible(t)' = Visible(t)
<1>1. /\ pc = "idle" /\ pc' = "full" /\ added' = added + 1 /\ q' = Owner(added + 1) /\ added \in Nat
  <2>1. added \in Nat /\ (added + 1) - 1 = added
    BY DEF BoundsInv, TypeOK, TypeHistory
  <2>2. q' = cur /\ cur = added % ThreadCount
    BY DEF AddJob, CallerInv, RoundInv
  <2> QED BY <2>1, <2>2 DEF AddJob, Owner
<1>2. Visible(t) = {j \in 1 .. added : Owner(j) = t}
  BY <1>1 DEF Visible, WaitPCs, ResetPCs
<1>3. Visible(t)' = {j \in 1 .. added + 1 : Owner(j) = t /\ ~ (j = added + 1 /\ Owner(added + 1) = t)}
  BY <1>1 DEF Visible
<1>4. \A j \in 1 .. added + 1 : j \in 1 .. added \/ j = added + 1
  BY <1>1
<1>5. \A j \in 1 .. added : j \in 1 .. added + 1 /\ j # added + 1
  BY <1>1
<1> QED BY <1>2, <1>3, <1>4, <1>5

\* The caller's steps outside the reset, the record and the forced word.
LEMMA CallerOutside ==
  ASSUME BoundsInv, CallerInv, NEW t \in Threads,
         \/ CreateNoMemory \/ CreateThread \/ CreateFails
         \/ AddJob \/ CheckFull \/ AddWake \/ Wait \/ Destroy
         \/ WaitLoad /\ count[q] # 0
         \/ WaitWake \/ ForceWake \/ Join \/ JoinNoThread
  PROVE  CallerAway(t)
<1> USE DEF WaitPCs, ResetPCs
<1>1. /\ pc \notin ResetPCs \cup {"fill", "addCount"} /\ pc' \notin ResetPCs \cup {"fill", "addCount"}
      /\ UNCHANGED <<rear, fux>>
  BY DEF CreateNoMemory, CreateThread, CreateFails, AddJob, CheckFull, AddWake, Wait, Destroy,
         WaitLoad, WaitWake, ForceWake, Join, JoinNoThread, shared
<1>2. Visible(t)' = Visible(t)
  <2>1. CASE AddJob
    BY <2>1, VisibleAddJob
  <2>2. CASE ~ AddJob
    <3>1. added' = added
      BY <2>2 DEF CreateNoMemory, CreateThread, CreateFails, CheckFull, AddWake, Wait, Destroy,
         WaitLoad, WaitWake, ForceWake, Join, JoinNoThread, history
    <3>2. (PendingAdd' <=> PendingAdd) /\ (PendingAdd => q' = q)
      BY <2>2 DEF CreateNoMemory, CreateThread, CreateFails, CheckFull, AddWake, Wait, Destroy,
         WaitLoad, WaitWake, ForceWake, Join, JoinNoThread, PendingAdd, BoundsInv, StoppingInv,
         CallerInv, RoundInv
    <3> QED BY <3>1, <3>2, VisibleKept
  <2> QED BY <2>1, <2>2
<1>3. /\ End(t)' = End(t) /\ Uncounted(t)' = Uncounted(t)
      /\ ~ Resetting(t) /\ ~ Resetting(t)' /\ ~ Filling(t) /\ ~ Filling(t)'
  BY <1>1 DEF End, Uncounted, Resetting, Filling
<1> QED BY <1>1, <1>2, <1>3 DEF CallerAway

\* The first two stores of the reset find what they store.
LEMMA CallerResets ==
  ASSUME BoundsInv, CallerInv, NEW t \in Threads, ResetFree \/ ResetCount
  PROVE  CallerAway(t)
<1> USE DEF WaitPCs, ResetPCs
<1>1. /\ pc \in {"resetFree", "resetCount"} /\ pc' \in {"resetCount", "resetFront"} /\ cont' = cont
      /\ UNCHANGED <<rear, q, added>>
  BY DEF ResetFree, ResetCount, caller, history
<1>2. ~ Forced(q)
  BY <1>1 DEF CallerInv, DestroyInv, BoundsInv, TypeOK, TypeCaller, Threads
<1>3. fux'[t] = fux[t]
  BY <1>2 DEF ResetFree, ResetCount, Forced, BoundsInv, TypeOK, TypeShared, TypeCaller
<1>4. (PendingAdd' <=> PendingAdd) /\ (PendingAdd => q' = q)
  BY <1>1 DEF PendingAdd
<1>5. /\ End(t)' = End(t) /\ Uncounted(t)' = Uncounted(t)
      /\ (Resetting(t)' <=> Resetting(t)) /\ ~ Filling(t) /\ ~ Filling(t)'
  BY <1>1 DEF End, Uncounted, Resetting, Filling
<1> QED BY <1>1, <1>3, <1>4, <1>5, VisibleKept DEF CallerAway

\* The other stores are to the queue that the caller is at.
LEMMA CallerElsewhere ==
  ASSUME BoundsInv, CallerInv, NEW t \in Threads, t # q,
         AddRear \/ Fill \/ AddJobCount \/ WaitLoad \/ ResetFront \/ ResetRear \/ StoreForce
  PROVE  CallerAway(t)
<1> USE DEF WaitPCs, ResetPCs
<1>1. rear'[t] = rear[t] /\ fux'[t] = fux[t] /\ added' = added
  BY DEF AddRear, Fill, AddJobCount, WaitLoad, ResetFront, ResetRear, StoreForce, shared, history,
         BoundsInv, TypeOK, TypeShared
<1>2. q' = q \/ pc' \in {"waitLoad", "idle"}
  BY DEF AddRear, Fill, AddJobCount, WaitLoad, ResetFront, ResetRear, StoreForce
<1>3. /\ End(t)' = End(t) /\ Uncounted(t)' = Uncounted(t)
      /\ ~ Resetting(t) /\ ~ Resetting(t)' /\ ~ Filling(t) /\ ~ Filling(t)'
  BY <1>1, <1>2 DEF End, Uncounted, Resetting, Filling
<1>4. Visible(t)' = Visible(t)
  <2>1. q' = t => ~ PendingAdd'
    BY <1>2 DEF AddRear, Fill, AddJobCount, WaitLoad, ResetFront, ResetRear, StoreForce, PendingAdd
  <2>2. Visible(t) = {j \in 1 .. added : Owner(j) = t}
    BY DEF Visible
  <2>3. Visible(t)' = {j \in 1 .. added : Owner(j) = t}
    BY <1>1, <2>1 DEF Visible, PendingAdd
  <2> QED BY <2>2, <2>3
<1> QED BY <1>1, <1>3, <1>4 DEF CallerAway

\* And they leave the workers of other queues alone, as waking and starting do.
LEMMA CallerLeavesWorkers ==
  ASSUME BoundsInv, CallerInv, NEW t \in Threads, CallerStep \/ CallerStart,
         t # q \/ ~ (Fill \/ AddJobCount \/ ResetCount \/ ResetFront)
  PROVE  WorkerAway(t)
<1>1. mem'[t] = mem[t] /\ front'[t] = front[t] /\ count'[t] = count[t] /\ ran' = ran
  BY DEF CallerStep, CallerStart, CreateNoMemory, CreateThread, CreateFails, AddJob, CheckFull,
         AddRear, Fill, AddJobCount, AddWake, Wait, Destroy, WaitLoad, WaitWake, ResetFree, ResetCount,
         ResetFront, ResetRear, StoreForce, ForceWake, Join, JoinNoThread, shared, history,
         BoundsInv, TypeOK, TypeShared
<1>2. UNCHANGED Locals
  BY DEF CallerStep, CallerStart, CreateNoMemory, CreateThread, CreateFails, AddJob, CheckFull,
         AddRear, Fill, AddJobCount, AddWake, Wait, Destroy, WaitLoad, WaitWake, ResetFree, ResetCount,
         ResetFront, ResetRear, StoreForce, ForceWake, Join, JoinNoThread, worker, Locals
<1>3. \/ wpc' = wpc
      \/ WakeQ
      \/ wpc' = [wpc EXCEPT ![q] = "loop"] /\ wpc[q] = "none"
  BY DEF CallerStep, CallerStart, CreateNoMemory, CreateThread, CreateFails, AddJob, CheckFull,
         AddRear, Fill, AddJobCount, AddWake, Wait, Destroy, WaitLoad, WaitWake, ResetFree, ResetCount,
         ResetFront, ResetRear, StoreForce, ForceWake, Join, JoinNoThread, worker,
         CallerInv, StartInv, Threads, BoundsInv, TypeOK, TypeCaller
<1>4. \/ wpc'[t] = wpc[t]
      \/ wpc[t] \in {"asleep", "none"} /\ wpc'[t] \in {"rear", "loop"}
  BY <1>3 DEF WakeQ, BoundsInv, TypeOK, TypeWorkers
<1> QED BY <1>1, <1>2, <1>4 DEF WorkerAway, Idle, Locals

\* The caller keeps the invariant.
LEMMA DrainCaller ==
  ASSUME BoundsInv, CallerInv, DrainInv, CallerStep \/ CallerStart
  PROVE  DrainInv'
<1> SUFFICES ASSUME ~ early', NEW t \in Threads PROVE QueueInv(t)'
  BY DEF DrainInv, Threads
<1>1. ~ early
  BY DEF CallerStep, CallerStart, CreateNoMemory, CreateThread, CreateFails, AddJob, CheckFull,
         AddRear, Fill, AddJobCount, AddWake, Wait, Destroy, WaitLoad, WaitWake, ResetFree, ResetCount,
         ResetFront, ResetRear, StoreForce, ForceWake, Join, JoinNoThread, history
<1>2. QueueInv(t)
  BY <1>1 DEF DrainInv
<1>3. CASE CreateNoMemory \/ CreateThread \/ CreateFails \/ AddJob \/ CheckFull \/ AddWake
             \/ Wait \/ Destroy \/ WaitWake \/ ForceWake \/ Join \/ JoinNoThread
  <2>1. CallerAway(t)
    BY <1>3, CallerOutside
  <2>2. ~ (Fill \/ AddJobCount \/ ResetCount \/ ResetFront)
    BY <1>3 DEF Fill, AddJobCount, ResetCount, ResetFront, CreateNoMemory, CreateThread, CreateFails,
         AddJob, CheckFull, AddWake, Wait, Destroy, WaitWake, ForceWake, Join, JoinNoThread
  <2>3. WorkerAway(t)
    BY <2>2, CallerLeavesWorkers
  <2> QED BY <1>2, <2>1, <2>3, QueueAway
<1>4. CASE WaitLoad /\ count[q] # 0
  <2>1. ~ (Fill \/ AddJobCount \/ ResetCount \/ ResetFront)
    BY <1>4 DEF Fill, AddJobCount, ResetCount, ResetFront, WaitLoad
  <2>2. WorkerAway(t)
    BY <2>1, CallerLeavesWorkers
  <2> QED BY <1>2, <1>4, <2>2, CallerOutside, QueueAway
<1>5. CASE ResetFree
  <2>1. ~ (Fill \/ AddJobCount \/ ResetCount \/ ResetFront)
    BY <1>5 DEF Fill, AddJobCount, ResetCount, ResetFront, ResetFree
  <2>2. WorkerAway(t)
    BY <2>1, CallerLeavesWorkers
  <2> QED BY <1>2, <1>5, <2>2, CallerResets, QueueAway
<1>6. CASE ResetCount
  <2>1. t = q => count[t] = 0
    BY <1>2, <1>6 DEF ResetCount, QueueInv, LedgerInv, Resetting, ResetPCs
  <2>2. count'[t] = count[t]
    BY <1>6, <2>1 DEF ResetCount, BoundsInv, TypeOK, TypeShared
  <2>3. WorkerAway(t)
    BY <1>6, <2>2 DEF ResetCount, WorkerAway, worker, history
  <2> QED BY <1>2, <1>6, <2>3, CallerResets, QueueAway
<1>7. CASE t = q /\ (AddRear \/ Fill \/ AddJobCount \/ (WaitLoad /\ count[q] = 0)
                       \/ ResetFront \/ ResetRear \/ StoreForce)
  BY <1>2, <1>7, QueueAddRear, QueueFill, QueueAddCount, QueueDrained, QueueSetBack, QueueForce
<1>8. CASE t # q /\ (AddRear \/ Fill \/ AddJobCount \/ WaitLoad
                       \/ ResetFront \/ ResetRear \/ StoreForce)
  BY <1>2, <1>8, CallerElsewhere, CallerLeavesWorkers, QueueAway
<1> QED
  BY <1>3, <1>4, <1>5, <1>6, <1>7, <1>8 DEF CallerStep, CallerStart

\* Every step keeps the queues right, until a worker takes a record too early.
LEMMA DrainNext == BoundsInv /\ CallerInv /\ DrainInv /\ [Next]_vars => DrainInv'
<1> SUFFICES ASSUME BoundsInv, CallerInv, DrainInv, [Next]_vars PROVE DrainInv'
  OBVIOUS
<1>1. CASE UNCHANGED vars
  <2> SUFFICES ASSUME ~ early', NEW t \in Threads PROVE QueueInv(t)'
    BY DEF DrainInv, Threads
  <2>1. QueueInv(t)
    BY <1>1 DEF DrainInv, vars, history
  <2>2. WorkerAway(t) /\ CallerAway(t)
    BY <1>1, WorkerCallerAway DEF vars, shared, worker, caller, history, WorkerAway
  <2> QED BY <2>1, <2>2, QueueAway
<1> QED
  BY <1>1, DrainWorker, DrainCaller DEF Next

-----------------------------------------------------------------------------
(* Theorems.                                                               *)

\* All of it holds in every reachable state.
LEMMA PoolAlways == Spec => [](BoundsInv /\ CallerInv /\ OnceInv /\ DrainInv)
<1>1. Init => BoundsInv /\ CallerInv /\ OnceInv /\ DrainInv
  BY BoundsInit, CallerInit, OnceInit, DrainInit
<1>2. BoundsInv /\ CallerInv /\ OnceInv /\ DrainInv /\ [Next]_vars
        => (BoundsInv /\ CallerInv /\ OnceInv /\ DrainInv)'
  BY BoundsNext, CallerNext, OnceNext, DrainNext
<1> QED BY <1>1, <1>2, PTL DEF Spec

\* Counting modulo the range of job_count.
LEMMA OneRound == /\ Wrap % Wrap = 0 /\ 0 % Wrap = 0
                  /\ (Wrap - 1) % Wrap = Wrap - 1 /\ (-1) % Wrap = Wrap - 1
<1>1. Wrap \in Nat /\ Wrap > 1
  BY ConstantFacts
<1>2. Wrap % Wrap = 0 /\ 0 % Wrap = 0
  BY <1>1, SMTT(30)
<1>3. (Wrap - 1) % Wrap = Wrap - 1
  BY <1>1, SMTT(30)
<1>4. (-1) % Wrap = Wrap - 1
  BY <1>1, SMTT(30)
<1> QED BY <1>2, <1>3, <1>4

\* No call is made twice, with any number of threads and jobs: a job is stored in one
\* record, from which its worker alone loads it, and it clears that before it takes
\* the next, whatever the caller resets meanwhile.
THEOREM RunsOnce == Spec => AtMostOnce
<1>1. OnceInv /\ BoundsInv /\ [Next]_vars =>
        [\A t \in Threads : wpc[t] = "run" /\ wpc'[t] # "run" => \A c \in ran : c[1] # wfunc[t]]_vars
  BY DEF OnceInv, OneCallInv, Calling
<1> QED BY <1>1, PoolAlways, PTL DEF Spec, AtMostOnce

\* While every take finds a complete record, each worker runs its own jobs with their
\* own arguments in the order in which they were added, for any number of threads.
THEOREM RunsInOrder == Spec => InOrder
<1> DEFINE A == ~ early => \A c \in ran' \ ran :
                  /\ c[1] = c[2]
                  /\ \A j \in 1 .. c[1] - 1 : Owner(j) = Owner(c[1]) => <<j, j>> \in ran
<1>1. BoundsInv /\ DrainInv /\ [Next]_vars => [A]_vars
  <2> SUFFICES ASSUME BoundsInv, DrainInv, [Next]_vars, ~ early, NEW c \in ran' \ ran
               PROVE  /\ c[1] = c[2]
                      /\ \A j \in 1 .. c[1] - 1 : Owner(j) = Owner(c[1]) => <<j, j>> \in ran
    OBVIOUS
  <2>1. PICK t \in Threads : Run(t)
    BY DEF Next, vars, CallerStep, CallerStart, CreateNoMemory, CreateThread, CreateFails, AddJob,
         CheckFull, AddRear, Fill, AddJobCount, AddWake, Wait, Destroy, WaitLoad, WaitWake, ResetFree,
         ResetCount, ResetFront, ResetRear, StoreForce, ForceWake, Join, JoinNoThread, history,
         WorkerStep, Interrupted, CanLoop, LoadRear, LoadFront, CheckForce, LoadValue, FutexWait,
         Take, LoadFunc, LoadArg, JobReset, SubJobCount
  <2>2. QueueInv(t)
    BY DEF DrainInv
  <2>3. c = <<wfunc[t], wfunc[t]>> /\ InHand(t, wfunc[t]) /\ wpc[t] = "run"
    BY <2>1, <2>2 DEF Run, QueueInv, RecordInv, InHand, Calling
  <2>4. wfunc[t] \in Jobs
    BY <2>3 DEF BoundsInv, TypeOK, TypeWorkers, CallingInv
  <2>5. wfunc[t] \in Visible(t) /\ \A s \in Queued(t) : wfunc[t] < JobAt(t, s)
    BY <2>2, <2>3, <2>4 DEF QueueInv, OrderInv
  <2>6. ASSUME NEW j \in 1 .. wfunc[t] - 1, Owner(j) = Owner(wfunc[t])
        PROVE  <<j, j>> \in ran
    <3>1. wfunc[t] \in 1 .. added /\ added \in Nat /\ Owner(wfunc[t]) = t
      BY <2>5 DEF Visible, BoundsInv, TypeOK, TypeHistory
    <3>2. j \in 1 .. added /\ j # added /\ j < wfunc[t]
      BY <3>1
    <3>3. j \in Visible(t)
      BY <2>6, <3>1, <3>2 DEF Visible
    <3>4. ~ InHand(t, j)
      BY <2>3, <3>2 DEF InHand
    <3>5. \A s \in Queued(t) : JobAt(t, s) # j
      <4>1. \A s \in Queued(t) : JobAt(t, s) \in Nat
        BY <2>2, <3>1 DEF QueueInv, OrderInv, Visible
      <4> QED BY <2>5, <3>1, <3>2, <4>1
    <3> QED BY <2>2, <3>3, <3>4, <3>5 DEF QueueInv, OrderInv
  <2> QED BY <2>3, <2>6
<1> QED BY <1>1, PoolAlways, PTL DEF Spec, InOrder

\* add_job writes only inside a queue's data area, for every number of threads, every
\* queue size and every schedule, early takes included.  While every take finds a complete
\* record the workers stay inside it too, a worker that leaves its wait by force included.
THEOREM WritesStayInBounds == Spec => []WritesInBounds
<1>1. BoundsInv /\ DrainInv => WritesInBounds
  <2> SUFFICES ASSUME BoundsInv, DrainInv PROVE WritesInBounds
    OBVIOUS
  <2>1. pc = "fill" => InQueue(cslot)
    BY DEF BoundsInv, RoomInv
  <2>2. ASSUME ~ early, NEW t \in Threads, wpc[t] \in {"func", "clear", "fault"}
        PROVE  InQueue(wslot[t])
    <3>1. QueueInv(t)
      BY <2>2 DEF DrainInv
    <3>2. wpc[t] \in {"func", "clear"}
      BY <2>2, <3>1 DEF QueueInv, PlaceInv
    <3> QED BY <3>1, <3>2 DEF QueueInv, PlaceInv, BoundsInv, CallingInv
  <2> QED BY <2>1, <2>2 DEF WritesInBounds
<1> QED BY <1>1, PoolAlways, PTL

\* While every take finds a complete record, every job that a queue was given has run
\* when p_queue_wait stores its reset, for any number of threads, jobs and records.
THEOREM ResetsAreDrained == Spec => []DrainedAtReset
<1>1. BoundsInv /\ DrainInv => DrainedAtReset
  <2> SUFFICES ASSUME BoundsInv, DrainInv, ~ early, pc \in ResetPCs, NEW j \in Visible(q)
               PROVE  <<j, j>> \in ran
    BY DEF DrainedAtReset
  <2>1. q \in Threads /\ QueueInv(q) /\ Resetting(q)
    BY DEF BoundsInv, TypeOK, TypeCaller, DrainInv, Resetting
  <2>2. Busy(q) = 0 /\ front[q] = End(q)
    BY <2>1 DEF QueueInv, LedgerInv
  <2>3. ~ InHand(q, j)
    BY <2>2 DEF Busy, InHand, Calling
  <2>4. Queued(q) = {}
    BY <2>1, <2>2, QueueTypes DEF Queued, Slots
  <2> QED BY <2>1, <2>3, <2>4 DEF QueueInv, OrderInv
<1> QED BY <1>1, PoolAlways, PTL

\* While every take finds a complete record, job_count counts the records, in 32 bits:
\* what p_queue_wait and so wait and destroy rely on.
THEOREM CountIsKept == Spec => []CountLedger
<1>1. BoundsInv /\ CallerInv /\ DrainInv => CountLedger
  <2> SUFFICES ASSUME BoundsInv, CallerInv, DrainInv, ~ early, NEW t \in Threads, ~ Resetting(t)
               PROVE  (count[t] + Uncounted(t)) % Wrap = (rear[t] - front[t] + Busy(t)) % Wrap
    BY DEF CountLedger, Resetting
  <2>1. QueueInv(t)
    BY DEF DrainInv
  <2>2. count[t] = IF Due(t) < 0 THEN Due(t) + Wrap ELSE Due(t)
    BY <2>1 DEF QueueInv, LedgerInv
  <2>3. PICK x : x = rear[t] - front[t] + Busy(t)
    OBVIOUS
  <2>4. x \in Int /\ Uncounted(t) \in {0, 1} /\ Due(t) = x - Uncounted(t)
    BY <2>3, QueueTypes DEF Due
  <2>5. x >= -1 /\ (x = -1 => Uncounted(t) = 0)
    <3>1. CASE ~ Forced(t)
      <4>1. front[t] <= rear[t] /\ front[t] \in Nat /\ rear[t] \in Nat /\ Busy(t) \in {0, 1}
        BY <2>1, <3>1, QueueTypes DEF QueueInv, PlaceInv, Resetting, End, ResetPCs
      <4> QED BY <2>3, <4>1
    <3>2. CASE Forced(t)
      <4>1. rear[t] = 0 /\ front[t] \in {0, 1} /\ Busy(t) \in {0, 1}
        BY <2>1, <3>2, QueueTypes DEF QueueInv, PlaceInv
      <4>2. Uncounted(t) = 0
        BY <3>2 DEF CallerInv, DestroyInv, Uncounted, WaitPCs, ResetPCs, Wakes
      <4> QED BY <2>3, <4>1, <4>2
    <3> QED BY <3>1, <3>2
  <2>6. CASE Due(t) >= 0
    <3>1. count[t] + Uncounted(t) = x
      BY <2>2, <2>4, <2>6
    <3> QED BY <2>3, <3>1
  <2>7. CASE Due(t) < 0 /\ Uncounted(t) = 1
    <3>1. x = 0 /\ count[t] + Uncounted(t) = Wrap
      BY <2>2, <2>4, <2>5, <2>7, ConstantFacts
    <3> QED BY <2>3, <3>1, OneRound
  <2>8. CASE Due(t) < 0 /\ Uncounted(t) = 0
    <3>1. x = -1 /\ count[t] + Uncounted(t) = Wrap - 1
      BY <2>2, <2>4, <2>5, <2>8, ConstantFacts
    <3> QED BY <2>3, <3>1, OneRound
  <2> QED BY <2>4, <2>6, <2>7, <2>8
<1> QED BY <1>1, PoolAlways, PTL
=============================================================================
