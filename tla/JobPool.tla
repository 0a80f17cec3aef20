------------------------------ MODULE JobPool ------------------------------
(***************************************************************************)
(* The thread pool of src/src/jpool.c: one caller thread that uses the     *)
(* public functions (udo_jpool_create, add_job, wait, destroy) and         *)
(* ThreadCount workers that execute p_run_thread.  A step is one atomic    *)
(* access to memory shared by two threads, or one system call on the       *)
(* futex word job_free.  Plain (non-atomic) stores to one job record may   *)
(* reach the other thread in any order and grouping.                       *)
(*                                                                         *)
(* A job is a number: job j is the call func_j(arg_j).  0 stands for NULL. *)
(* front and rear are counted in job records, where the code counts bytes. *)
(***************************************************************************)
EXTENDS Naturals, FiniteSets

CONSTANTS ThreadCount,  \* jpool_info->count
          QueueSize,    \* queue->size, in bytes
          MaxJobs,      \* bound: how many jobs the caller adds
          Wrap          \* bound: stands for 2^32, the range of job_count

ASSUME ThreadCountAssumption == ThreadCount \in Nat \ {0}
ASSUME MaxJobsAssumption     == MaxJobs \in Nat \ {0}
\* Two more than any count the pool can reach, so that 0 - 1 is told apart.
ASSUME WrapAssumption        == Wrap \in Nat /\ Wrap > MaxJobs + 1
\* One record fits; the sizes udo_jpool_create hands out are the subject of
\* JobPoolLayout.
ASSUME QueueSizeAssumption   == QueueSize \in Nat /\ QueueSize >= 16

Threads == 0 .. ThreadCount - 1
Jobs    == 1 .. MaxJobs
NULL    == 0
FORCE   == 1          \* UDO_FUTEX_UNLOCK_FORCE in a job_free word; else 0
JobSize == 16         \* sizeof(struct udo_jpool_job)
Slots   == 0 .. QueueSize \div JobSize
Fields  == {"func", "arg"}
NoJob   == [f \in Fields |-> NULL]

\* The record lies wholly inside the queue's data area.
InQueue(slot) == slot * JobSize + JobSize <= QueueSize

\* The queue that the round-robin choice gives job j to.
Owner(j) == (j - 1) % ThreadCount

VARIABLES
  cur,    \* *cur_thread
  mem,    \* mem[t][slot]: the job records of thread t's queue
  front, rear, count, fux,   \* the four words of each queue
  wpc,    \* where each worker is
  wrear, wslot, wfunc, warg, wval, wleft,  \* the workers' locals
  pc,     \* where the caller is
  q,      \* the caller's queue index
  cont,   \* the function that p_queue_wait returns to
  cslot, cleft,   \* the record being filled and the fields still to store
  added,  \* history: jobs 1 .. added were handed to add_job
  ran,    \* history: the calls <<func, arg>> that have returned
  early   \* history: some worker took a record that held no complete job

shared  == <<cur, mem, front, rear, count, fux>>
worker  == <<wpc, wrear, wslot, wfunc, warg, wval, wleft>>
caller  == <<pc, q, cont, cslot, cleft>>
history == <<added, ran, early>>
vars    == <<shared, worker, caller, history>>

\* job_count is a uint32_t.
Inc(n) == IF n = Wrap - 1 THEN 0 ELSE n + 1
Dec(n) == IF n = 0 THEN Wrap - 1 ELSE n - 1

WorkerPCs == {"none", "loop", "rear", "front", "force", "val", "sleep",
              "asleep", "take", "func", "arg", "run", "clear", "sub",
              "fault", "done"}
ResetPCs  == {"resetFree", "resetCount", "resetFront", "resetRear"}
WaitPCs   == {"waitLoad", "waitWake"} \cup ResetPCs   \* inside p_queue_wait
CallerPCs == {"create", "idle", "full", "addRear", "fill", "addCount", "wake",
              "force", "forceWake", "forceWakeCond",
              "join", "destroyed", "null", "crashed"} \cup WaitPCs

TypeShared ==
  /\ cur \in Threads
  /\ mem \in [Threads -> [Slots -> [Fields -> Jobs \cup {NULL}]]]
  /\ front \in [Threads -> Nat] /\ rear \in [Threads -> Nat]
  /\ count \in [Threads -> 0 .. Wrap - 1]
  /\ fux \in [Threads -> {0, FORCE}]

TypeWorkers ==
  /\ wpc \in [Threads -> WorkerPCs]
  /\ wrear \in [Threads -> Nat] /\ wslot \in [Threads -> Nat]
  /\ wfunc \in [Threads -> Jobs \cup {NULL}]
  /\ warg \in [Threads -> Jobs \cup {NULL}]
  /\ wval \in [Threads -> {0, FORCE}]
  /\ wleft \in [Threads -> SUBSET Fields]

TypeCaller ==
  /\ pc \in CallerPCs /\ q \in Threads /\ cont \in {"add", "wait", "destroy"}
  /\ cslot \in Nat /\ cleft \in SUBSET Fields

TypeHistory ==
  /\ added \in 0 .. MaxJobs
  /\ ran \subseteq Jobs \X (Jobs \cup {NULL})
  /\ early \in BOOLEAN

\* Every variable has its type.
TypeOK == TypeShared /\ TypeWorkers /\ TypeCaller /\ TypeHistory

Init ==
  /\ cur = 0
  /\ mem = [t \in Threads |-> [s \in Slots |-> NoJob]]
  /\ front = [t \in Threads |-> 0] /\ rear = [t \in Threads |-> 0]
  /\ count = [t \in Threads |-> 0] /\ fux = [t \in Threads |-> 0]
  /\ wpc = [t \in Threads |-> "none"]
  /\ wrear = [t \in Threads |-> 0] /\ wslot = [t \in Threads |-> 0]
  /\ wfunc = [t \in Threads |-> NULL] /\ warg = [t \in Threads |-> NULL]
  /\ wval = [t \in Threads |-> 0] /\ wleft = [t \in Threads |-> {}]
  /\ pc = "create" /\ q = 0 /\ cont = "add" /\ cslot = 0 /\ cleft = {}
  /\ added = 0 /\ ran = {} /\ early = FALSE

-----------------------------------------------------------------------------
(* The worker: p_run_thread with the macro udo_futex_wait_cond expanded.   *)

Goto(t, label) == wpc' = [wpc EXCEPT ![t] = label]

\* while (p_queue_can_loop(queue))
CanLoop(t) ==
  /\ wpc[t] = "loop"
  /\ Goto(t, IF fux[t] = FORCE THEN "done" ELSE "rear")
  /\ UNCHANGED <<shared, wrear, wslot, wfunc, warg, wval, wleft, caller, history>>

\* p_queue_can_get_job: two loads, the operands of > taken left to right.
LoadRear(t) ==
  /\ wpc[t] = "rear"
  /\ wrear' = [wrear EXCEPT ![t] = rear[t]]
  /\ Goto(t, "front")
  /\ UNCHANGED <<shared, wslot, wfunc, warg, wval, wleft, caller, history>>

LoadFront(t) ==
  /\ wpc[t] = "front"
  /\ Goto(t, IF wrear[t] > front[t] THEN "take" ELSE "force")
  /\ wrear' = [wrear EXCEPT ![t] = 0]
  /\ UNCHANGED <<shared, wslot, wfunc, warg, wval, wleft, caller, history>>

\* A forced unlock also leaves the wait, and the worker goes on to take a
\* record.  Otherwise it spins, or gives up spinning and goes to sleep.
CheckForce(t) ==
  /\ wpc[t] = "force"
  /\ IF fux[t] = FORCE THEN Goto(t, "take")
                       ELSE Goto(t, "rear") \/ Goto(t, "val")
  /\ UNCHANGED <<shared, wrear, wslot, wfunc, warg, wval, wleft, caller, history>>

\* p_udo_futex_wait_cond: load the word, then FUTEX_WAIT on that value.
LoadValue(t) ==
  /\ wpc[t] = "val"
  /\ wval' = [wval EXCEPT ![t] = fux[t]]
  /\ Goto(t, "sleep")
  /\ UNCHANGED <<shared, wrear, wslot, wfunc, warg, wleft, caller, history>>

FutexWait(t) ==
  /\ wpc[t] = "sleep"
  /\ Goto(t, IF fux[t] = wval[t] THEN "asleep" ELSE "rear")
  /\ wval' = [wval EXCEPT ![t] = 0]
  /\ UNCHANGED <<shared, wrear, wslot, wfunc, warg, wleft, caller, history>>

\* FUTEX_WAIT may return because of a signal.
Interrupted(t) ==
  /\ wpc[t] = "asleep"
  /\ Goto(t, "rear")
  /\ UNCHANGED <<shared, wrear, wslot, wfunc, warg, wval, wleft, caller, history>>

\* Mutant of Take: the address is computed with the value after the addition.
TakeAfterAdd(t) ==
  /\ wpc[t] = "take"
  /\ wslot' = [wslot EXCEPT ![t] = front[t] + 1]
  /\ front' = [front EXCEPT ![t] = @ + 1]
  /\ early' = (early \/ (fux[t] # FORCE /\ front[t] + 1 >= rear[t]))
  /\ Goto(t, "func")
  /\ UNCHANGED <<cur, mem, rear, count, fux, wrear, wfunc, warg, wval, wleft,
                 caller, added, ran>>

\* p_queue_get_job.  Leaving the wait because of FORCE is not an early take.
Take(t) ==
  /\ wpc[t] = "take"
  /\ wslot' = [wslot EXCEPT ![t] = front[t]]
  /\ front' = [front EXCEPT ![t] = @ + 1]
  /\ early' = (early \/ /\ fux[t] # FORCE
                        /\ ~ /\ front[t] < rear[t]
                             /\ front[t] \in Slots
                             /\ \A f \in Fields : mem[t][front[t]][f] # NULL)
  /\ Goto(t, "func")
  /\ UNCHANGED <<cur, mem, rear, count, fux, wrear, wfunc, warg, wval, wleft,
                 caller, added, ran>>

\* if (job->func).  Outside the queue's data area anything may be found: NULL, or a
\* word that is called and of which no more can be said.
LoadFunc(t) ==
  /\ wpc[t] = "func"
  /\ IF InQueue(wslot[t])
       THEN LET f == mem[t][wslot[t]]["func"] IN
            /\ wfunc' = [wfunc EXCEPT ![t] = f]
            /\ Goto(t, IF f = NULL THEN "sub" ELSE "arg")
       ELSE (Goto(t, "sub") \/ Goto(t, "fault")) /\ UNCHANGED wfunc
  /\ UNCHANGED <<shared, wrear, wslot, warg, wval, wleft, caller, history>>

\* job->func(job->arg): the argument is loaded, the function runs, returns.
LoadArg(t) ==
  /\ wpc[t] = "arg"
  /\ warg' = [warg EXCEPT ![t] = mem[t][wslot[t]]["arg"]]
  /\ Goto(t, "run")
  /\ UNCHANGED <<shared, wrear, wslot, wfunc, wval, wleft, caller, history>>

Run(t) ==
  /\ wpc[t] = "run"
  /\ ran' = ran \cup {<<wfunc[t], warg[t]>>}
  /\ wleft' = [wleft EXCEPT ![t] = Fields]
  /\ Goto(t, "clear")
  /\ UNCHANGED <<shared, wrear, wslot, wfunc, warg, wval, caller, added, early>>

\* Mutant of JobReset: only the argument is cleared.
JobResetKeepsFunc(t) ==
  /\ wpc[t] = "clear"
  /\ mem' = [mem EXCEPT ![t][wslot[t]]["arg"] = NULL]
  /\ wleft' = [wleft EXCEPT ![t] = {}]
  /\ Goto(t, "sub")
  /\ UNCHANGED <<cur, front, rear, count, fux, wrear, wslot, wfunc, warg, wval,
                 caller, history>>

\* p_queue_job_reset
JobReset(t) ==
  /\ wpc[t] = "clear"
  /\ \E F \in (SUBSET wleft[t]) \ {{}} :
       /\ mem' = [mem EXCEPT ![t][wslot[t]] =
                    [f \in Fields |-> IF f \in F THEN NULL ELSE @[f]]]
       /\ wleft' = [wleft EXCEPT ![t] = @ \ F]
       /\ Goto(t, IF F = wleft[t] THEN "sub" ELSE "clear")
  /\ UNCHANGED <<cur, front, rear, count, fux, wrear, wslot, wfunc, warg, wval,
                 caller, history>>

\* p_queue_sub_job_count
SubJobCount(t) ==
  /\ wpc[t] = "sub"
  /\ count' = [count EXCEPT ![t] = Dec(@)]
  /\ wslot' = [wslot EXCEPT ![t] = 0]
  /\ wfunc' = [wfunc EXCEPT ![t] = NULL]
  /\ warg' = [warg EXCEPT ![t] = NULL]
  /\ Goto(t, "loop")
  /\ UNCHANGED <<cur, mem, front, rear, fux, wrear, wval, wleft, caller, history>>

WorkerStep(t) ==
  \/ CanLoop(t) \/ LoadRear(t) \/ LoadFront(t) \/ CheckForce(t) \/ LoadValue(t)
  \/ FutexWait(t) \/ Take(t) \/ LoadFunc(t) \/ LoadArg(t) \/ Run(t)
  \/ JobReset(t) \/ SubJobCount(t)

-----------------------------------------------------------------------------
(* The caller.                                                             *)

\* FUTEX_WAKE on the word of thread q; it does not change the word.
WakeQ == wpc' = [wpc EXCEPT ![q] = IF @ = "asleep" THEN "rear" ELSE @]

Locals == <<wrear, wslot, wfunc, warg, wval, wleft>>

\* udo_jpool_create: the mapping fails, NULL is returned.
CreateNoMemory ==
  /\ pc = "create" /\ q = 0
  /\ pc' = "null"
  /\ UNCHANGED <<shared, worker, q, cont, cslot, cleft, history>>

\* One turn of the loop: queue q is set up and its thread started.
CreateThread ==
  /\ pc = "create"
  /\ wpc' = [wpc EXCEPT ![q] = "loop"]
  /\ IF q + 1 < ThreadCount THEN q' = q + 1 /\ UNCHANGED pc
                            ELSE q' = 0 /\ pc' = "idle"
  /\ UNCHANGED <<shared, Locals, cont, cslot, cleft, history>>

\* pthread_create fails: udo_jpool_destroy over all thread_count queues.
CreateFails ==
  /\ pc = "create"
  /\ pc' = "waitLoad" /\ q' = 0 /\ cont' = "destroy"
  /\ UNCHANGED <<shared, worker, cslot, cleft, history>>

\* udo_jpool_add_job: choose the queue.
AddJob ==
  /\ pc = "idle" /\ added < MaxJobs
  /\ added' = added + 1
  /\ q' = cur
  /\ cur' = (cur + 1) % ThreadCount
  /\ pc' = "full" /\ cont' = "add"
  /\ UNCHANGED <<mem, front, rear, count, fux, worker, cslot, cleft, ran, early>>

\* Mutant of Full: room is not left for the record about to be added.
FullOneLate(t) == rear[t] * JobSize >= QueueSize

\* if (p_queue_full(queue)) p_queue_wait(queue);
Full(t) == rear[t] * JobSize >= QueueSize - JobSize

CheckFull ==
  /\ pc = "full"
  /\ pc' = IF Full(q) THEN "waitLoad" ELSE "addRear"
  /\ UNCHANGED <<shared, worker, q, cont, cslot, cleft, history>>

\* p_queue_add_rear: the record is the worker's to see before it is filled.
AddRear ==
  /\ pc = "addRear"
  /\ cslot' = rear[q]
  /\ rear' = [rear EXCEPT ![q] = @ + 1]
  /\ cleft' = Fields
  /\ pc' = "fill"
  /\ UNCHANGED <<cur, mem, front, count, fux, worker, q, cont, history>>

\* job->func = func; job->arg = arg;
Fill ==
  /\ pc = "fill"
  /\ \E F \in (SUBSET cleft) \ {{}} :
       /\ mem' = [mem EXCEPT ![q][cslot] =
                    [f \in Fields |-> IF f \in F THEN added ELSE @[f]]]
       /\ cleft' = cleft \ F
       /\ pc' = IF F = cleft THEN "addCount" ELSE "fill"
  /\ UNCHANGED <<cur, front, rear, count, fux, worker, q, cont, cslot, history>>

AddJobCount ==
  /\ pc = "addCount"
  /\ count' = [count EXCEPT ![q] = Inc(@)]
  /\ cslot' = 0
  /\ pc' = "wake"
  /\ UNCHANGED <<cur, mem, front, rear, fux, worker, q, cont, cleft, history>>

AddWake ==
  /\ pc = "wake"
  /\ WakeQ
  /\ pc' = "idle" /\ q' = 0
  /\ UNCHANGED <<shared, Locals, cont, cslot, cleft, history>>

\* udo_jpool_wait and udo_jpool_destroy start with the first queue.
Wait ==
  /\ pc = "idle"
  /\ pc' = "waitLoad" /\ q' = 0 /\ cont' = "wait"
  /\ UNCHANGED <<shared, worker, cslot, cleft, history>>

Destroy ==
  /\ pc = "idle"
  /\ pc' = "waitLoad" /\ q' = 0 /\ cont' = "destroy"
  /\ UNCHANGED <<shared, worker, cslot, cleft, history>>

\* Mutant of WaitLoad: the wait ends when nothing is queued, running or not.
WaitLoadQueued ==
  /\ pc = "waitLoad"
  /\ pc' = IF rear[q] > front[q] THEN "waitWake" ELSE "resetFree"
  /\ UNCHANGED <<shared, worker, q, cont, cslot, cleft, history>>

\* p_queue_wait: while (job_count) wake_cond; then p_queue_reset.
WaitLoad ==
  /\ pc = "waitLoad"
  /\ pc' = IF count[q] # 0 THEN "waitWake" ELSE "resetFree"
  /\ UNCHANGED <<shared, worker, q, cont, cslot, cleft, history>>

\* Mutant of WaitWake: the loop spins and wakes nobody.
WaitSpin ==
  /\ pc = "waitWake"
  /\ pc' = "waitLoad"
  /\ UNCHANGED <<shared, worker, q, cont, cslot, cleft, history>>

WaitWake ==
  /\ pc = "waitWake"
  /\ WakeQ
  /\ pc' = "waitLoad"
  /\ UNCHANGED <<shared, Locals, q, cont, cslot, cleft, history>>

ResetFree ==
  /\ pc = "resetFree"
  /\ fux' = [fux EXCEPT ![q] = 0]
  /\ pc' = "resetCount"
  /\ UNCHANGED <<cur, mem, front, rear, count, worker, q, cont, cslot, cleft, history>>

ResetCount ==
  /\ pc = "resetCount"
  /\ count' = [count EXCEPT ![q] = 0]
  /\ pc' = "resetFront"
  /\ UNCHANGED <<cur, mem, front, rear, fux, worker, q, cont, cslot, cleft, history>>

\* Mutant of ResetFront: front is left where it was.
ResetFrontForgotten ==
  /\ pc = "resetFront"
  /\ pc' = "resetRear"
  /\ UNCHANGED <<shared, worker, q, cont, cslot, cleft, history>>

ResetFront ==
  /\ pc = "resetFront"
  /\ front' = [front EXCEPT ![q] = 0]
  /\ pc' = "resetRear"
  /\ UNCHANGED <<cur, mem, rear, count, fux, worker, q, cont, cslot, cleft, history>>

\* The last store of the reset, and the return from p_queue_wait.
ResetRear ==
  /\ pc = "resetRear"
  /\ rear' = [rear EXCEPT ![q] = 0]
  /\ \/ cont = "add" /\ pc' = "addRear" /\ UNCHANGED q
     \/ cont = "destroy" /\ pc' = "force" /\ UNCHANGED q
     \/ cont = "wait" /\ q + 1 < ThreadCount /\ pc' = "waitLoad" /\ q' = q + 1
     \/ cont = "wait" /\ q + 1 = ThreadCount /\ pc' = "idle" /\ q' = 0
  /\ UNCHANGED <<cur, mem, front, count, fux, worker, cont, cslot, cleft, history>>

\* udo_futex_unlock_force: store, FUTEX_WAKE; then udo_futex_wake_cond.
StoreForce ==
  /\ pc = "force"
  /\ fux' = [fux EXCEPT ![q] = FORCE]
  /\ pc' = "forceWake"
  /\ UNCHANGED <<cur, mem, front, rear, count, worker, q, cont, cslot, cleft, history>>

ForceWake ==
  /\ pc \in {"forceWake", "forceWakeCond"}
  /\ WakeQ
  /\ pc' = IF pc = "forceWake" THEN "forceWakeCond" ELSE "join"
  /\ UNCHANGED <<shared, Locals, q, cont, cslot, cleft, history>>

\* pthread_join; after the last one the memory is unmapped.
Join ==
  /\ pc = "join" /\ wpc[q] = "done"
  /\ IF q + 1 < ThreadCount THEN pc' = "waitLoad" /\ q' = q + 1
                            ELSE pc' = "destroyed" /\ q' = 0
  /\ UNCHANGED <<shared, worker, cont, cslot, cleft, history>>

\* The thread that could not be started has no identifier to join.
JoinNoThread ==
  /\ pc = "join" /\ wpc[q] = "none"
  /\ pc' = "crashed"
  /\ UNCHANGED <<shared, worker, q, cont, cslot, cleft, history>>

\* The steps inside a call, which the caller's thread goes on taking.
CallerStep ==
  \/ CreateThread \/ CheckFull \/ AddRear \/ Fill \/ AddJobCount \/ AddWake
  \/ WaitLoad \/ WaitWake \/ ResetFree \/ ResetCount \/ ResetFront \/ ResetRear
  \/ StoreForce \/ ForceWake \/ Join \/ JoinNoThread

CallerStart == CreateNoMemory \/ CreateFails \/ AddJob \/ Wait \/ Destroy

Next ==
  \/ CallerStep
  \/ CallerStart
  \/ \E t \in Threads : WorkerStep(t) \/ Interrupted(t)

Spec == Init /\ [][Next]_vars

\* Every thread that can run is scheduled; the caller need not start a call,
\* and no signal need arrive.
FairSpec == Spec /\ WF_vars(CallerStep) /\ \A t \in Threads : WF_vars(WorkerStep(t))

-----------------------------------------------------------------------------
(* Properties.                                                             *)

\* How many records thread t has taken and not yet counted off, and how many
\* the caller has made visible and not yet counted in.
Busy(t)      == IF wpc[t] \in {"func", "arg", "run", "clear", "sub"} THEN 1 ELSE 0
Uncounted(t) == IF q = t /\ pc \in {"fill", "addCount"} THEN 1 ELSE 0

\* The jobs of queue t that add_job has made visible to the worker.
Visible(t) == {j \in 1 .. added :
                 /\ Owner(j) = t
                 /\ ~ (j = added /\ q = t /\ (\/ pc \in {"full", "addRear"}
                                              \/ pc \in WaitPCs /\ cont = "add"))}

\* add_job never writes outside a queue's data area, whatever the workers do:
\* its only guard is p_queue_full.  While every take finds a complete record,
\* no worker reads a function (p_run_thread) or clears a record (job_reset)
\* outside it either, the one that a forced worker takes included.
WritesInBounds ==
  /\ pc = "fill" => InQueue(cslot)
  /\ ~ early => \A t \in Threads :
       wpc[t] \in {"func", "clear", "fault"} => InQueue(wslot[t])

\* No queued call is made twice, even when workers take records early, when
\* front is reset under a running job and when records are cleared late.
AtMostOnce ==
  [][\A t \in Threads : wpc[t] = "run" /\ wpc'[t] # "run"
        => \A c \in ran : c[1] # wfunc[t]]_vars

\* While every take finds a complete record, each worker runs the jobs of its
\* own queue, in the order in which they were added, with their arguments.
InOrder ==
  [][~early => \A c \in ran' \ ran :
       /\ c[1] = c[2]
       /\ \A j \in 1 .. c[1] - 1 : Owner(j) = Owner(c[1]) => <<j, j>> \in ran]_vars

\* While every take finds a complete record, p_queue_wait stores its reset
\* only when every job the queue was given has run (udo_jpool_wait: "Blocks
\* until all jobs in every threads queue have been completed"), so no reset
\* meets a job in flight.
DrainedAtReset ==
  ~early /\ pc \in ResetPCs
    => \A j \in Visible(q) : <<j, j>> \in ran

\* While every take finds a complete record, job_count is the number of records
\* between front and rear, with the one the worker is busy with and without
\* the one add_job has not counted yet (in 32 bits: it may be one below 0).
CountLedger ==
  ~early => \A t \in Threads :
    (q = t /\ pc \in ResetPCs) \/
    (count[t] + Uncounted(t)) % Wrap = (rear[t] - front[t] + Busy(t)) % Wrap

Wakes     == {"force", "forceWake", "forceWakeCond"}
InCall    == pc \in WaitPCs \cup Wakes \cup {"join"}
Overslept == pc = "join" /\ wpc[q] = "asleep" /\ fux[q] = FORCE

\* While every take finds a complete record, a drain ends, in udo_jpool_wait and in
\* udo_jpool_add_job: the worker is woken again and again until job_count is 0; and so
\* does udo_jpool_destroy, unless the worker that it joins loaded the forced value to
\* sleep on.
CallsReturn == InCall ~> early \/ Overslept \/ ~ InCall

\* udo_jpool_wait, in jpool.h: "Blocks until all jobs in every threads queue
\* have been completed."  (The code: not when a worker took a record early.)
WaitMeansDone ==
  pc \in ResetPCs => \A j \in Visible(q) : \E a \in Jobs \cup {NULL} : <<j, a>> \in ran

\* jpool.h: @param arg of udo_jpool_add_job is "a memory which will be passed
\* as the argument to @func".
OwnArgument == \A c \in ran : c[1] = c[2]

\* udo_jpool_destroy, in jpool.h, "waits for all jobs in every threads queue to
\* execute before destroying the pool": a call of it must come to an end.
DestroyReturns == pc \in Wakes \cup {"join"} ~> pc \notin Wakes \cup {"join"}

\* udo_jpool_wait blocks "until" the jobs are done: it returns.
WaitAlwaysReturns ==
  pc \in {"waitLoad", "waitWake"} ~> pc \notin {"waitLoad", "waitWake"}

\* udo_jpool_add_job, in jpool.h: adds a job "to then later execute".
AddedJobRuns ==
  \A j \in Jobs : (added >= j) ~> (early \/ \E a \in Jobs \cup {NULL} : <<j, a>> \in ran)

\* udo_jpool_create, in jpool.h, "on failure: NULL".
CreateFailureReturns == pc # "crashed"

=============================================================================
