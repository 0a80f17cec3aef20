-------------------------------- MODULE Log --------------------------------
(***************************************************************************)
(* udo_log_time, udo_log_notime and udo_log_set_write_fd of src/src/log.c: *)
(* threads of several processes that write lines to one file.  A line is   *)
(* three writes.  udo_log_time locks the file with flock, which excludes   *)
(* those who opened the file on their own, but neither those who share     *)
(* what was opened nor udo_log_notime, which does not lock; and writefd is *)
(* loaded again for every call.  A step is one system call; a message of a *)
(* type that log_level does not have is no step.                           *)
(***************************************************************************)
EXTENDS Naturals, Functions

CONSTANTS Threads,    \* the threads that log
          Process,    \* the process of each
          Opened,     \* the open file descriptions of the file
          Unlocked,   \* none of them
          MaxLines,   \* bound: how many lines each thread logs
          MaxChanges  \* bound: how many calls of udo_log_set_write_fd there are

Processes == Range(Process)

ASSUME LogAssumption ==
  /\ Process \in [Threads -> Processes]
  /\ Unlocked \notin Opened
  /\ {MaxLines, MaxChanges} \subseteq Nat

VARIABLES
  writefd, \* of each process
  call,    \* the call that each thread is in
  at,      \* where: the system call that is next
  via,     \* the description that each thread called flock for
  lock,    \* the description that has the file locked
  lines,   \* how many lines each thread has begun
  changes, \* how many calls of udo_log_set_write_fd there were
  torn,    \* history: an udo_log_time wrote into the line of another
  shared,  \* history: two threads were in udo_log_time with one description
  moved,   \* history: writefd was changed during a call
  broken   \* history: a signal has ended a flock

setting == <<writefd, changes, moved>>
logVars == <<setting, call, at, via, lock, lines, torn, shared, broken>>

Calls == {"time", "notime"}

LogTypeOK ==
  /\ writefd \in [Processes -> Opened]
  /\ call \in [Threads -> Calls \cup {"none"}]
  /\ at \in [Threads -> {"lock", "first", "second", "third", "sync", "unlock"}]
  /\ via \in [Threads -> Opened \cup {Unlocked}] /\ lock \in Opened \cup {Unlocked}
  /\ lines \in [Threads -> 0 .. MaxLines] /\ changes \in 0 .. MaxChanges
  /\ {torn, shared, moved, broken} \subseteq BOOLEAN

LogInit ==
  /\ writefd \in [Processes -> Opened]
  /\ call = [t \in Threads |-> "none"] /\ at = [t \in Threads |-> "first"]
  /\ via = [t \in Threads |-> Unlocked] /\ lock = Unlocked
  /\ lines = [t \in Threads |-> 0] /\ changes = 0
  /\ torn = FALSE /\ shared = FALSE /\ moved = FALSE /\ broken = FALSE

Fd(t)   == writefd[Process[t]]
Busy(p) == \E t \in Threads : Process[t] = p /\ call[t] # "none"

-----------------------------------------------------------------------------
Begin(t, c, label) ==
  /\ call[t] = "none" /\ lines[t] < MaxLines
  /\ call' = [call EXCEPT ![t] = c] /\ at' = [at EXCEPT ![t] = label]
  /\ lines' = [lines EXCEPT ![t] = @ + 1]
  /\ UNCHANGED <<setting, via, lock, torn, shared, broken>>

LogTime(t)   == Begin(t, "time", "lock")
LogNotime(t) == Begin(t, "notime", "first")

Locked(t) ==
  /\ at' = [at EXCEPT ![t] = "first"] /\ via' = [via EXCEPT ![t] = Fd(t)]
  /\ shared' = (shared \/ \E u \in Threads \ {t} : via[u] = Fd(t))
  /\ UNCHANGED <<setting, call, lines, torn>>

\* Mutant of Lock: LOCK_SH.
LockShared(t) ==
  /\ call[t] = "time" /\ at[t] = "lock" /\ lock' = Fd(t)
  /\ Locked(t) /\ UNCHANGED broken

\* flock(writefd, LOCK_EX)
Lock(t) ==
  /\ call[t] = "time" /\ at[t] = "lock" /\ lock \in {Unlocked, Fd(t)} /\ lock' = Fd(t)
  /\ Locked(t) /\ UNCHANGED broken

\* It fails, and nothing looks at that.
LockFails(t) ==
  /\ call[t] = "time" /\ at[t] = "lock" /\ broken' = TRUE
  /\ Locked(t) /\ UNCHANGED lock

After    == [first |-> "second", second |-> "third", third |-> "sync"]
InALine(t) == call[t] = "time" /\ at[t] \in {"second", "third"}

\* The three dprintf of either function.
Write(t) ==
  /\ call[t] # "none" /\ at[t] \in DOMAIN After
  /\ at' = [at EXCEPT ![t] = After[@]]
  /\ torn' = (torn \/ (call[t] = "time" /\ \E u \in Threads \ {t} : InALine(u)))
  /\ UNCHANGED <<setting, call, via, lock, lines, shared, broken>>

\* fsync, the end of udo_log_notime.
Sync(t) ==
  /\ call[t] # "none" /\ at[t] = "sync"
  /\ IF call[t] = "time"
       THEN at' = [at EXCEPT ![t] = "unlock"] /\ UNCHANGED call
       ELSE at' = [at EXCEPT ![t] = "first"] /\ call' = [call EXCEPT ![t] = "none"]
  /\ UNCHANGED <<setting, via, lock, lines, torn, shared, broken>>

Ended(t) ==
  /\ call' = [call EXCEPT ![t] = "none"] /\ at' = [at EXCEPT ![t] = "first"]
  /\ via' = [via EXCEPT ![t] = Unlocked]
  /\ UNCHANGED <<setting, lines, torn, shared, broken>>

\* Mutant of Unlock: it is forgotten.
UnlockNot(t) == at[t] = "unlock" /\ UNCHANGED lock /\ Ended(t)

\* flock(writefd, LOCK_UN): of what writefd is now.
Unlock(t) ==
  /\ at[t] = "unlock" /\ lock' = IF lock = Fd(t) THEN Unlocked ELSE lock
  /\ Ended(t)

\* udo_log_set_write_fd
SetWriteFd(p) ==
  /\ changes < MaxChanges /\ changes' = changes + 1
  /\ \E d \in Opened \ {writefd[p]} : writefd' = [writefd EXCEPT ![p] = d]
  /\ moved' = (moved \/ Busy(p))
  /\ UNCHANGED <<call, at, via, lock, lines, torn, shared, broken>>

LogNext ==
  \/ \E t \in Threads : \/ LogTime(t) \/ LogNotime(t) \/ Lock(t) \/ LockFails(t)
                        \/ Write(t) \/ Sync(t) \/ Unlock(t)
  \/ \E p \in Processes : SetWriteFd(p)

\* A call goes on; who waits in flock gets the lock if it is free again and again.
LogFairness ==
  \A t \in Threads : WF_logVars(Write(t) \/ Sync(t) \/ Unlock(t)) /\ SF_logVars(Lock(t))

LogSpec == LogInit /\ [][LogNext]_logVars /\ LogFairness

-----------------------------------------------------------------------------
(* Properties.                                                             *)

\* The lines of udo_log_time stay whole among themselves, in any number of processes,
\* as long as no two calls share what was opened, writefd is not changed during one,
\* and no flock fails.
WholeLines == ~ shared /\ ~ moved /\ ~ broken => ~ torn

\* A thread that logs comes back, whoever shares what with it and whatever fails, if
\* writefd is not changed during a call.
LineEnds == \A t \in Threads : call[t] # "none" ~> call[t] = "none" \/ moved

\* The lines of udo_log_time are always whole among themselves.  (The code: not those
\* of two threads with one descriptor, nor those of who a shared unlock lets in.)
AlwaysWhole == ~ torn
=============================================================================
