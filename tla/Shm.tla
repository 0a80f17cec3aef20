-------------------------------- MODULE Shm --------------------------------
(***************************************************************************)
(* src/src/shm.c: processes that attach to one POSIX shared memory name,   *)
(* send messages through the segments in it and detach.  A segment belongs *)
(* to a process index and has a read futex and a write futex: a writer     *)
(* locks the write futex and unlocks the read futex, a reader the reverse. *)
(*                                                                         *)
(* udo_futex_lock is the step Acquire of ForceLock: it waits for UNLOCK    *)
(* and stores LOCK (Futex shows the code to do that).  A message is two    *)
(* words, copied word by word.                                             *)
(***************************************************************************)
EXTENDS Integers, FiniteSets

CONSTANTS Procs,      \* the processes
          ProcCount,  \* shm_info->proc_count
          MaxBlocks,  \* bound: how many blocks are created under the name
          MaxMsgs     \* bound: how many messages are written

ASSUME ShmAssumption == /\ ProcCount \in Nat \ {0}
                        /\ MaxBlocks \in Nat \ {0}
                        /\ MaxMsgs \in Nat \ {0}

UNLOCK  == 0
LOCK    == 1
None    == 0
Blocks  == 1 .. MaxBlocks
Indexes == 0 .. ProcCount - 1
Msgs    == 1 .. MaxMsgs
Words   == {1, 2}
Empty   == [k \in Words |-> None]

VARIABLES
  link,      \* the block the name stands for, None when there is none
  blocks,    \* how many blocks were created
  count,     \* the first word of each block
  rd, wr,    \* rd[b][i], wr[b][i]: the two futexes of segment i of block b
  data,      \* data[b][i]: the words of that segment
  pc,        \* where each process is
  map,       \* the block each process has mapped
  idx,       \* the segment each process is at: proc_index, or p in the loop
  buf,       \* the buffer that each process reads into or writes from
  word,      \* the next word to copy
  eintr,     \* errno = EINTR
  sent,      \* history: messages 1 .. sent were handed to data_write
  received,  \* history: the buffers that data_read filled and returned 0 for
  faults     \* history: what has gone wrong with the futexes so far

memory  == <<link, blocks, count, rd, wr, data>>
locals  == <<map, idx, buf, word, eintr>>
history == <<sent, received, faults>>
vars    == <<memory, pc, locals, history>>

ReadPCs  == {"rdLock", "rdCopy", "rdUnlock"}
WritePCs == {"wrLock", "wrCopy", "wrUnlock"}
\* add_fetch has counted the process and sub_fetch has not uncounted it.
InPCs    == {"init", "in"} \cup ReadPCs \cup WritePCs
Buffers  == [Words -> Msgs \cup {None}]

TypeMemory ==
  /\ link \in Blocks \cup {None} /\ blocks \in 0 .. MaxBlocks
  /\ count \in [Blocks -> Int]
  /\ rd \in [Blocks -> [Indexes -> {UNLOCK, LOCK}]]
  /\ wr \in [Blocks -> [Indexes -> {UNLOCK, LOCK}]]
  /\ data \in [Blocks -> [Indexes -> Buffers]]

TypeProcs ==
  /\ pc \in [Procs -> {"out", "check", "refused", "add", "sub", "unlink", "crashed"} \cup InPCs]
  /\ map \in [Procs -> Blocks \cup {None}]
  /\ idx \in [Procs -> Indexes]
  /\ buf \in [Procs -> Buffers]
  /\ word \in [Procs -> Words]
  /\ eintr \in [Procs -> BOOLEAN]

TypeHistory ==
  /\ sent \in 0 .. MaxMsgs
  /\ received \subseteq Buffers
  /\ faults \subseteq {"stolen", "leaked"}

\* Every variable has its type.
TypeOK == TypeMemory /\ TypeProcs /\ TypeHistory

Init ==
  /\ link = None /\ blocks = 0
  /\ count = [b \in Blocks |-> 0]
  /\ rd = [b \in Blocks |-> [i \in Indexes |-> UNLOCK]]
  /\ wr = [b \in Blocks |-> [i \in Indexes |-> UNLOCK]]
  /\ data = [b \in Blocks |-> [i \in Indexes |-> Empty]]
  /\ pc = [p \in Procs |-> "out"]
  /\ map = [p \in Procs |-> None]
  /\ idx = [p \in Procs |-> 0]
  /\ buf = [p \in Procs |-> Empty]
  /\ word = [p \in Procs |-> 1]
  /\ eintr = [p \in Procs |-> FALSE]
  /\ sent = 0 /\ received = {} /\ faults = {}

Goto(p, label) == pc' = [pc EXCEPT ![p] = label]
Set(f, p, v)   == f' = [f EXCEPT ![p] = v]

-----------------------------------------------------------------------------
\* udo_shm_create: shm_open with O_CREAT, ftruncate and mmap.
Open(p) ==
  /\ pc[p] = "out"
  /\ \/ link # None /\ Set(map, p, link) /\ UNCHANGED <<link, blocks>>
     \/ /\ link = None /\ blocks < MaxBlocks
        /\ link' = blocks + 1 /\ blocks' = blocks + 1 /\ Set(map, p, blocks + 1)
  /\ Goto(p, "check")
  /\ UNCHANGED <<count, rd, wr, data, idx, buf, word, eintr, history>>

\* The count is loaded and compared here, and increased in another step.  It is
\* unsigned: below zero it has wrapped, and is more than any process count.  A
\* process that is refused goes through udo_shm_destroy.
CheckCount(p) ==
  /\ pc[p] = "check"
  /\ Goto(p, IF count[map[p]] \in 0 .. ProcCount - 1 THEN "add" ELSE "refused")
  /\ UNCHANGED <<memory, locals, history>>

AddCount(p) ==
  /\ pc[p] = "add"
  /\ Set(count, map[p], count[map[p]] + 1)
  /\ Set(idx, p, 0)
  /\ Goto(p, "init")
  /\ UNCHANGED <<link, blocks, rd, wr, data, map, buf, word, eintr, history>>

\* Mutant of InitFutex: the futexes are left as the new block has them.
InitNoFutex(p) ==
  /\ pc[p] = "init"
  /\ Goto(p, "in") /\ Set(idx, p, 0)
  /\ UNCHANGED <<memory, map, buf, word, eintr, history>>

\* One turn of the loop: the read futex goes from UNLOCK to LOCK, the write
\* futex from UNLOCK to UNLOCK.  The swap is a theft if a message is waiting.
InitFutex(p) ==
  LET b == map[p] i == idx[p] IN
  /\ pc[p] = "init"
  /\ rd' = [rd EXCEPT ![b][i] = LOCK]
  /\ faults' = IF rd[b][i] = UNLOCK /\ wr[b][i] = LOCK THEN faults \cup {"stolen"}
                                                       ELSE faults
  /\ IF i + 1 < ProcCount THEN Set(idx, p, i + 1) /\ UNCHANGED pc
                          ELSE Set(idx, p, 0) /\ Goto(p, "in")
  /\ UNCHANGED <<link, blocks, count, wr, data, map, buf, word, eintr, sent, received>>

-----------------------------------------------------------------------------
\* p_check_proc_index compares with the processes attached, and with > where
\* the last index is one less; a count that has wrapped is above every index.  A
\* segment that does not exist is at NULL.
IndexRefused(p, i) == count[map[p]] \in 0 .. i - 1

Call(p, i, label) ==
  /\ pc[p] = "in" /\ ~ IndexRefused(p, i)
  /\ IF i \in Indexes THEN Goto(p, label) /\ Set(idx, p, i)
                      ELSE Goto(p, "crashed") /\ UNCHANGED idx

\* udo_shm_data_read and udo_shm_data_write are called.
Read(p, i) ==
  /\ Call(p, i, "rdLock")
  /\ Set(buf, p, Empty)
  /\ UNCHANGED <<memory, map, word, eintr, history>>

Write(p, i) ==
  /\ sent < MaxMsgs
  /\ Call(p, i, "wrLock")
  /\ sent' = sent + 1
  /\ Set(buf, p, [k \in Words |-> sent + 1])
  /\ UNCHANGED <<memory, map, word, eintr, received, faults>>

\* FUTEX_WAIT inside udo_futex_lock is interrupted by a signal handler; the
\* lock is waited for again, and errno stays.
Signal(p) ==
  /\ \/ pc[p] = "rdLock" /\ rd[map[p]][idx[p]] = LOCK
     \/ pc[p] = "wrLock" /\ wr[map[p]][idx[p]] = LOCK
  /\ Set(eintr, p, TRUE)
  /\ UNCHANGED <<memory, pc, map, idx, buf, word, history>>

\* if (errno == EINTR) return -errno; whoever set it: the lock stays taken.
AfterLock(p, label) ==
  IF eintr[p] THEN Goto(p, "in") /\ faults' = faults \cup {"leaked"}
              ELSE Goto(p, label) /\ UNCHANGED faults

ReadLock(p) ==
  /\ pc[p] = "rdLock" /\ rd[map[p]][idx[p]] = UNLOCK
  /\ rd' = [rd EXCEPT ![map[p]][idx[p]] = LOCK]
  /\ AfterLock(p, "rdCopy")
  /\ UNCHANGED <<link, blocks, count, wr, data, locals, sent, received>>

NextWord(p, copy, done) ==
  IF word[p] = 1 THEN Goto(p, copy) /\ Set(word, p, 2)
                 ELSE Goto(p, done) /\ Set(word, p, 1)

\* One turn of the loop: load a word, store it in the buffer, clear it.  (Only
\* its low byte is cleared; here nothing is left of it.)
ReadCopy(p) ==
  LET b == map[p] i == idx[p] k == word[p] IN
  /\ pc[p] = "rdCopy"
  /\ buf' = [buf EXCEPT ![p][k] = data[b][i][k]]
  /\ data' = [data EXCEPT ![b][i][k] = None]
  /\ NextWord(p, "rdCopy", "rdUnlock")
  /\ UNCHANGED <<link, blocks, count, rd, wr, map, idx, eintr, history>>

\* Mutant of ReadUnlock: the reader unlocks the futex that it locked.
ReadUnlockOwn(p) ==
  /\ pc[p] = "rdUnlock"
  /\ rd' = [rd EXCEPT ![map[p]][idx[p]] = UNLOCK]
  /\ received' = received \cup {buf[p]}
  /\ Goto(p, "in")
  /\ UNCHANGED <<link, blocks, count, wr, data, locals, sent, faults>>

\* Mutant of ReadUnlock: nothing is unlocked.
ReadNoUnlock(p) ==
  /\ pc[p] = "rdUnlock"
  /\ received' = received \cup {buf[p]}
  /\ Goto(p, "in")
  /\ UNCHANGED <<memory, locals, sent, faults>>

ReadUnlock(p) ==
  /\ pc[p] = "rdUnlock"
  /\ wr' = [wr EXCEPT ![map[p]][idx[p]] = UNLOCK]
  /\ received' = received \cup {buf[p]}
  /\ Goto(p, "in")
  /\ UNCHANGED <<link, blocks, count, rd, data, locals, sent, faults>>

WriteLock(p) ==
  /\ pc[p] = "wrLock" /\ wr[map[p]][idx[p]] = UNLOCK
  /\ wr' = [wr EXCEPT ![map[p]][idx[p]] = LOCK]
  /\ AfterLock(p, "wrCopy")
  /\ UNCHANGED <<link, blocks, count, rd, data, locals, sent, received>>

WriteCopy(p) ==
  LET b == map[p] i == idx[p] k == word[p] IN
  /\ pc[p] = "wrCopy"
  /\ data' = [data EXCEPT ![b][i][k] = buf[p][k]]
  /\ NextWord(p, "wrCopy", "wrUnlock")
  /\ UNCHANGED <<link, blocks, count, rd, wr, map, idx, buf, eintr, history>>

WriteUnlock(p) ==
  /\ pc[p] = "wrUnlock"
  /\ rd' = [rd EXCEPT ![map[p]][idx[p]] = UNLOCK]
  /\ Goto(p, "in")
  /\ UNCHANGED <<link, blocks, count, wr, data, locals, history>>

-----------------------------------------------------------------------------
\* udo_shm_destroy: sub_fetch, munmap, and shm_unlink if the result is 0.
Destroy(p) ==
  /\ pc[p] = "in"
  /\ Goto(p, "sub")
  /\ UNCHANGED <<memory, locals, history>>

SubCount(p) ==
  /\ pc[p] \in {"sub", "refused"}
  /\ Set(count, map[p], count[map[p]] - 1)
  /\ Set(map, p, None)
  /\ Goto(p, IF count[map[p]] = 1 THEN "unlink" ELSE "out")
  /\ UNCHANGED <<link, blocks, rd, wr, data, idx, buf, word, eintr, history>>

Unlink(p) ==
  /\ pc[p] = "unlink"
  /\ link' = None
  /\ Goto(p, "out")
  /\ UNCHANGED <<blocks, count, rd, wr, data, locals, history>>

\* What a process goes on doing inside a call; the fair part.
Inside(p) == \/ CheckCount(p) \/ AddCount(p) \/ InitFutex(p)
             \/ ReadLock(p) \/ ReadCopy(p) \/ ReadUnlock(p)
             \/ WriteLock(p) \/ WriteCopy(p) \/ WriteUnlock(p)
             \/ SubCount(p) \/ Unlink(p)

Next == \E p \in Procs : \/ Open(p) \/ Destroy(p) \/ Signal(p) \/ Inside(p)
                         \/ \E i \in 0 .. ProcCount : Read(p, i) \/ Write(p, i)

Spec == Init /\ [][Next]_vars

\* A call that was made is carried on.  No call need be made.
FairSpec == Spec /\ \A p \in Procs : WF_vars(Inside(p))

-----------------------------------------------------------------------------
(* Properties.                                                             *)

At(p, b, i, labels) == pc[p] \in labels /\ map[p] = b /\ idx[p] = i

\* One process at a time copies into or out of a segment, late attachers and
\* interrupted calls included: the two futexes pass one token between them.
OneCopier ==
  \A b \in Blocks, i \in Indexes, p, r \in Procs :
    /\ At(p, b, i, {"rdCopy", "rdUnlock", "wrCopy", "wrUnlock"})
    /\ At(r, b, i, {"rdCopy", "rdUnlock", "wrCopy", "wrUnlock"})
    => p = r

\* A read that returns 0 returns the two words of one message, which was
\* written and which no read has returned before.
WholeAndOnce ==
  [][\A p \in Procs : pc[p] = "rdUnlock" /\ pc'[p] = "in" =>
       /\ buf[p][1] = buf[p][2] /\ buf[p][1] # None
       /\ buf[p] \notin received]_vars

\* Unless an attaching process or an interrupted call took the token, a reader
\* and a writer that meet at a segment do not stay there for ever: as long as
\* both are there, calls complete (perhaps those of others) until one leaves.
Meeting(b, i) == \E p, r \in Procs : At(p, b, i, ReadPCs) /\ At(r, b, i, WritePCs)
Rendezvous ==
  \A b \in Blocks, i \in Indexes : Meeting(b, i) ~> (faults # {} \/ ~ Meeting(b, i))

\* Unless the token was taken, the futexes of a segment are never both locked
\* while nobody copies: somebody can always go on, a reader or a writer.
NeverStuck ==
  faults = {} =>
    \A b \in Blocks, i \in Indexes :
      rd[b][i] = LOCK /\ wr[b][i] = LOCK
        => \E p \in Procs : At(p, b, i, {"rdCopy", "rdUnlock", "wrCopy", "wrUnlock"})

\* From AddCount to SubCount a process watches the block.
Watching(b) == {p \in Procs : map[p] = b /\ pc[p] \in InPCs \cup {"sub"}}

\* shm.c: "First 4 bytes of shared memory used to store amount of processes
\* watching shared memory."
WatchersCounted == \A b \in Blocks : count[b] = Cardinality(Watching(b))

\* shm.h, proc_count: "Amount of processes able to read and write to and from
\* the shared memory block."
ProcCountKept == \A b \in Blocks : Cardinality(Watching(b)) <= ProcCount

\* The same sentence: "the" block.  Processes that are attached to the name at
\* one time share one block.
OneBlock == \A b, d \in Blocks : Watching(b) # {} /\ Watching(d) # {} => b = d

\* tests/test-shm.c lets one process write before the other attaches and reads:
\* only a read takes a message that is ready.
ReadyUntilRead ==
  [][\A b \in Blocks, i \in Indexes :
       rd[b][i] = UNLOCK /\ wr[b][i] = LOCK /\ rd'[b][i] = LOCK
         => \E p \in Procs : At(p, b, i, {"rdLock"}) /\ pc'[p] = "rdCopy"]_vars

\* futex.h: udo_futex_lock "Sets errno to EINTR if a call to
\* udo_futex_unlock_force() is made".  Nothing in shm.c makes that call, so no
\* read or write takes its lock and returns -EINTR.
NeverInterrupted == "leaked" \notin faults

\* shm.h: a read or write that cannot be done returns, "on failure: -1".
NoCrash == \A p \in Procs : pc[p] # "crashed"
=============================================================================
