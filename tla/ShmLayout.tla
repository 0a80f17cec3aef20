----------------------------- MODULE ShmLayout -----------------------------
(***************************************************************************)
(* How p_shm_create of src/src/shm.c divides the shared object: the count  *)
(* of processes, two futexes for each process index, then the segments.    *)
(* Each process divides it by what it asked for itself, and sets the       *)
(* object's length before it looks at the count.  All numbers are bytes.   *)
(***************************************************************************)
EXTENDS Naturals, FiniteSets

CONSTANTS Users,      \* the processes
          ProcMax,    \* SHM_PROC_MAX
          SizeWord,   \* stands for 2^64, of size_t
          ShmSizes    \* the values of shm_info->shm_size that are tried

ASSUME ShmLayoutAssumption == /\ ProcMax \in Nat \ {0} /\ SizeWord \in Nat \ {0}
                              /\ ShmSizes \subseteq 1 .. SizeWord - 1

U32 == 4   \* sizeof(udo_atomic_u32), and sizeof(int)

\* What a process can ask for: the checks on proc_count and shm_size.
Infos == [n : 1 .. ProcMax - 1, size : ShmSizes]
None  == [n |-> 0, size |-> 0]

VARIABLES
  named,    \* the name exists
  length,   \* how long the object under it is
  counted,  \* the word at its start
  asked,    \* asked[u]: the create info of an attached process, None for others
  odd       \* history: a create asked for something else than those attached

shmVars == <<named, length, counted, asked, odd>>

ShmTypeOK ==
  /\ named \in BOOLEAN /\ length \in {0} \cup ShmSizes
  /\ counted \in 0 .. Cardinality(Users)
  /\ asked \in [Users -> Infos \cup {None}]
  /\ odd \in BOOLEAN

Attached == {u \in Users : asked[u] # None}

ShmInit ==
  /\ named = FALSE /\ length = 0 /\ counted = 0
  /\ asked = [u \in Users |-> None]
  /\ odd = FALSE

-----------------------------------------------------------------------------
\* size_t subtraction.
MinusSize(m, n) == (m + SizeWord - n) % SizeWord

\* Mutant of HeadSz: one futex for each process.
HeadOneFutex(n) == U32 + U32 * n

HeadSz(n) == U32 + 2 * U32 * n

\* procs[p].data_sz, and where the futexes and the data of index p start.
ProcDataSz(info) == MinusSize(info.size, HeadSz(info.n)) \div info.n
FuxOff(p)        == U32 + 2 * U32 * p
DataOff(info, p) == HeadSz(info.n) + p * ProcDataSz(info)

\* shm_open, ftruncate, mmap, and the comparison with the count.  A process that
\* is refused goes through destroy, and has set the length.  (Bound: no second
\* object while a process has the first one mapped.)
ShmCreate(u, info) ==
  /\ asked[u] = None /\ (named \/ Attached = {})
  /\ length' = info.size
  /\ IF counted >= info.n
       THEN counted' = counted - 1 /\ named' = (counted # 1) /\ UNCHANGED asked
       ELSE /\ counted' = counted + 1 /\ named' = TRUE
            /\ asked' = [asked EXCEPT ![u] = info]
  /\ odd' = (odd \/ counted >= info.n \/ \E v \in Attached : asked[v] # info)

\* udo_shm_destroy.  (Bound: not once refused creates have used up the count.)
ShmDestroy(u) ==
  /\ asked[u] # None /\ counted > 0
  /\ counted' = counted - 1 /\ named' = (named /\ counted # 1)
  /\ asked' = [asked EXCEPT ![u] = None]
  /\ length' = IF named' THEN length ELSE 0
  /\ UNCHANGED odd

ShmNext == \E u \in Users : (\E info \in Infos : ShmCreate(u, info)) \/ ShmDestroy(u)

-----------------------------------------------------------------------------
(* Properties.                                                             *)

Indexes(u) == 0 .. asked[u].n - 1

\* The words that data_read and data_write touch for a message of m bytes: whole
\* ints, from the start of the segment.
Touched(m) == ((m + U32 - 1) \div U32) * U32

\* As long as all ask for the same and the futexes fit, no process's segment
\* reaches into a futex, the count or another process's segment, and all of it is
\* inside the object.
SegmentsApart ==
  ~ odd => \A u, v \in Attached : asked[u].size >= HeadSz(asked[u].n) =>
    \A p \in Indexes(u), r \in Indexes(v) :
      /\ FuxOff(p) + 2 * U32 <= DataOff(asked[v], r)
      /\ p < r => DataOff(asked[u], p) + ProcDataSz(asked[u]) <= DataOff(asked[v], r)
      /\ DataOff(asked[u], p) + ProcDataSz(asked[u]) <= length

\* shm.h of udo_shm_data_info, size: "Size in bytes to read from or write to
\* shared memory".  A message no longer than the segment is copied inside it.
\* (The code copies whole ints.)
CopiesStayInside ==
  ~ odd => \A u \in Attached : asked[u].size >= HeadSz(asked[u].n) =>
    \A m \in 1 .. ProcDataSz(asked[u]) : Touched(m) <= ProcDataSz(asked[u])

\* shm.h of udo_shm_create_info, shm_size: "Size of shared memory."  What an
\* attached process was given stays there.  (The code: another create, even one
\* that is refused, sets the length to what it asks for.)
LengthKept == \A u \in Attached : length >= asked[u].size

ShmSpec == ShmInit /\ [][ShmNext]_shmVars
=============================================================================
