--------------------------- MODULE JobPoolLayout ---------------------------
(***************************************************************************)
(* How udo_jpool_create of src/src/jpool.c divides one mapping: the word   *)
(* cur_thread, four words for each thread's queue, then the threads' data  *)
(* areas; and how add_job fills one of those areas until p_queue_full.     *)
(* All numbers are bytes, as in the code.                                  *)
(***************************************************************************)
EXTENDS Naturals

CONSTANTS ThreadsMax,  \* THREADS_MAX
          PageSize,    \* UDO_PAGE_SIZE
          Word,        \* stands for 2^32: jpool->queue_sz is a uint32_t
          Sizes        \* the values of jpool_info->size that are tried

ASSUME LayoutAssumption == /\ ThreadsMax \in Nat \ {0} /\ PageSize \in Nat \ {0}
                           /\ Word \in Nat \ {0} /\ Word % PageSize = 0
                           /\ Sizes \subseteq Nat

AtomicSize == 4             \* sizeof(udo_atomic_u32)
MemberSize == 4 * AtomicSize   \* JOB_QUEUE_MEMBER_SIZE
JobSize    == 16            \* sizeof(struct udo_jpool_job)
Counts     == 1 .. ThreadsMax - 1

VARIABLES
  count, size,   \* the fields of jpool_info
  mapped,        \* futex_info.size: how long the mapping is
  queueSz,       \* jpool->queue_sz, and queue_sz for each thread
  areaSz,
  t,             \* how many turns the loop has made
  offset, dataOff,  \* the loop's offsets
  member, data,  \* member[i], data[i]: where queue i's words and data start
  q, rear        \* the queue that add_job fills, and its rear; q = 0 for none

info == <<count, size>>
made == <<mapped, queueSz, areaSz, t, offset, dataOff, member, data>>
vars == <<info, made, q, rear>>

\* UDO_BYTE_ALIGN(bytes, UDO_PAGE_SIZE)
Align(bytes) == ((bytes + PageSize - 1) \div PageSize) * PageSize

\* uint32_t subtraction.
Minus(m, n) == (m + Word - n) % Word

\* Where the data areas start: data_off before the loop.
DataStart(n) == AtomicSize + MemberSize * n

\* The parameters pass the check; everything else waits for the mapping.
Init ==
  /\ count \in Counts /\ size \in Sizes \ {0}
  /\ mapped = 0 /\ queueSz = 0 /\ areaSz = 0 /\ t = 0
  /\ offset = 0 /\ dataOff = 0
  /\ member = [i \in Counts |-> 0] /\ data = [i \in Counts |-> 0]
  /\ q = 0 /\ rear = 0

\* Mutant of Map: the words at the start are not counted in the size.
MapDataOnly ==
  /\ mapped = 0
  /\ mapped' = Align(size * count)
  /\ queueSz' = mapped' % Word
  /\ offset' = AtomicSize /\ dataOff' = DataStart(count)
  /\ areaSz' = mapped' \div count
  /\ UNCHANGED <<info, t, member, data, q, rear>>

\* udo_futex_create, then jpool->queue_sz, in 32 bits.
Map ==
  /\ mapped = 0
  /\ mapped' = Align(DataStart(count) + size * count)
  /\ queueSz' = mapped' % Word
  /\ offset' = AtomicSize /\ dataOff' = DataStart(count)
  /\ areaSz' = Minus(queueSz', dataOff') \div count
  /\ UNCHANGED <<info, t, member, data, q, rear>>

\* One turn of the loop.
SetQueue ==
  /\ mapped # 0 /\ t < count
  /\ member' = [member EXCEPT ![t + 1] = offset]
  /\ data' = [data EXCEPT ![t + 1] = dataOff]
  /\ dataOff' = dataOff + areaSz /\ offset' = offset + MemberSize
  /\ t' = t + 1
  /\ UNCHANGED <<info, mapped, queueSz, areaSz, q, rear>>

\* p_queue_full: rear >= queue->size - sizeof(struct udo_jpool_job), as size_t;
\* below one record the difference wraps and the queue is never full.
Full == areaSz >= JobSize /\ rear >= areaSz - JobSize

\* Mutant of AddRecord: a record more is taken to fit.
AddRecordLate ==
  /\ t = count /\ mapped # 0
  /\ rear < areaSz
  /\ \E i \in 1 .. count : (q = 0 \/ q = i) /\ q' = i
  /\ rear' = rear + JobSize
  /\ UNCHANGED <<info, made>>

\* add_job: the next record of a queue that is not full.  (A queue of less than
\* one record is tried once.)
AddRecord ==
  /\ t = count /\ mapped # 0
  /\ ~ Full /\ (areaSz < JobSize => rear = 0)
  /\ \E i \in 1 .. count : (q = 0 \/ q = i) /\ q' = i
  /\ rear' = rear + JobSize
  /\ UNCHANGED <<info, made>>

\* p_queue_wait: the full queue is drained and reset.
Drain ==
  /\ q # 0 /\ Full
  /\ q' = 0 /\ rear' = 0
  /\ UNCHANGED <<info, made>>

Next == Map \/ SetQueue \/ AddRecord \/ Drain

Spec == Init /\ [][Next]_vars

-----------------------------------------------------------------------------
(* Properties.                                                             *)

\* The sizes that a 32-bit queue_sz can hold.
Representable == DataStart(count) + size * count + PageSize <= Word

\* Every variable has its type, and no number leaves 32 bits unless the sizes
\* asked for do.
TypeOK ==
  /\ count \in Counts /\ size \in Sizes \ {0}
  /\ mapped \in Nat /\ queueSz \in 0 .. Word - 1 /\ areaSz \in Nat
  /\ t \in 0 .. count /\ offset \in Nat /\ dataOff \in Nat
  /\ member \in [Counts -> Nat] /\ data \in [Counts -> Nat]
  /\ q \in 0 .. count /\ rear \in Nat
  /\ Representable => mapped = queueSz

\* The words of the queues and their data areas are inside the mapping and
\* nothing overlaps anything else.
Disjoint ==
  Representable => \A i, j \in 1 .. t :
    /\ member[i] >= AtomicSize /\ member[i] + MemberSize <= data[j]
    /\ data[i] + areaSz <= mapped
    /\ i < j => /\ member[i] + MemberSize <= member[j]
                /\ data[i] + areaSz <= data[j]

\* Every record that add_job fills is inside the data area of its own queue,
\* whenever a record fits into the size that was asked for.
RecordsFit ==
  Representable /\ size >= JobSize => rear <= areaSz

\* jpool.h, size: "Minimum size of each threads shared memory segment used to
\* store a threads queue'd data".  (The code: not when queue_sz is cut off.)
AtLeastSize == t > 0 => areaSz >= size

\* The same sentence, size being all that create asks of the caller: records are
\* stored inside the segment.  (The code: not when it holds no record.)
AnySizeFits == Representable => rear <= areaSz
=============================================================================
