---------------------------- MODULE LayoutProofs ----------------------------
(***************************************************************************)
(* Proofs about the three divisions of a mapping, and about Divisions,     *)
(* which composes them: for any sizes, threads, processes and blocks.      *)
(*                                                                         *)
(*   pool    With any number of threads, any page size and any size that   *)
(*           a 32-bit queue_sz can hold, the queues' words and data areas  *)
(*           share nothing, and a record that add_job writes is inside the *)
(*           data area of its own queue.                                   *)
(*   shm     As long as all processes ask for the same, the count is that  *)
(*           of the attached ones, so the object keeps its length; and the *)
(*           segments of one such division follow one another.             *)
(*   region  A free moves the blocks above the freed one down by what that *)
(*           took, so they still follow one another.  After the region has *)
(*           grown nothing can be freed, and the next block that is cut    *)
(*           overwrites the first one if it is still held.                 *)
(*                                                                         *)
(* The arithmetic is in the first lemmas.  The provers know nothing of a   *)
(* product of two variables but what they are told: what a division leaves *)
(* over, and that a product grows with its factors.                        *)
(***************************************************************************)
EXTENDS Divisions, Integers, FiniteSetTheorems, SequenceTheorems, TLAPS

\* Products of natural numbers.
LEMMA Product ==
  /\ \A i, j \in Nat : i * j \in Nat /\ i * j = j * i /\ (i + 1) * j = i * j + j
  /\ \A j \in Nat : 0 * j = 0
  /\ \A i, j, a \in Nat : i =< j => i * a =< j * a
<1>1. \A i, j \in Nat : i * j \in Nat /\ i * j = j * i
  OBVIOUS
<1>2. \A i, j \in Nat : (i + 1) * j = i * j + j
  OBVIOUS
<1>3. \A i, j, a \in Nat : i =< j => i * a =< j * a
  OBVIOUS
<1>4. \A j \in Nat : 0 * j = 0
  OBVIOUS
<1> QED BY <1>1, <1>2, <1>3, <1>4

\* Quotients.
LEMMA Quotient ==
  ASSUME NEW n \in Nat, NEW d \in Nat \ {0}
  PROVE  /\ n \div d \in Nat
         /\ (n \div d) * d =< n /\ n < (n \div d) * d + d
<1> DEFINE f == n \div d
<1>1. f \in Int /\ f >= 0
  OBVIOUS
<1>2. d * (n \div d) =< n
  BY SMTT(30)
<1>3. n < d * (n \div d + 1)
  BY SMTT(30)
<1>4. d * f = f * d /\ d * (f + 1) = (f + 1) * d /\ (f + 1) * d = f * d + d
  <2> HIDE DEF f
  <2> QED BY <1>1, Product
<1> QED BY <1>1, <1>2, <1>3, <1>4

\* A number that fits so many times goes no more often into the quotient.
LEMMA QuotientAtLeast ==
  ASSUME NEW n \in Nat, NEW d \in Nat \ {0}, NEW k \in Nat, k * d =< n
  PROVE  k =< n \div d
<1> DEFINE f == n \div d
<1>1. f \in Nat /\ n < f * d + d
  BY Quotient
<1> HIDE DEF f
<1>2. SUFFICES ASSUME f < k PROVE FALSE
  BY <1>1 DEF f
<1>3. (f + 1) * d =< k * d /\ (f + 1) * d = f * d + d
  BY <1>1, <1>2, Product
<1>4. k * d \in Nat /\ f * d \in Nat
  BY <1>1, Product
<1> QED BY <1>1, <1>3, <1>4

\* Unsigned arithmetic on what fits, and on what wraps once.
LEMMA Remainder ==
  ASSUME NEW n \in Nat, NEW w \in Nat \ {0}
  PROVE  /\ n % w \in 0 .. w - 1
         /\ n < w => n % w = n /\ (n + w) % w = n
OBVIOUS

\* Also of a difference, which may be negative.
LEMMA RemainderIsNat == \A n \in Int, w \in Nat \ {0} : n % w \in Nat
OBVIOUS

\* UDO_BYTE_ALIGN rounds up, by less than a page.
LEMMA AlignUp ==
  ASSUME NEW b \in Nat
  PROVE  Align(b) \in Nat /\ b =< Align(b) /\ Align(b) < b + PageSize
<1>1. PageSize \in Nat \ {0} /\ b + PageSize - 1 \in Nat
  BY LayoutAssumption
<1> DEFINE f == (b + PageSize - 1) \div PageSize
<1>2. /\ f \in Nat /\ f * PageSize =< b + PageSize - 1
      /\ b + PageSize - 1 < f * PageSize + PageSize
  BY <1>1, Quotient
<1>3. f * PageSize \in Nat
  BY <1>1, <1>2, Product
<1>4. Align(b) = f * PageSize
  BY DEF Align
<1> HIDE DEF f
<1> QED BY <1>1, <1>2, <1>3, <1>4

-----------------------------------------------------------------------------
\* What the mapping and the loop have computed.
Asked == DataStart(count) + size * count

MapInv ==
  mapped # 0 =>
    /\ mapped = Align(Asked)
    /\ queueSz = mapped % Word
    /\ areaSz = Minus(queueSz, DataStart(count)) \div count

LoopInv ==
  /\ mapped = 0 => t = 0 /\ q = 0 /\ rear = 0 /\ queueSz = 0
  /\ mapped # 0 => /\ offset = AtomicSize + MemberSize * t
                   /\ dataOff = DataStart(count) + t * areaSz
  /\ \A i \in 1 .. t : /\ member[i] = AtomicSize + MemberSize * (i - 1)
                       /\ data[i] = DataStart(count) + (i - 1) * areaSz

\* A record goes to a queue that is not full.
FillInv == areaSz >= JobSize => rear =< areaSz

Inv == TypeOK /\ MapInv /\ LoopInv /\ FillInv

\* The sizes of the words.
Sizeof == AtomicSize = 4 /\ MemberSize = 16 /\ JobSize = 16
\* The sizes of the structures.
LEMMA SizeofIs == Sizeof
BY DEF Sizeof, AtomicSize, MemberSize, JobSize

\* What the size of a mapping is before it is rounded.
LEMMA AskedIs ==
  ASSUME count \in Counts, size \in Sizes
  PROVE  /\ count \in Nat \ {0} /\ size \in Nat /\ size * count \in Nat
         /\ DataStart(count) = 4 + 16 * count /\ DataStart(count) \in Nat
         /\ Asked \in Nat /\ Asked >= DataStart(count)
<1>1. count \in Nat \ {0} /\ size \in Nat
  BY LayoutAssumption DEF Counts
<1>2. size * count \in Nat
  BY <1>1, Product
<1>3. DataStart(count) = 4 + 16 * count
  BY SizeofIs DEF Sizeof, DataStart
<1> QED BY <1>1, <1>2, <1>3 DEF Asked

\* When queue_sz can hold the size, the areas are at least as large as was asked
\* for, and together they fit behind the words.
LEMMA AreasFit ==
  ASSUME count \in Counts, size \in Sizes, Representable,
         NEW m, m = Align(Asked),
         NEW a, a = Minus(m % Word, DataStart(count)) \div count
  PROVE  /\ m \in Nat /\ m % Word = m
         /\ a \in Nat /\ size =< a /\ DataStart(count) + count * a =< m
<1> DEFINE d == DataStart(count)
           sc == size * count
<1>1. /\ count \in Nat \ {0} /\ size \in Nat /\ sc \in Nat /\ d \in Nat
      /\ Asked = d + sc /\ Asked \in Nat /\ Asked >= d
  BY AskedIs DEF Asked
<1>2. /\ Word \in Nat \ {0} /\ PageSize \in Nat
      /\ d + sc + PageSize =< Word
  BY LayoutAssumption DEF Representable
<1>3. m \in Nat /\ Asked =< m /\ m < Asked + PageSize
  BY <1>1, AlignUp
<1> HIDE DEF d, sc
<1>4. m < Word /\ d =< m
  BY <1>1, <1>2, <1>3
<1>5. m % Word = m
  BY <1>2, <1>3, <1>4, Remainder
<1>6. m - d \in Nat /\ m - d < Word /\ m + Word - d = (m - d) + Word
  BY <1>1, <1>2, <1>3, <1>4
<1>7. Minus(m, d) = m - d
  BY <1>2, <1>6, Remainder DEF Minus
<1>8. a = (m - d) \div count
  BY <1>5, <1>7 DEF d
<1>9. a \in Nat /\ a * count =< m - d
  BY <1>1, <1>6, <1>8, Quotient
<1>10. size =< a
  <2>1. size * count =< m - d
    BY <1>1, <1>3 DEF sc
  <2> QED BY <1>1, <1>6, <1>8, <2>1, QuotientAtLeast
<1>11. count * a = a * count /\ a * count \in Nat
  BY <1>1, <1>9, Product
<1>12. d + count * a =< m
  BY <1>1, <1>3, <1>9, <1>11
<1> QED BY <1>3, <1>5, <1>9, <1>10, <1>12 DEF d
-----------------------------------------------------------------------------
\* At first nothing is mapped.
LEMMA InitInv == Init => Inv
<1> SUFFICES ASSUME Init PROVE Inv
  OBVIOUS
<1>1. count \in Nat \ {0} /\ Word \in Nat \ {0} /\ 0 \in 0 .. Word - 1 /\ 0 \in 0 .. count
  BY AskedIs, LayoutAssumption DEF Init
<1>2. TypeOK
  BY <1>1 DEF Init, TypeOK
<1>3. MapInv /\ LoopInv /\ FillInv
  BY <1>1, SizeofIs DEF Init, MapInv, LoopInv, FillInv, Sizeof
<1> QED BY <1>2, <1>3 DEF Inv

\* The mapping and the division of its data area.
LEMMA MapKeeps ==
  ASSUME Inv, Map
  PROVE  Inv'
<1> DEFINE d == DataStart(count)
<1>1. /\ mapped = 0 /\ mapped' = Align(Asked) /\ queueSz' = mapped' % Word
      /\ dataOff' = d /\ offset' = AtomicSize
      /\ areaSz' = Minus(queueSz', d) \div count
      /\ UNCHANGED <<count, size, t, member, data, q, rear>>
  BY DEF Map, Asked, info
<1>2. /\ count \in Nat \ {0} /\ size \in Nat /\ d \in Nat /\ d = 4 + 16 * count
      /\ Asked \in Nat /\ Asked >= d
  BY AskedIs DEF Inv, TypeOK
<1>3. Word \in Nat \ {0}
  BY LayoutAssumption
<1>4. mapped' \in Nat /\ mapped' # 0
  BY <1>1, <1>2, AlignUp
<1>5. queueSz' \in 0 .. Word - 1
  BY <1>1, <1>3, <1>4, Remainder
<1>6. areaSz' \in Nat
  <2>1. Minus(queueSz', d) \in Nat
    <3>1. queueSz' + Word - d \in Int
        BY <1>2, <1>3, <1>5
    <3> QED BY <1>3, <3>1, RemainderIsNat DEF Minus
  <2> QED BY <1>1, <1>2, <2>1, Quotient
<1>7. Representable => mapped' = queueSz'
  BY <1>1, AreasFit DEF Inv, TypeOK
<1>8. t = 0 /\ q = 0 /\ rear = 0
  BY <1>1 DEF Inv, LoopInv
<1>9. TypeOK'
  BY <1>1, <1>2, <1>4, <1>5, <1>6, <1>7, <1>8, SizeofIs
     DEF Inv, TypeOK, Representable, DataStart, Sizeof
<1>10. MapInv'
  BY <1>1 DEF MapInv, Asked, DataStart
<1>11. LoopInv' /\ FillInv'
  <2>1. 0 * areaSz' = 0
    BY <1>6, Product
  <2> QED BY <1>1, <1>2, <1>4, <1>6, <1>8, <2>1, SizeofIs
          DEF LoopInv, FillInv, Sizeof, DataStart
<1> QED BY <1>9, <1>10, <1>11 DEF Inv

\* One turn of the loop over the queues.
LEMMA SetQueueKeeps ==
  ASSUME Inv, SetQueue
  PROVE  Inv'
<1>1. /\ count \in Nat \ {0} /\ DataStart(count) \in Nat /\ areaSz \in Nat /\ t \in 0 .. count
      /\ t < count /\ count \in Counts /\ Counts = 1 .. ThreadsMax - 1
      /\ mapped # 0 /\ ThreadsMax \in Nat
  BY AskedIs, LayoutAssumption DEF Inv, TypeOK, SetQueue, Counts
<1>2. /\ member' = [member EXCEPT ![t + 1] = offset] /\ data' = [data EXCEPT ![t + 1] = dataOff]
      /\ dataOff' = dataOff + areaSz /\ offset' = offset + MemberSize /\ t' = t + 1
      /\ UNCHANGED <<count, size, mapped, queueSz, areaSz, q, rear>>
  BY DEF SetQueue, info
<1>3. t + 1 \in Counts /\ t' \in 0 .. count
  BY <1>1, <1>2
<1>4. TypeOK'
  BY <1>1, <1>2, <1>3, SizeofIs DEF Inv, TypeOK, Representable, DataStart, Sizeof
<1>5. MapInv' /\ FillInv'
  BY <1>2 DEF Inv, MapInv, FillInv, Asked, DataStart
<1>6. /\ offset = AtomicSize + MemberSize * t
      /\ dataOff = DataStart(count) + t * areaSz
  BY <1>1 DEF Inv, LoopInv
<1>7. /\ offset' = AtomicSize + MemberSize * (t + 1)
      /\ dataOff' = DataStart(count) + (t + 1) * areaSz
  <2>1. (t + 1) * areaSz = t * areaSz + areaSz /\ t * areaSz \in Nat
    BY <1>1, Product
  <2> QED BY <1>1, <1>2, <1>6, <2>1, SizeofIs DEF Sizeof
<1>8. \A i \in 1 .. t' : /\ member'[i] = AtomicSize + MemberSize * (i - 1)
                         /\ data'[i] = DataStart(count) + (i - 1) * areaSz
  <2> TAKE i \in 1 .. t'
  <2>1. CASE i = t + 1
    <3>1. i - 1 = t /\ i \in Counts
      BY <1>1, <1>3, <2>1
    <3> QED BY <1>2, <1>6, <2>1, <3>1 DEF Inv, TypeOK
  <2>2. CASE i # t + 1
    <3>1. i \in 1 .. t /\ i \in Counts
      BY <1>1, <1>2, <2>2
    <3>2. member'[i] = member[i] /\ data'[i] = data[i]
      BY <1>2, <2>2, <3>1 DEF Inv, TypeOK
    <3> QED BY <3>1, <3>2 DEF Inv, LoopInv
  <2> QED BY <2>1, <2>2
<1>9. LoopInv'
  BY <1>1, <1>2, <1>7, <1>8 DEF LoopInv, DataStart
<1> QED BY <1>4, <1>5, <1>9 DEF Inv

\* add_job fills a record if the queue is not full.
LEMMA AddRecordKeeps ==
  ASSUME Inv, AddRecord
  PROVE  Inv'
<1>1. /\ UNCHANGED <<count, size, mapped, queueSz, areaSz, t, offset, dataOff, member, data>>
      /\ mapped # 0 /\ rear' = rear + JobSize /\ ~ Full /\ q' \in 1 .. count
  BY DEF AddRecord, info, made
<1>2. rear \in Nat /\ areaSz \in Nat /\ count \in Nat
  BY AskedIs DEF Inv, TypeOK
<1>3. TypeOK'
  BY <1>1, <1>2, SizeofIs DEF Inv, TypeOK, Representable, DataStart, Sizeof
<1>4. MapInv' /\ LoopInv'
  BY <1>1 DEF Inv, MapInv, LoopInv, Asked, DataStart
<1>5. FillInv'
  BY <1>1, <1>2, SizeofIs DEF FillInv, Full, Sizeof
<1> QED BY <1>3, <1>4, <1>5 DEF Inv

\* A full queue is reset.
LEMMA DrainKeeps ==
  ASSUME Inv, Drain
  PROVE  Inv'
<1>1. /\ UNCHANGED <<count, size, mapped, queueSz, areaSz, t, offset, dataOff, member, data>>
      /\ q' = 0 /\ rear' = 0
  BY DEF Drain, info, made
<1>2. areaSz \in Nat /\ count \in Nat
  BY AskedIs DEF Inv, TypeOK
<1>3. TypeOK'
  BY <1>1, <1>2 DEF Inv, TypeOK, Representable, DataStart
<1>4. MapInv' /\ LoopInv' /\ FillInv'
  BY <1>1, <1>2 DEF Inv, MapInv, LoopInv, FillInv, Asked, DataStart
<1> QED BY <1>3, <1>4 DEF Inv

\* The other divisions run.
LEMMA StutterKeeps ==
  ASSUME Inv, UNCHANGED vars
  PROVE  Inv'
BY DEF vars, info, made, Inv, TypeOK, MapInv, LoopInv, FillInv, Asked, Representable, DataStart

\* Every step keeps the layout.
LEMMA InvKept == Inv /\ [Next]_vars => Inv'
BY MapKeeps, SetQueueKeeps, AddRecordKeeps, DrainKeeps, StutterKeeps DEF Next

\* So in every behaviour.
LEMMA Invariance == Spec => []Inv
BY InitInv, InvKept, PTL DEF Spec

-----------------------------------------------------------------------------
(* The shared object: ShmLayout.                                           *)

\* While all have asked for the same, the count is that of those attached, and so the
\* name, and with it the length, stays until the last one goes.
AskedInv ==
  /\ asked \in [Users -> Infos \cup {None}]
  /\ IsFiniteSet(Attached)
  /\ ~ odd => /\ counted = Cardinality(Attached)
              /\ \A u \in Attached : length = asked[u].size
              /\ \A u, v \in Attached : asked[u] = asked[v]
              /\ Attached # {} => named

\* What a create info holds.
LEMMA InfoIs == \A i \in Infos : /\ i # None
                                 /\ i.n \in Nat /\ i.n > 0 /\ i.size \in Nat /\ i.size < SizeWord
<1> SUFFICES ASSUME NEW i \in Infos
             PROVE  i # None /\ i.n \in Nat /\ i.n > 0 /\ i.size \in Nat /\ i.size < SizeWord
  OBVIOUS
<1>1. i.n \in 1 .. ProcMax - 1 /\ i.size \in 1 .. SizeWord - 1
  BY ShmLayoutAssumption DEF Infos
<1>2. i.n \in Nat /\ i.n > 0 /\ i.size \in Nat /\ i.size < SizeWord
  BY <1>1, ShmLayoutAssumption
<1> QED BY <1>2 DEF None

\* At first nobody is attached.
LEMMA AskedInit == ShmInit => AskedInv
<1> SUFFICES ASSUME ShmInit PROVE AskedInv
  OBVIOUS
<1>1. Attached = {}
  BY DEF ShmInit, Attached
<1>2. asked \in [Users -> Infos \cup {None}]
  BY DEF ShmInit
<1> QED BY <1>1, <1>2, FS_EmptySet DEF ShmInit, AskedInv

\* One more process divides the object as those that are attached do.
LEMMA AttachKeeps ==
  ASSUME AskedInv, NEW u \in Users, NEW i \in Infos, ShmCreate(u, i)
  PROVE  AskedInv'
<1>1. CASE counted >= i.n
  <2>1. asked' = asked /\ odd' = TRUE
    BY <1>1 DEF ShmCreate
  <2> QED BY <2>1 DEF AskedInv, Attached
<1>2. CASE ~ (counted >= i.n)
  <2>1. /\ asked[u] = None /\ asked' = [asked EXCEPT ![u] = i] /\ counted' = counted + 1
        /\ length' = i.size
        /\ odd' = (odd \/ \E v \in Attached : asked[v] # i)
    BY <1>2 DEF ShmCreate
  <2>2. i # None
    BY InfoIs
  <2>3. Attached' = Attached \cup {u} /\ u \notin Attached
    BY <2>1, <2>2 DEF AskedInv, Attached
  <2>4. /\ asked'[u] = i
        /\ \A v \in Users : v # u => asked'[v] = asked[v]
    BY <2>1 DEF AskedInv
  <2>5. /\ IsFiniteSet(Attached')
        /\ Cardinality(Attached') = Cardinality(Attached) + 1
    BY <2>3, FS_AddElement DEF AskedInv
  <2>6. asked' \in [Users -> Infos \cup {None}]
    BY <2>1 DEF AskedInv
  <2>7. ASSUME ~ odd'
        PROVE  /\ counted' = Cardinality(Attached')
               /\ \A v \in Attached' : asked'[v] = i
    <3>1. ~ odd /\ \A v \in Attached : asked[v] = i
      BY <2>1, <2>7
    <3>2. counted' = Cardinality(Attached')
      BY <2>1, <2>5, <3>1 DEF AskedInv
    <3>3. ASSUME NEW v \in Attached' PROVE asked'[v] = i
      <4>1. v = u \/ (v \in Attached /\ v # u /\ v \in Users)
        BY <2>3, <3>3 DEF Attached
      <4> QED BY <2>4, <3>1, <4>1
    <3> QED BY <3>2, <3>3
  <2>8. ~ odd' => \A v \in Attached' : length' = asked'[v].size
    BY <2>1, <2>7
  <2>9. ~ odd' => \A v, w \in Attached' : asked'[v] = asked'[w]
    BY <2>7
  <2>10. named' = TRUE
    BY <1>2 DEF ShmCreate
  <2> QED BY <2>5, <2>6, <2>7, <2>8, <2>9, <2>10 DEF AskedInv
<1> QED BY <1>1, <1>2

\* The length is given up with the name, and then no one is attached any more.
LEMMA DetachKeeps ==
  ASSUME AskedInv, NEW u \in Users, ShmDestroy(u)
  PROVE  AskedInv'
<1>1. /\ asked[u] # None /\ asked' = [asked EXCEPT ![u] = None] /\ counted' = counted - 1
      /\ named' = (named /\ counted # 1)
      /\ length' = IF named' THEN length ELSE 0
      /\ odd' = odd
  BY DEF ShmDestroy
<1>2. Attached' = Attached \ {u} /\ u \in Attached
  BY <1>1 DEF AskedInv, Attached
<1>3. \A v \in Attached' : v \in Attached /\ asked'[v] = asked[v]
  <2> SUFFICES ASSUME NEW v \in Attached' PROVE v \in Attached /\ asked'[v] = asked[v]
    OBVIOUS
  <2>1. v \in Attached /\ v # u /\ v \in Users
    BY <1>2 DEF Attached
  <2> QED BY <1>1, <2>1 DEF AskedInv
<1>4. /\ IsFiniteSet(Attached')
      /\ Cardinality(Attached') = Cardinality(Attached) - 1
      /\ Cardinality(Attached) \in Nat /\ Cardinality(Attached') \in Nat
      /\ Cardinality(Attached') = 0 => Attached' = {}
  <2>1. IsFiniteSet(Attached)
    BY DEF AskedInv
  <2>2. IsFiniteSet(Attached') /\ Cardinality(Attached') = Cardinality(Attached) - 1
    BY <1>2, <2>1, FS_RemoveElement
  <2> QED BY <2>1, <2>2, FS_CardinalityType, FS_EmptySet
<1>5. asked' \in [Users -> Infos \cup {None}]
  BY <1>1 DEF AskedInv
<1>6. ASSUME ~ odd, Attached' # {} PROVE named' /\ length' = length
  <2>1. counted # 1
    BY <1>4, <1>6 DEF AskedInv
  <2>2. named
    BY <1>2, <1>6 DEF AskedInv
  <2> QED BY <1>1, <2>1, <2>2
<1>7. ~ odd' => counted' = Cardinality(Attached')
  BY <1>1, <1>4 DEF AskedInv
<1>8. ~ odd' => \A v \in Attached' : length' = asked'[v].size
  BY <1>1, <1>3, <1>6 DEF AskedInv
<1>9. ~ odd' => \A v, w \in Attached' : asked'[v] = asked'[w]
  BY <1>1, <1>3 DEF AskedInv
<1>10. ~ odd' /\ Attached' # {} => named'
  BY <1>1, <1>6
<1> QED BY <1>4, <1>5, <1>7, <1>8, <1>9, <1>10 DEF AskedInv

\* Every create and destroy keeps it.
LEMMA AskedKept == AskedInv /\ [ShmNext]_shmVars => AskedInv'
<1>1. AskedInv /\ UNCHANGED shmVars => AskedInv'
  BY DEF shmVars, AskedInv, Attached
<1> QED BY <1>1, AttachKeeps, DetachKeeps DEF ShmNext

\* So in every behaviour.
LEMMA AskedInvariance == ShmSpec => []AskedInv
BY AskedInit, AskedKept, PTL DEF ShmSpec

\* A number that is taken from one that is no smaller does not wrap.
LEMMA SizeMinus ==
  ASSUME NEW m \in Nat, NEW n \in Nat, n <= m, m < SizeWord
  PROVE  MinusSize(m, n) = m - n
<1>1. SizeWord \in Nat \ {0} /\ m - n \in Nat /\ m - n < SizeWord
  BY ShmLayoutAssumption
<1>2. ((m - n) + SizeWord) % SizeWord = m - n
  BY <1>1, Remainder
<1>3. m + SizeWord - n = (m - n) + SizeWord
  BY <1>1
<1> QED BY <1>2, <1>3 DEF MinusSize

\* The futexes lie before the segments, and the segments one after another in the object.
LEMMA SegmentsOf ==
  ASSUME NEW i \in Infos, i.size >= HeadSz(i.n), NEW p \in 0 .. i.n - 1, NEW r \in 0 .. i.n - 1
  PROVE  /\ FuxOff(p) + 2 * U32 <= DataOff(i, r)
         /\ p < r => DataOff(i, p) + ProcDataSz(i) <= DataOff(i, r)
         /\ DataOff(i, p) + ProcDataSz(i) <= i.size
<1> DEFINE h == HeadSz(i.n)
           d == ProcDataSz(i)
           n == i.n
           s == i.size
<1>1. n \in Nat \ {0} /\ s \in Nat /\ s < SizeWord
  BY InfoIs
<1>2. h = 4 + 8 * n /\ h \in Nat /\ h =< s
  BY <1>1 DEF HeadSz, U32
<1>3. d = (s - h) \div n
  BY <1>1, <1>2, SizeMinus DEF ProcDataSz
<1>4. FuxOff(p) = 4 + 8 * p /\ 2 * U32 = 8
  BY <1>1 DEF FuxOff, U32
<1>5. DataOff(i, p) = h + p * d /\ DataOff(i, r) = h + r * d
  BY DEF DataOff
<1> HIDE DEF h, d, n, s
<1>6. d \in Nat /\ d * n =< s - h
  <2>1. s - h \in Nat
    BY <1>1, <1>2
  <2> QED BY <1>1, <1>3, <2>1, Quotient
<1>7. p \in Nat /\ r \in Nat /\ p + 1 \in Nat /\ p + 1 =< n /\ r =< n
  BY <1>1 DEF n
<1>8. /\ p * d \in Nat /\ r * d \in Nat /\ n * d \in Nat /\ n * d = d * n
      /\ (p + 1) * d = p * d + d /\ (p + 1) * d =< n * d
      /\ p < r => (p + 1) * d =< r * d
  BY <1>1, <1>6, <1>7, Product
<1>9. FuxOff(p) + 2 * U32 <= DataOff(i, r)
  BY <1>1, <1>2, <1>4, <1>5, <1>7, <1>8
<1>10. p < r => DataOff(i, p) + d <= DataOff(i, r)
  BY <1>2, <1>5, <1>6, <1>8
<1>11. DataOff(i, p) + d <= s
  BY <1>1, <1>2, <1>5, <1>6, <1>8
<1> QED BY <1>9, <1>10, <1>11 DEF d, s

\* Of one division the segments are disjoint.
LEMMA AskedApart == AskedInv => SegmentsApart
<1> SUFFICES ASSUME AskedInv, ~ odd, NEW u \in Attached, NEW v \in Attached,
                    asked[u].size >= HeadSz(asked[u].n),
                    NEW p \in Indexes(u), NEW r \in Indexes(v)
             PROVE  /\ FuxOff(p) + 2 * U32 <= DataOff(asked[v], r)
                    /\ p < r => DataOff(asked[u], p) + ProcDataSz(asked[u]) <= DataOff(asked[v], r)
                    /\ DataOff(asked[u], p) + ProcDataSz(asked[u]) <= length
  BY DEF SegmentsApart
<1>1. PICK i : i = asked[u]
  OBVIOUS
<1>2. asked[v] = i /\ length = i.size
  BY <1>1 DEF AskedInv
<1>3. i \in Infos
  BY <1>1 DEF AskedInv, Attached
<1>4. p \in 0 .. i.n - 1 /\ r \in 0 .. i.n - 1
  BY <1>1, <1>2 DEF Indexes
<1> QED BY <1>1, <1>2, <1>3, <1>4, SegmentsOf

-----------------------------------------------------------------------------
(* The region: Mm.                                                         *)

\* The sizes are naturals, and blocks are not numbered twice.
Cuts == [at : Int, len : Lens, id : Nat]

RegionTypes ==
  /\ mem \in [Cells -> Int]
  /\ buff \in Header + 1 .. MaxWords /\ ab \in Int /\ off \in Int
  /\ live \in Seq(Cuts)
  /\ cut \in Nat
  /\ \A i \in DOMAIN live : live[i].id <= cut
  /\ \A i, j \in DOMAIN live : i < j => live[i].id < live[j].id

\* The blocks follow one another from the start; the region has not ended before them.
ChainInv ==
  /\ \A i \in DOMAIN live : live[i].at = 1 + IF i = 1 THEN Header ELSE End(live[i - 1])
  /\ \A i, j \in DOMAIN live : i < j => End(live[i]) < live[j].at
  /\ \A i \in DOMAIN live : Header < live[i].at

\* The offset is behind the last block.
OffsetInv ==
  /\ ab + off = buff /\ Header <= off /\ off <= buff
  /\ off = IF live = <<>> THEN Header ELSE End(Last(live))
  /\ \A i \in DOMAIN live : End(live[i]) <= off

\* Or the region has just grown: everything counts as available again, from the start.
ResetInv == grown /\ live # <<>> /\ off = Header /\ ab = DataSz

RegionInv ==
  /\ RegionTypes
  /\ ~ damaged => ChainInv /\ AllIntact(mem, live) /\ (OffsetInv \/ ResetInv)

\* A block is removed by its place.
LEMMA RemoveAtIs ==
  ASSUME NEW X, NEW s \in Seq(X), NEW k \in 1 .. Len(s)
  PROVE  /\ RemoveAt(s, k) \in Seq(X) /\ Len(RemoveAt(s, k)) = Len(s) - 1
         /\ \A i \in 1 .. Len(s) - 1 : RemoveAt(s, k)[i] = IF i < k THEN s[i] ELSE s[i + 1]
<1> DEFINE a == SubSeq(s, 1, k - 1)
           b == SubSeq(s, k + 1, Len(s))
<1>1. Len(s) \in Nat /\ k \in Nat /\ \A i \in 1 .. Len(s) : s[i] \in X
  OBVIOUS
<1>2. /\ a \in Seq(X) /\ Len(a) = k - 1
      /\ \A i \in 1 .. k - 1 : a[i] = s[i]
  <2>1. \A i \in 1 .. k - 1 : s[i] \in X
    BY <1>1
  <2>2. /\ a \in Seq(X) /\ Len(a) = IF 1 <= k - 1 THEN k - 1 - 1 + 1 ELSE 0
        /\ \A i \in 1 .. k - 1 - 1 + 1 : a[i] = s[1 + i - 1]
    BY <1>1, <2>1, SubSeqProperties
  <2> HIDE DEF a
  <2> QED BY <1>1, <2>2
<1>3. /\ b \in Seq(X) /\ Len(b) = Len(s) - k
      /\ \A i \in 1 .. Len(s) - k : b[i] = s[k + i]
  <2>1. \A i \in k + 1 .. Len(s) : s[i] \in X
    BY <1>1
  <2>2. /\ b \in Seq(X) /\ Len(b) = IF k + 1 <= Len(s) THEN Len(s) - (k + 1) + 1 ELSE 0
        /\ \A i \in 1 .. Len(s) - (k + 1) + 1 : b[i] = s[k + 1 + i - 1]
    BY <1>1, <2>1, SubSeqProperties
  <2> HIDE DEF b
  <2> QED BY <1>1, <2>2
<1>4. RemoveAt(s, k) = a \o b
  BY DEF RemoveAt
<1> HIDE DEF a, b
<1>5. /\ a \o b \in Seq(X) /\ Len(a \o b) = Len(a) + Len(b)
      /\ \A i \in 1 .. Len(a) + Len(b) : (a \o b)[i] = IF i <= Len(a) THEN a[i] ELSE b[i - Len(a)]
  BY <1>2, <1>3, ConcatProperties
<1>6. ASSUME NEW i \in 1 .. Len(s) - 1
      PROVE  (a \o b)[i] = IF i < k THEN s[i] ELSE s[i + 1]
  <2>1. i \in 1 .. Len(a) + Len(b)
    BY <1>1, <1>2, <1>3
  <2>2. CASE i < k
    BY <1>1, <1>2, <1>5, <2>1, <2>2
  <2>3. CASE ~ (i < k)
    <3>1. i - Len(a) \in 1 .. Len(s) - k /\ k + (i - Len(a)) = i + 1 /\ ~ (i <= Len(a))
      BY <1>1, <1>2, <2>3
    <3> QED BY <1>3, <1>5, <2>1, <2>3, <3>1
  <2> QED BY <2>2, <2>3
<1> QED BY <1>1, <1>2, <1>3, <1>4, <1>5, <1>6

\* The sizes of Mm.
LEMMA MmConstants == /\ MaxWords \in Nat \ {0} /\ MaxSize \in Nat \ {0} /\ Header = 1
                     /\ \A n \in Lens : n \in Nat /\ n >= 1
  BY MmAssumption DEF Header, Lens

\* What the invariant says of one block.
LEMMA BlockIs ==
  ASSUME RegionTypes, NEW k \in DOMAIN live
  PROVE  /\ live[k] \in Cuts
         /\ live[k].at \in Int /\ live[k].len \in Lens /\ live[k].id \in Nat
         /\ live[k].len \in Nat /\ live[k].len >= 1
         /\ End(live[k]) = live[k].at + live[k].len /\ End(live[k]) \in Int
         /\ k \in Nat /\ k \in 1 .. Len(live) /\ Len(live) \in Nat
<1>1. live[k] \in Cuts /\ k \in 1 .. Len(live) /\ Len(live) \in Nat
  BY DEF RegionTypes
<1>2. live[k].at \in Int /\ live[k].len \in Lens /\ live[k].id \in Nat
  BY <1>1 DEF Cuts
<1>3. live[k].len \in Nat /\ live[k].len >= 1
  BY <1>2, MmConstants
<1> QED BY <1>1, <1>2, <1>3 DEF End

\* At first there is no block.
LEMMA RegionInit == MmInit => RegionInv
<1> SUFFICES ASSUME MmInit PROVE RegionInv
  OBVIOUS
<1>1. live = <<>> /\ DOMAIN live = {}
  BY DEF MmInit
<1>2. /\ mem \in [Cells -> Int] /\ cut = 0 /\ off = Header
      /\ \E s \in 1 .. MaxWords - Header : buff = Header + s /\ ab = s
  BY DEF MmInit, Zero
<1>3. buff \in Header + 1 .. MaxWords /\ ab \in Int /\ ab + off = buff /\ off <= buff
  BY <1>2, MmConstants
<1>4. RegionTypes
  BY <1>1, <1>2, <1>3, MmConstants DEF RegionTypes
<1>5. ChainInv
  BY <1>1 DEF ChainInv
<1>6. OffsetInv
  BY <1>1, <1>2, <1>3, MmConstants DEF OffsetInv
<1>7. AllIntact(mem, live)
  BY <1>1 DEF AllIntact
<1> QED BY <1>4, <1>5, <1>6, <1>7 DEF RegionInv

\* udo_mm_alloc on a region, which grows.
LEMMA GrowKeeps ==
  ASSUME RegionInv, NEW size_ \in Lens, Grow(size_)
  PROVE  RegionInv'
<1>1. /\ buff' = buff + size_ /\ buff + size_ <= MaxWords /\ off' = Header
      /\ ab' = buff + size_ - Header /\ grown' = TRUE
      /\ mem' = mem /\ live' = live /\ cut' = cut /\ damaged' = damaged
  BY DEF Grow
<1>2. /\ size_ \in Nat /\ size_ >= 1 /\ buff \in Nat /\ buff >= 2 /\ Header = 1
  BY MmConstants DEF RegionInv, RegionTypes
<1>3. RegionTypes'
  BY <1>1, <1>2, MmConstants DEF RegionInv, RegionTypes
<1>4. ASSUME ~ damaged
      PROVE  ChainInv' /\ AllIntact(mem, live)' /\ (OffsetInv' \/ ResetInv')
  <2>1. ChainInv'
    BY <1>1, <1>4 DEF RegionInv, ChainInv
  <2>2. AllIntact(mem, live)'
    BY <1>1, <1>4 DEF RegionInv
  <2>3. CASE live = <<>>
    <3>1. DOMAIN live' = {} /\ live' = <<>>
      BY <1>1, <2>3
    <3>2. OffsetInv'
      BY <1>1, <1>2, <3>1 DEF OffsetInv
    <3> QED BY <2>1, <2>2, <3>2
  <2>4. CASE live # <<>>
    <3>1. ResetInv'
      BY <1>1, <1>2, <2>4 DEF ResetInv, DataSz
    <3> QED BY <2>1, <2>2, <3>1
  <2> QED BY <2>3, <2>4
<1> QED BY <1>1, <1>3, <1>4 DEF RegionInv

\* A block more.
LEMMA SubAllocKeeps ==
  ASSUME RegionInv, NEW n \in Lens, SubAlloc(n)
  PROVE  RegionInv'
<1> DEFINE b == [at |-> off + 1, len |-> n, id |-> cut + 1]
<1>1. /\ ab > n + 1 /\ cut' = cut + 1
      /\ live' = Append(live, b)
      /\ mem' = [c \in Cells |-> IF c = off THEN n + 1
                             ELSE IF c \in off + 1 .. off + n THEN Mark(cut + 1)
                             ELSE mem[c]]
      /\ ab' = ab - (n + 1) /\ off' = off + (n + 1)
      /\ damaged' = (damaged \/ ~ AllIntact(mem', live'))
      /\ buff' = buff /\ grown' = grown
  BY DEF SubAlloc, Room
<1>2. /\ n \in Nat /\ n >= 1 /\ cut \in Nat /\ off \in Int /\ ab \in Int /\ buff \in Nat /\ Header = 1
      /\ live \in Seq(Cuts) /\ Len(live) \in Nat
      /\ buff <= MaxWords
  BY MmConstants DEF RegionInv, RegionTypes
<1>3. b \in Cuts /\ b.at = off + 1 /\ b.len = n /\ b.id = cut + 1 /\ End(b) = off + (n + 1)
  BY <1>2 DEF Cuts, End
<1> HIDE DEF b
<1>4. /\ live' \in Seq(Cuts) /\ live' # <<>> /\ Len(live') = Len(live) + 1
      /\ \A i \in 1 .. Len(live) : live'[i] = live[i]
      /\ live'[Len(live) + 1] = b
  BY <1>1, <1>2, <1>3, AppendProperties
<1>5. /\ DOMAIN live = 1 .. Len(live) /\ DOMAIN live' = 1 .. Len(live) + 1
      /\ \A i \in DOMAIN live' : i \in DOMAIN live \/ i = Len(live) + 1
      /\ \A i, j \in DOMAIN live' : i < j => i \in DOMAIN live
  BY <1>2, <1>4
<1>6. RegionTypes'
  <2>1. mem' \in [Cells -> Int]
    BY <1>1, <1>2 DEF RegionInv, RegionTypes, Mark
  <2>2. \A i \in DOMAIN live' : live'[i].id <= cut'
    BY <1>1, <1>2, <1>3, <1>4, <1>5, BlockIs DEF RegionInv, RegionTypes
  <2>3. \A i, j \in DOMAIN live' : i < j => live'[i].id < live'[j].id
    <3> SUFFICES ASSUME NEW i \in DOMAIN live', NEW j \in DOMAIN live', i < j
                 PROVE  live'[i].id < live'[j].id
      OBVIOUS
    <3>1. i \in DOMAIN live /\ live'[i] = live[i] /\ live[i].id \in Nat /\ live[i].id <= cut
      BY <1>4, <1>5, BlockIs DEF RegionInv, RegionTypes
    <3>2. CASE j \in DOMAIN live
      BY <1>4, <1>5, <3>1, <3>2 DEF RegionInv, RegionTypes
    <3>3. CASE j = Len(live) + 1
      BY <1>2, <1>3, <1>4, <3>1, <3>3
    <3> QED BY <1>5, <3>2, <3>3
  <2>4. ab' \in Int /\ off' \in Int /\ cut' \in Nat /\ buff' \in Header + 1 .. MaxWords
    BY <1>1, <1>2 DEF RegionInv, RegionTypes
  <2> QED BY <1>4, <2>1, <2>2, <2>3, <2>4 DEF RegionTypes
<1>7. ASSUME ~ damaged'
      PROVE  ChainInv' /\ AllIntact(mem, live)' /\ OffsetInv'
  <2>1. ~ damaged /\ AllIntact(mem', live') /\ ChainInv /\ (OffsetInv \/ ResetInv)
    BY <1>1, <1>7 DEF RegionInv
  \* After the region grew the first block would be overwritten.
  <2>2. OffsetInv
    <3>1. SUFFICES ASSUME ResetInv PROVE FALSE
      BY <2>1
    <3>2. 1 \in DOMAIN live /\ off = Header
      BY <1>2, <1>5, <3>1, EmptySeq DEF ResetInv
    <3>3. live[1].at = 1 + Header /\ live'[1] = live[1]
      BY <1>4, <1>5, <2>1, <3>2 DEF ChainInv
    <3>4. Intact(mem', live[1])
      BY <1>4, <1>5, <2>1, <3>2, <3>3 DEF AllIntact
    <3>5. live[1].len \in Nat /\ live[1].len >= 1 /\ live[1].id \in Nat /\ live[1].id <= cut
      BY <3>2, BlockIs DEF RegionInv, RegionTypes
    <3>6. mem'[off + 1] = Mark(live[1].id)
      <4>1. off + 1 \in live[1].at .. live[1].at + live[1].len - 1
        BY <1>2, <3>2, <3>3, <3>5
      <4> QED BY <3>4, <4>1 DEF Intact
    <3>7. off + 1 \in Cells /\ off + 1 # off /\ off + 1 \in off + 1 .. off + n
      BY <1>1, <1>2, <3>1, <3>2, MmConstants DEF ResetInv, Cells, DataSz
    <3>8. mem'[off + 1] = Mark(cut + 1)
      BY <1>1, <3>7
    <3> QED BY <1>2, <3>5, <3>6, <3>8 DEF Mark
  <2>3. \A i \in DOMAIN live : live'[i] = live[i] /\ End(live[i]) \in Int /\ End(live[i]) <= off
    BY <1>4, <1>5, <2>2, BlockIs DEF OffsetInv, RegionInv
  <2>4. OffsetInv'
    <3>1. ab' + off' = buff' /\ Header <= off' /\ off' <= buff'
      BY <1>1, <1>2, <2>2 DEF OffsetInv
    <3>2. Last(live') = b /\ off' = End(Last(live'))
      BY <1>1, <1>3, <1>4 DEF Last
    <3>3. \A i \in DOMAIN live' : End(live'[i]) <= off'
      BY <1>1, <1>2, <1>3, <1>4, <1>5, <2>3
    <3> QED BY <1>4, <3>1, <3>2, <3>3 DEF OffsetInv
  <2>5. ChainInv'
    <3>1. ASSUME NEW i \in DOMAIN live'
          PROVE  live'[i].at = 1 + IF i = 1 THEN Header ELSE End(live'[i - 1])
      <4>1. CASE i \in DOMAIN live
        <5>1. i = 1 \/ i - 1 \in DOMAIN live
          BY <1>2, <1>5, <4>1
        <5> QED BY <2>1, <2>3, <4>1, <5>1 DEF ChainInv
      <4>2. CASE i = Len(live) + 1 /\ live = <<>>
        <5>1. i = 1 /\ off = Header
          BY <2>2, <4>2 DEF OffsetInv
        <5> QED BY <1>3, <1>2, <1>4, <4>2, <5>1
      <4>3. CASE i = Len(live) + 1 /\ live # <<>>
        <5>1. i - 1 = Len(live) /\ Len(live) \in DOMAIN live /\ i # 1
          BY <1>2, <1>5, <4>3, EmptySeq
        <5>2. off = End(live[Len(live)])
          BY <2>2, <4>3 DEF OffsetInv, Last
        <5> QED BY <1>2, <1>3, <1>4, <2>3, <4>3, <5>1, <5>2
      <4> QED BY <1>5, <4>1, <4>2, <4>3
    <3>2. ASSUME NEW i \in DOMAIN live', NEW j \in DOMAIN live', i < j
          PROVE  End(live'[i]) < live'[j].at
      <4>1. i \in DOMAIN live
        BY <1>5, <3>2
      <4>2. CASE j \in DOMAIN live
        BY <2>1, <2>3, <3>2, <4>1, <4>2 DEF ChainInv
      <4>3. CASE j = Len(live) + 1
        BY <1>2, <1>3, <1>4, <2>3, <4>1, <4>3
      <4> QED BY <1>5, <4>2, <4>3
    <3>3. ASSUME NEW i \in DOMAIN live'
          PROVE  Header < live'[i].at
      <4>1. CASE i \in DOMAIN live
        BY <2>1, <2>3, <4>1 DEF ChainInv
      <4>2. CASE i = Len(live) + 1
        BY <1>2, <1>3, <1>4, <2>2, <4>2 DEF OffsetInv
      <4> QED BY <1>5, <4>1, <4>2
    <3> QED BY <3>1, <3>2, <3>3 DEF ChainInv
  <2> QED BY <2>1, <2>4, <2>5
<1> QED BY <1>6, <1>7 DEF RegionInv

\* The block that is given back is as the caller left it, and the region did not just grow.
LEMMA FreeIs ==
  ASSUME RegionInv, NEW k \in DOMAIN live, NEW d, d = mem[live[k].at - 1], Free(k)
  PROVE  /\ ~ damaged /\ ChainInv /\ OffsetInv /\ AllIntact(mem, live)
         /\ d = live[k].len + 1 /\ d \in Nat /\ live[k].at + d - 1 = End(live[k])
<1>1. ~ damaged /\ ab + d <= DataSz
  BY DEF Free
<1>2. ChainInv /\ AllIntact(mem, live) /\ (OffsetInv \/ ResetInv)
  BY <1>1 DEF RegionInv
<1>3. d = live[k].len + 1
  BY <1>2 DEF AllIntact, Intact
<1>4. /\ live[k].at \in Int /\ live[k].len \in Nat /\ live[k].len >= 1
      /\ End(live[k]) = live[k].at + live[k].len
  BY BlockIs DEF RegionInv
<1>5. ~ ResetInv
  BY <1>1, <1>3, <1>4 DEF ResetInv, RegionInv, RegionTypes, DataSz
<1> QED BY <1>1, <1>2, <1>3, <1>4, <1>5

\* What becomes of the list: the blocks above are lower by the block and its size word.
LEMMA FreedList ==
  ASSUME RegionInv, NEW k \in DOMAIN live, NEW d, d = mem[live[k].at - 1], Free(k)
  PROVE  /\ live' \in Seq(Cuts) /\ Len(live') = Len(live) - 1
         /\ DOMAIN live' = 1 .. Len(live) - 1
         /\ \A i \in 1 .. Len(live) - 1 : i < k => i \in DOMAIN live /\ live'[i] = live[i]
         /\ \A i \in 1 .. Len(live) - 1 : ~ (i < k) =>
              /\ i + 1 \in DOMAIN live /\ k < i + 1
              /\ live'[i] = [live[i + 1] EXCEPT !.at = @ - d]
              /\ live'[i].at = live[i + 1].at - d
              /\ live'[i].len = live[i + 1].len /\ live'[i].id = live[i + 1].id
              /\ End(live'[i]) = End(live[i + 1]) - d
<1> DEFINE r == RemoveAt(live, k)
           a == live[k].at
<1>1. live' = Shifted(r, a, d)
  BY DEF Free
<1>2. live \in Seq(Cuts) /\ k \in 1 .. Len(live) /\ Len(live) \in Nat /\ k \in Nat
  BY BlockIs DEF RegionInv, RegionTypes
<1>3. /\ r \in Seq(Cuts) /\ Len(r) = Len(live) - 1
      /\ \A i \in 1 .. Len(live) - 1 : r[i] = IF i < k THEN live[i] ELSE live[i + 1]
  BY <1>2, RemoveAtIs
<1>4. DOMAIN r = 1 .. Len(live) - 1
  BY <1>3
<1>5. d \in Nat /\ ChainInv /\ a \in Int
  BY FreeIs, BlockIs DEF RegionInv
<1> HIDE DEF r, a
<1>6. live' = [i \in 1 .. Len(live) - 1 |->
                 IF r[i].at > a THEN [r[i] EXCEPT !.at = @ - d] ELSE r[i]]
  BY <1>1, <1>4 DEF Shifted
<1>7. ASSUME NEW i \in 1 .. Len(live) - 1, i < k
      PROVE  i \in DOMAIN live /\ live'[i] = live[i] /\ live'[i] \in Cuts
  <2>1. i \in DOMAIN live
    BY <1>2, <1>7
  <2>2. End(live[i]) < a /\ live[i].at \in Int /\ live[i].len \in Nat
        /\ End(live[i]) = live[i].at + live[i].len /\ live[i] \in Cuts
    BY <1>5, <1>7, <2>1, BlockIs DEF ChainInv, RegionInv, a
  <2>3. ~ (live[i].at > a)
    BY <1>5, <2>2
  <2> QED BY <1>3, <1>6, <1>7, <2>1, <2>2, <2>3
<1>8. ASSUME NEW i \in 1 .. Len(live) - 1, ~ (i < k)
      PROVE  /\ i + 1 \in DOMAIN live /\ k < i + 1
             /\ live'[i] = [live[i + 1] EXCEPT !.at = @ - d]
             /\ live'[i] \in Cuts
  <2>1. i + 1 \in DOMAIN live /\ k < i + 1
    BY <1>2, <1>8
  <2>2. End(live[k]) < live[i + 1].at /\ live[i + 1].at \in Int /\ live[i + 1] \in Cuts
    BY <1>5, <2>1, BlockIs DEF ChainInv, RegionInv
  <2>3. End(live[k]) = a + live[k].len /\ live[k].len \in Nat
    BY BlockIs DEF RegionInv, a
  <2>4. live[i + 1].at > a
    BY <1>5, <2>2, <2>3
  <2>5. live'[i] = [live[i + 1] EXCEPT !.at = @ - d]
    BY <1>3, <1>6, <1>8, <2>4
  <2>6. [live[i + 1] EXCEPT !.at = @ - d] \in Cuts
    BY <1>5, <2>2 DEF Cuts
  <2> QED BY <2>1, <2>5, <2>6
<1>9. ASSUME NEW i \in 1 .. Len(live) - 1, ~ (i < k)
      PROVE  /\ live'[i].at = live[i + 1].at - d
             /\ live'[i].len = live[i + 1].len /\ live'[i].id = live[i + 1].id
             /\ End(live'[i]) = End(live[i + 1]) - d
  <2>1. /\ live'[i] = [live[i + 1] EXCEPT !.at = @ - d] /\ i + 1 \in DOMAIN live
        /\ live[i + 1] \in Cuts
    BY <1>8, <1>9, BlockIs DEF RegionInv
  <2>2. /\ live'[i].at = live[i + 1].at - d
        /\ live'[i].len = live[i + 1].len /\ live'[i].id = live[i + 1].id
    BY <2>1 DEF Cuts
  <2>3. live[i + 1].at \in Int /\ live[i + 1].len \in Nat
    BY <2>1, BlockIs DEF RegionInv
  <2> QED BY <1>5, <2>2, <2>3 DEF End
<1>10. \A i \in 1 .. Len(live) - 1 : live'[i] \in Cuts
  BY <1>7, <1>8
<1>11. live' \in Seq(Cuts) /\ Len(live') = Len(live) - 1 /\ DOMAIN live' = 1 .. Len(live) - 1
  <2>1. Len(live) - 1 \in Nat
    BY <1>2
  <2>2. live' \in [1 .. Len(live) - 1 -> Cuts]
    BY <1>6, <1>10
  <2> QED BY <2>1, <2>2, LenProperties, IsASeq
<1> QED BY <1>7, <1>8, <1>9, <1>11

\* What memset and memmove leave in a word.
LEMMA ClearIs ==
  ASSUME NEW m \in [Cells -> Int], NEW f, NEW n
  PROVE  /\ Clear(m, f, n) \in [Cells -> Int]
         /\ \A c \in Cells : ~ (f <= c /\ c < f + n) => Clear(m, f, n)[c] = m[c]
BY DEF Clear, Span, Zero

\* What memmove changes.
LEMMA MoveIs ==
  ASSUME NEW m \in [Cells -> Int], NEW to \in Nat, NEW from \in Nat, NEW n, RegionTypes
  PROVE  /\ Move(m, to, from, n) \in [Cells -> Int]
         /\ \A c \in Cells : c < to => Move(m, to, from, n)[c] = m[c]
         /\ \A c \in Cells : to <= c /\ c < to + n /\ c - to + from < buff
              => c - to + from \in Cells /\ Move(m, to, from, n)[c] = m[c - to + from]
<1>1. buff \in Nat /\ buff <= MaxWords
  BY MmConstants DEF RegionTypes
<1>2. \A c \in Cells : c \in Nat /\ c < MaxWords
  BY MmConstants DEF Cells
<1>3. \A c \in Cells : to <= c /\ c - to + from < buff => c - to + from \in Cells
  BY <1>1, <1>2, MmConstants DEF Cells
<1>4. \A c \in Cells : c < to => c \notin Span(to, n)
  BY <1>2 DEF Span
<1>5. \A c \in Cells : c \in Span(to, n) => to <= c
  BY DEF Span
<1>6. Move(m, to, from, n) \in [Cells -> Int]
  BY <1>3, <1>5 DEF Move, Zero
<1>7. \A c \in Cells : c < to => Move(m, to, from, n)[c] = m[c]
  BY <1>4 DEF Move
<1>8. \A c \in Cells : to <= c /\ c < to + n /\ c - to + from < buff
              => c - to + from \in Cells /\ Move(m, to, from, n)[c] = m[c - to + from]
  BY <1>3 DEF Move, Span
<1> QED BY <1>6, <1>7, <1>8

\* The words after a free.
LEMMA FreedWords ==
  ASSUME RegionInv, NEW k \in DOMAIN live, NEW d, d = mem[live[k].at - 1], Free(k)
  PROVE  /\ mem' \in [Cells -> Int]
         /\ \A c \in Cells : c < live[k].at - 1 => mem'[c] = mem[c]
         /\ \A c \in Cells : /\ live[k].at - 1 <= c /\ c < live[k].at - 1 + d
                             /\ c + d < off
              => c + d \in Cells /\ mem'[c] = mem[c + d]
<1> DEFINE p  == live[k].at - 1
           m1 == Clear(mem, p, d)
           m2 == Move(m1, p, p + d, off - p)
           n2 == DataSz - (ab + d)
<1>1. mem' = Clear(m2, p + d, n2)
  BY DEF Free
<1>2. /\ d \in Nat /\ p \in Nat /\ p + d \in Nat /\ off \in Int /\ off <= buff /\ buff \in Nat
      /\ RegionTypes /\ mem \in [Cells -> Int]
  <2>1. RegionTypes /\ mem \in [Cells -> Int] /\ off \in Int /\ buff \in Header + 1 .. MaxWords
    BY DEF RegionInv, RegionTypes
  <2>2. d \in Nat /\ Header < live[k].at /\ off <= buff
    BY FreeIs DEF ChainInv, OffsetInv
  <2>3. live[k].at \in Int
    BY <2>1, BlockIs
  <2>4. p \in Nat
    BY <2>2, <2>3, MmConstants
  <2>5. buff \in Nat
    BY <2>1, MmConstants
  <2>6. p + d \in Nat
    BY <2>2, <2>4
  <2> QED BY <2>1, <2>2, <2>4, <2>5, <2>6
<1> HIDE DEF p, n2
<1>3. /\ m1 \in [Cells -> Int]
      /\ \A c \in Cells : ~ (p <= c /\ c < p + d) => m1[c] = mem[c]
  BY <1>2, ClearIs
<1> HIDE DEF m1
<1>4. /\ m2 \in [Cells -> Int]
      /\ \A c \in Cells : c < p => m2[c] = m1[c]
      /\ \A c \in Cells : p <= c /\ c < p + (off - p) /\ c - p + (p + d) < buff
              => c - p + (p + d) \in Cells /\ m2[c] = m1[c - p + (p + d)]
  BY <1>2, <1>3, MoveIs
<1> HIDE DEF m2
<1>5. /\ mem' \in [Cells -> Int]
      /\ \A c \in Cells : ~ (p + d <= c /\ c < p + d + n2) => mem'[c] = m2[c]
  BY <1>1, <1>4, ClearIs
<1>6. \A c \in Cells : c \in Nat
  BY MmConstants DEF Cells
<1>7. ASSUME NEW c \in Cells, c < p
      PROVE  mem'[c] = mem[c]
  BY <1>2, <1>3, <1>4, <1>5, <1>6, <1>7
<1>8. ASSUME NEW c \in Cells, p <= c, c < p + d, c + d < off
      PROVE  c + d \in Cells /\ mem'[c] = mem[c + d]
  <2>1. c - p + (p + d) = c + d /\ c < p + (off - p) /\ c + d < buff /\ c \in Nat
    BY <1>2, <1>6, <1>8
  <2>2. c + d \in Cells /\ m2[c] = m1[c + d]
    BY <1>4, <1>8, <2>1
  <2>3. m1[c + d] = mem[c + d]
    BY <1>2, <1>3, <1>8, <2>1, <2>2
  <2>4. mem'[c] = m2[c]
    BY <1>2, <1>5, <1>8, <2>1
  <2> QED BY <2>2, <2>3, <2>4
<1> QED BY <1>5, <1>7, <1>8 DEF p

\* udo_mm_free of a block.
LEMMA FreeKeeps ==
  ASSUME RegionInv, NEW k \in DOMAIN live, Free(k)
  PROVE  RegionInv'
<1>0. PICK d : d = mem[live[k].at - 1]
  OBVIOUS
<1> DEFINE L == Len(live)
           a == live[k].at
           e == End(live[k])
<1>1. /\ ab' = ab + d /\ off' = off - d /\ buff' = buff /\ cut' = cut /\ grown' = grown
      /\ damaged' = (damaged \/ ~ AllIntact(mem', live'))
  BY <1>0 DEF Free
<1>2. /\ ~ damaged /\ ChainInv /\ OffsetInv /\ d = live[k].len + 1 /\ d \in Nat
      /\ a + d - 1 = e /\ a \in Int /\ e \in Int
      /\ k \in 1 .. L /\ L \in Nat /\ DOMAIN live = 1 .. L /\ k \in Nat
  BY <1>0, FreeIs, BlockIs DEF RegionInv, RegionTypes
<1>3. /\ live' \in Seq(Cuts) /\ Len(live') = L - 1
      /\ DOMAIN live' = 1 .. L - 1
      /\ \A i \in 1 .. L - 1 : i < k => i \in DOMAIN live /\ live'[i] = live[i]
      /\ \A i \in 1 .. L - 1 : ~ (i < k) =>
              /\ i + 1 \in DOMAIN live /\ k < i + 1
              /\ live'[i].at = live[i + 1].at - d
              /\ live'[i].id = live[i + 1].id
              /\ End(live'[i]) = End(live[i + 1]) - d
  <2>1. live' \in Seq(Cuts) /\ Len(live') = Len(live) - 1 /\ DOMAIN live' = 1 .. Len(live) - 1
    BY <1>0, FreedList
  <2>2. \A i \in 1 .. Len(live) - 1 : i < k => i \in DOMAIN live /\ live'[i] = live[i]
    BY <1>0, FreedList
  <2>3. \A i \in 1 .. Len(live) - 1 : ~ (i < k) =>
              /\ i + 1 \in DOMAIN live /\ k < i + 1
              /\ live'[i].at = live[i + 1].at - d
              /\ live'[i].id = live[i + 1].id
              /\ End(live'[i]) = End(live[i + 1]) - d
    <3>1. Len(live) \in Nat /\ RegionInv /\ Free(k) /\ k \in DOMAIN live
      BY DEF RegionInv, RegionTypes
    <3>2. \A i \in 1 .. Len(live) - 1 : ~ (i < k) =>
              /\ i + 1 \in DOMAIN live /\ k < i + 1
              /\ live'[i] = [live[i + 1] EXCEPT !.at = @ - d]
              /\ live'[i].at = live[i + 1].at - d
              /\ live'[i].len = live[i + 1].len /\ live'[i].id = live[i + 1].id
              /\ End(live'[i]) = End(live[i + 1]) - d
      BY <1>0, FreedList
    <3> QED BY <3>2
  <2> QED BY <2>1, <2>2, <2>3
<1>4. \A i \in DOMAIN live : /\ live[i].at \in Int /\ End(live[i]) \in Int /\ live[i].id \in Nat
                             /\ End(live[i]) <= off /\ live[i].at < End(live[i])
  <2> SUFFICES ASSUME NEW i \in DOMAIN live
               PROVE  /\ live[i].at \in Int /\ End(live[i]) \in Int /\ live[i].id \in Nat
                      /\ End(live[i]) <= off /\ live[i].at < End(live[i])
    OBVIOUS
  <2>1. /\ live[i].at \in Int /\ live[i].len \in Nat /\ live[i].len >= 1 /\ live[i].id \in Nat
        /\ End(live[i]) = live[i].at + live[i].len
    BY BlockIs DEF RegionInv
  <2> QED BY <1>2, <2>1 DEF OffsetInv
<1>5. off \in Int /\ ab \in Int /\ buff \in Nat /\ Header = 1 /\ Header < a
  BY <1>2, MmConstants DEF RegionInv, RegionTypes, ChainInv
<1>10. d \in Int /\ a \in Int /\ e \in Int /\ a + d = e + 1
  BY <1>2
<1> HIDE DEF L, a, e
<1>6. RegionTypes'
  <2>1. mem' \in [Cells -> Int]
    BY <1>0, FreedWords
  <2>2. \A i \in DOMAIN live' : live'[i].id <= cut'
    BY <1>1, <1>3 DEF RegionInv, RegionTypes
  <2>3. ASSUME NEW i \in DOMAIN live', NEW j \in DOMAIN live', i < j
        PROVE  live'[i].id < live'[j].id
    <3>0. i \in Nat /\ j \in Nat
      BY <1>3
    <3>1. CASE j < k
      <4>1. i < k
        BY <1>2, <2>3, <3>0, <3>1
      <4> QED BY <1>2, <1>3, <2>3, <3>0, <3>1, <4>1 DEF RegionInv, RegionTypes
    <3>2. CASE i < k /\ ~ (j < k)
      <4>1. i < j + 1
        BY <2>3, <3>0
      <4> QED BY <1>2, <1>3, <2>3, <3>2, <4>1 DEF RegionInv, RegionTypes
    <3>3. CASE ~ (i < k) /\ ~ (j < k)
      <4>1. i + 1 < j + 1
        BY <2>3, <3>0
      <4> QED BY <1>2, <1>3, <2>3, <3>3, <4>1 DEF RegionInv, RegionTypes
    <3> QED BY <1>2, <2>3, <3>0, <3>1, <3>2, <3>3
  <2>4. ab' \in Int /\ off' \in Int /\ cut' \in Nat /\ buff' \in Header + 1 .. MaxWords
    <3>1. cut \in Nat /\ buff \in Header + 1 .. MaxWords
      BY DEF RegionInv, RegionTypes
    <3>2. ab + d \in Int /\ off - d \in Int
      BY <1>5, <1>10
    <3> QED BY <1>1, <3>1, <3>2
  <2> QED BY <1>3, <2>1, <2>2, <2>3, <2>4 DEF RegionTypes
<1>7. \A i \in 1 .. L - 1 : ~ (i < k) => live'[i].at >= a /\ live'[i].at \in Int
  <2> SUFFICES ASSUME NEW i \in 1 .. L - 1, ~ (i < k)
               PROVE  live'[i].at >= a /\ live'[i].at \in Int
    OBVIOUS
  <2>1. e < live[i + 1].at
    BY <1>2, <1>3 DEF ChainInv, e
  <2>2. i + 1 \in DOMAIN live /\ live'[i].at = live[i + 1].at - d
    BY <1>3
  <2>3. live[i + 1].at \in Int
    BY <1>4, <2>2
  <2> QED BY <1>10, <2>1, <2>2, <2>3
<1>8. ChainInv'
  <2>1. ASSUME NEW i \in DOMAIN live'
        PROVE  live'[i].at = 1 + IF i = 1 THEN Header ELSE End(live'[i - 1])
    <3>0. i \in 1 .. L - 1 /\ i \in Nat
      BY <1>2, <1>3
    <3>1. CASE i < k
      <4>1. i = 1 \/ (i - 1 \in 1 .. L - 1 /\ i - 1 < k)
        BY <1>2, <3>0, <3>1
      <4> QED BY <1>2, <1>3, <3>0, <3>1, <4>1 DEF ChainInv
    <3>2. CASE i = k
      <4>1. live'[i].at = live[i + 1].at - d /\ i + 1 # 1 /\ i + 1 \in DOMAIN live /\ i + 1 - 1 = i
        BY <1>3, <3>0, <3>2
      <4>2. live[i + 1].at = 1 + e
        BY <1>2, <3>2, <4>1 DEF ChainInv, e
      <4>3. live'[i].at = a
        BY <1>2, <4>1, <4>2
      <4>4. a = 1 + IF i = 1 THEN Header ELSE End(live[i - 1])
        BY <1>2, <3>2 DEF ChainInv, a
      <4>5. i = 1 \/ (i - 1 \in 1 .. L - 1 /\ i - 1 < k)
        BY <1>2, <3>0, <3>2
      <4> QED BY <1>3, <4>3, <4>4, <4>5
    <3>3. CASE k < i
      <4>0. k \in Nat /\ k >= 1 /\ L \in Nat
        BY <1>2
      <4>1. /\ ~ (i < k) /\ i # 1 /\ i - 1 \in 1 .. L - 1 /\ ~ (i - 1 < k) /\ i - 1 + 1 = i
            /\ i + 1 # 1 /\ i + 1 - 1 = i
        BY <3>0, <3>3, <4>0
      <4>2. live'[i].at = live[i + 1].at - d /\ End(live'[i - 1]) = End(live[i]) - d
            /\ i + 1 \in DOMAIN live /\ i \in DOMAIN live
        BY <1>3, <3>0, <4>1
      <4>3. live[i + 1].at = 1 + End(live[i])
        BY <1>2, <4>1, <4>2 DEF ChainInv
      <4>4. End(live[i]) \in Int
        BY <1>4, <4>2
      <4>5. live'[i].at = 1 + End(live'[i - 1])
        BY <1>10, <4>2, <4>3, <4>4
      <4> QED BY <4>1, <4>5
    <3> QED BY <1>2, <3>0, <3>1, <3>2, <3>3
  <2>2. ASSUME NEW i \in DOMAIN live', NEW j \in DOMAIN live', i < j
        PROVE  End(live'[i]) < live'[j].at
    <3>0. i \in 1 .. L - 1 /\ i \in Nat /\ j \in 1 .. L - 1 /\ j \in Nat
      BY <1>2, <1>3
    <3>1. CASE j < k
      <4>1. i < k
        BY <1>2, <2>2, <3>0, <3>1
      <4> QED BY <1>2, <1>3, <2>2, <3>0, <3>1, <4>1 DEF ChainInv
    <3>2. CASE i < k /\ ~ (j < k)
      <4>1. End(live[i]) < a /\ live'[i] = live[i] /\ End(live[i]) \in Int
        BY <1>2, <1>3, <1>4, <3>0, <3>2 DEF ChainInv, a
      <4> QED BY <1>2, <1>7, <3>0, <3>2, <4>1
    <3>3. CASE ~ (i < k) /\ ~ (j < k)
      <4>1. i + 1 < j + 1
        BY <2>2, <3>0
      <4>2. End(live[i + 1]) < live[j + 1].at
        BY <1>2, <1>3, <3>0, <3>3, <4>1 DEF ChainInv
      <4>3. /\ End(live'[i]) = End(live[i + 1]) - d /\ live'[j].at = live[j + 1].at - d
            /\ i + 1 \in DOMAIN live /\ j + 1 \in DOMAIN live
        BY <1>3, <3>0, <3>3
      <4>4. End(live[i + 1]) \in Int /\ live[j + 1].at \in Int
        BY <1>4, <4>3
      <4> QED BY <1>10, <4>2, <4>3, <4>4
    <3> QED BY <1>2, <2>2, <3>0, <3>1, <3>2, <3>3
  <2>3. ASSUME NEW i \in DOMAIN live'
        PROVE  Header < live'[i].at
    <3>1. CASE i < k
      BY <1>2, <1>3, <2>3, <3>1 DEF ChainInv
    <3>2. CASE ~ (i < k)
      BY <1>2, <1>3, <1>5, <1>7, <2>3, <3>2
    <3> QED BY <3>1, <3>2
  <2> QED BY <2>1, <2>2, <2>3 DEF ChainInv
<1>9. OffsetInv'
  <2>1. e <= off
    BY <1>2 DEF OffsetInv, e
  <2>2. ab' + off' = buff' /\ Header <= off' /\ off' <= buff'
    <3>1. ab + off = buff /\ off <= buff
      BY <1>2 DEF OffsetInv
    <3>2. d \in Nat
      BY <1>2
    <3>3. (ab + d) + (off - d) = buff /\ Header <= off - d /\ off - d <= buff
      BY <1>5, <1>10, <2>1, <3>1, <3>2
    <3> QED BY <1>1, <3>3
  <2>3. off = End(live[L])
    <3>1. live # <<>>
      BY <1>2
    <3> QED BY <1>2, <3>1 DEF OffsetInv, Last, L
  <2>4. \A i \in DOMAIN live' : End(live'[i]) <= off'
    <3> SUFFICES ASSUME NEW i \in DOMAIN live' PROVE End(live'[i]) <= off'
      OBVIOUS
    <3>1. CASE i < k
      <4>1. End(live[i]) < a /\ live'[i] = live[i] /\ End(live[i]) \in Int
        BY <1>2, <1>3, <1>4, <3>1 DEF ChainInv, a
      <4>2. End(live[i]) <= off - d
        BY <1>5, <1>10, <2>1, <4>1
      <4> QED BY <1>1, <4>1, <4>2
    <3>2. CASE ~ (i < k)
      <4>1. End(live'[i]) = End(live[i + 1]) - d /\ i + 1 \in DOMAIN live
        BY <1>3, <3>2
      <4>2. End(live[i + 1]) \in Int /\ End(live[i + 1]) <= off
        BY <1>4, <4>1
      <4>3. End(live'[i]) <= off - d
        BY <1>5, <1>10, <4>1, <4>2
      <4> QED BY <1>1, <4>3
    <3> QED BY <3>1, <3>2
  <2>5. off' = IF live' = <<>> THEN Header ELSE End(Last(live'))
    <3>1. CASE L = 1
      <4>1. live' = <<>>
        BY <1>3, <3>1, EmptySeq
      <4>2. k = 1 /\ a = 1 + Header /\ off = e
        BY <1>2, <2>3, <3>1 DEF ChainInv, a, e
      <4> QED BY <1>1, <1>2, <1>5, <4>1, <4>2
    <3>2. CASE L # 1
      <4>1. L - 1 \in 1 .. L - 1 /\ L - 1 + 1 = L /\ live' # <<>>
        BY <1>2, <1>3, <3>2
      <4>2. Last(live') = live'[L - 1]
        BY <1>3 DEF Last
      <4>3. CASE ~ (L - 1 < k)
        BY <1>1, <1>3, <2>3, <4>1, <4>2, <4>3
      <4>4. CASE L - 1 < k
        <5>1. k = L /\ k # 1
          BY <1>2, <3>2, <4>4
        <5>2. a = 1 + End(live[L - 1]) /\ End(live[L - 1]) \in Int
          BY <1>2, <1>3, <1>4, <4>1, <4>4, <5>1 DEF ChainInv, a
        <5>3. off = e
          BY <2>3, <5>1 DEF e
        <5>4. off - d = End(live[L - 1])
          BY <1>10, <5>2, <5>3
        <5>5. live'[L - 1] = live[L - 1]
          BY <1>3, <4>1, <4>4
        <5> QED BY <1>1, <4>1, <4>2, <5>4, <5>5
      <4> QED BY <4>3, <4>4
    <3> QED BY <3>1, <3>2
  <2> QED BY <2>2, <2>4, <2>5 DEF OffsetInv
<1> QED BY <1>1, <1>6, <1>8, <1>9 DEF RegionInv

\* The same where a length of it wraps.
LEMMA FreeWrapsKeeps ==
  ASSUME RegionInv, NEW k \in DOMAIN live, FreeWraps(k)
  PROVE  RegionInv'
<1>1. damaged' = TRUE /\ UNCHANGED <<mem, buff, ab, off, live, cut, grown>>
  BY DEF FreeWraps
<1> QED BY <1>1 DEF RegionInv, RegionTypes

\* Every step keeps the region.
LEMMA RegionKept == RegionInv /\ [MmNext]_mmVars => RegionInv'
<1>1. RegionInv /\ UNCHANGED mmVars => RegionInv'
  BY DEF mmVars, RegionInv, RegionTypes, ChainInv, OffsetInv, ResetInv, DataSz
<1> QED BY <1>1, GrowKeeps, SubAllocKeeps, FreeKeeps, FreeWrapsKeeps DEF MmNext

\* So in every behaviour.
LEMMA RegionInvariance == MmSpec => []RegionInv
BY RegionInit, RegionKept, PTL DEF MmSpec

\* Blocks that follow one another up to the offset tile the region.
LEMMA RegionTiled == RegionInv => Tiled
BY DEF RegionInv, ResetInv, OffsetInv, ChainInv, Tiled

\* A block is intact if each of its words, and the one before it, is what it was
\* d words higher.
LEMMA IntactMoved ==
  ASSUME NEW b \in Cuts, NEW c \in Cuts, NEW d \in Int, NEW m, NEW n, Intact(m, b),
         c.at = b.at - d, c.len = b.len, c.id = b.id,
         \A x \in Int : c.at - 1 <= x /\ x < End(c) => n[x] = m[x + d]
  PROVE  Intact(n, c)
<1>1. b.at \in Int /\ c.at \in Int /\ b.len \in Nat /\ b.len >= 1
  BY MmConstants DEF Cuts
<1>2. End(c) = c.at + c.len
  BY DEF End
<1>3. n[c.at - 1] = m[b.at - 1]
  <2>1. c.at - 1 \in Int /\ c.at - 1 < End(c) /\ c.at - 1 + d = b.at - 1
    BY <1>1, <1>2
  <2> QED BY <1>1, <2>1
<1>4. ASSUME NEW x \in c.at .. c.at + c.len - 1
      PROVE  n[x] = Mark(c.id)
  <2>1. x \in Int /\ c.at - 1 <= x /\ x < End(c) /\ x + d \in b.at .. b.at + b.len - 1
    BY <1>1, <1>2
  <2> QED BY <2>1 DEF Intact
<1> QED BY <1>3, <1>4 DEF Intact

\* The block that a free takes away is the one it was called for.
LEMMA FreedIs ==
  ASSUME RegionInv, NEW k \in DOMAIN live, Free(k)
  PROVE  Freed = k
<1>0. PICK d : d = mem[live[k].at - 1]
  OBVIOUS
<1> DEFINE P(j) == /\ \A i \in 1 .. j - 1 : live'[i] = live[i]
                   /\ j < Len(live) => live'[j].id # live[j].id
<1>1. k \in 1 .. Len(live) /\ Len(live) \in Nat /\ DOMAIN live = 1 .. Len(live)
  BY BlockIs DEF RegionInv, RegionTypes
<1>2. \A i \in 1 .. Len(live) - 1 : i < k => live'[i] = live[i]
  BY <1>0, FreedList
<1>3. k < Len(live) => live'[k].id = live[k + 1].id
  <2>1. k < Len(live) => k \in 1 .. Len(live) - 1 /\ ~ (k < k)
    BY <1>1
  <2> QED BY <1>0, <2>1, FreedList
<1>4. k < Len(live) => live[k].id # live[k + 1].id
  <2>1. SUFFICES ASSUME k < Len(live) PROVE live[k].id # live[k + 1].id
    OBVIOUS
  <2>2. k + 1 \in DOMAIN live /\ k < k + 1
    BY <1>1, <2>1
  <2>3. live[k].id \in Nat /\ live[k + 1].id \in Nat
    BY <2>2, BlockIs DEF RegionInv
  <2>4. live[k].id < live[k + 1].id
    BY <2>2 DEF RegionInv, RegionTypes
  <2> QED BY <2>3, <2>4
<1>5. P(k)
  BY <1>1, <1>2, <1>3, <1>4
<1>6. ASSUME NEW j \in DOMAIN live, P(j)
      PROVE  j = k
  <2>1. CASE j < k
    <3>1. j \in 1 .. Len(live) - 1 /\ j < Len(live)
      BY <1>1, <1>6, <2>1
    <3> QED BY <1>2, <1>6, <2>1, <3>1
  <2>2. CASE k < j
    <3>1. k \in 1 .. j - 1 /\ k < Len(live)
      BY <1>1, <1>6, <2>2
    <3> QED BY <1>3, <1>4, <1>6, <3>1
  <2> QED BY <1>1, <1>6, <2>1, <2>2
<1>7. Freed = CHOOSE j \in DOMAIN live : P(j)
  BY DEF Freed
<1> HIDE DEF P
<1> QED BY <1>5, <1>6, <1>7

\* A free leaves what is below, and moves what is above if it fits.
LEMMA FreeKeepsIntact ==
  ASSUME RegionInv, NEW k \in DOMAIN live, Free(k)
  PROVE  /\ \A i \in 1 .. k - 1 : Intact(mem', live[i])
         /\ off - End(live[k]) <= live[k].len + 1 => AllIntact(mem', live')
<1>0. PICK d : d = mem[live[k].at - 1]
  OBVIOUS
<1> DEFINE a == live[k].at
           e == End(live[k])
<1>1. /\ ChainInv /\ OffsetInv /\ AllIntact(mem, live) /\ d = live[k].len + 1 /\ d \in Nat
      /\ a + d - 1 = e
  BY <1>0, FreeIs
<1>2. a \in Int /\ e \in Int /\ off \in Int /\ off <= buff /\ buff <= MaxWords /\ buff \in Nat
      /\ MaxWords \in Nat /\ Header = 1
  <2>1. buff \in Header + 1 .. MaxWords /\ off \in Int
    BY DEF RegionInv, RegionTypes
  <2>2. a \in Int /\ e \in Int
    BY BlockIs DEF RegionInv
  <2> QED BY <1>1, <2>1, <2>2, MmConstants DEF OffsetInv
<1>3. /\ \A c \in Cells : c < a - 1 => mem'[c] = mem[c]
      /\ \A c \in Cells : a - 1 <= c /\ c < a - 1 + d /\ c + d < off
           => c + d \in Cells /\ mem'[c] = mem[c + d]
  BY <1>0, FreedWords
<1>4. \A i \in DOMAIN live : /\ live[i] \in Cuts /\ Intact(mem, live[i]) /\ live[i].at \in Int
                             /\ End(live[i]) \in Int /\ End(live[i]) <= off /\ Header < live[i].at
  BY <1>1, BlockIs DEF RegionInv, AllIntact, OffsetInv, ChainInv
<1>5. k \in 1 .. Len(live) /\ DOMAIN live = 1 .. Len(live) /\ Len(live) \in Nat
  BY BlockIs DEF RegionInv, RegionTypes
<1>6. \A x \in Int : 0 <= x /\ x < off => x \in Cells
  BY <1>2 DEF Cells
<1> HIDE DEF a, e
<1>7. ASSUME NEW i \in 1 .. k - 1
      PROVE  Intact(mem', live[i])
  <2>1. i \in DOMAIN live /\ i < k
    BY <1>5
  <2>2. End(live[i]) < a
    BY <1>1, <2>1 DEF ChainInv, a
  <2>3. ASSUME NEW x \in Int, live[i].at - 1 <= x, x < End(live[i])
        PROVE  mem'[x] = mem[x + 0]
    <3>1. live[i].at \in Int /\ End(live[i]) \in Int /\ End(live[i]) <= off /\ 1 < live[i].at
      BY <1>2, <1>4, <2>1
    <3>2. x \in Cells
      BY <1>2, <1>6, <2>3, <3>1
    <3>3. x < a - 1 /\ x + 0 = x
      BY <1>2, <2>2, <2>3, <3>1
    <3> QED BY <1>3, <3>2, <3>3
  <2>4. live[i].at = live[i].at - 0
    BY <1>4, <2>1
  <2> QED BY <1>4, <2>1, <2>3, <2>4, IntactMoved
<1>8. ASSUME off - e <= d, NEW i \in 1 .. Len(live) - 1, ~ (i < k)
      PROVE  Intact(mem', live'[i])
  <2>1. /\ i + 1 \in DOMAIN live /\ k < i + 1
        /\ live'[i].at = live[i + 1].at - d
        /\ live'[i].len = live[i + 1].len /\ live'[i].id = live[i + 1].id
        /\ End(live'[i]) = End(live[i + 1]) - d
        /\ live' \in Seq(Cuts) /\ DOMAIN live' = 1 .. Len(live) - 1
    <3>1. live' \in Seq(Cuts) /\ DOMAIN live' = 1 .. Len(live) - 1
      BY <1>0, FreedList
    <3>2. \A j \in 1 .. Len(live) - 1 : ~ (j < k) =>
              /\ j + 1 \in DOMAIN live /\ k < j + 1
              /\ live'[j] = [live[j + 1] EXCEPT !.at = @ - d]
              /\ live'[j].at = live[j + 1].at - d
              /\ live'[j].len = live[j + 1].len /\ live'[j].id = live[j + 1].id
              /\ End(live'[j]) = End(live[j + 1]) - d
      BY <1>0, FreedList
    <3> QED BY <1>8, <3>1, <3>2
  <2>2. live'[i] \in Cuts
    BY <2>1
  <2>3. e < live[i + 1].at
    BY <1>1, <2>1 DEF ChainInv, e
  <2>4. /\ live[i + 1].at \in Int /\ End(live[i + 1]) \in Int /\ End(live[i + 1]) <= off
        /\ Intact(mem, live[i + 1]) /\ live[i + 1] \in Cuts
    BY <1>4, <2>1
  <2>5. ASSUME NEW x \in Int, live'[i].at - 1 <= x, x < End(live'[i])
        PROVE  mem'[x] = mem[x + d]
    <3>1. live[i + 1].at - d - 1 <= x /\ x < End(live[i + 1]) - d
      BY <2>1, <2>5
    <3>2. d \in Nat /\ a + d - 1 = e /\ off - e <= d
      BY <1>1, <1>8
    <3>3. a - 1 <= x /\ x + d < off /\ x < a - 1 + d
      BY <1>2, <2>3, <2>4, <3>1, <3>2
    <3>4. 1 < a
      BY <1>1, <1>2 DEF ChainInv, a
    <3>5. x \in Cells
      BY <1>2, <1>6, <3>2, <3>3, <3>4
    <3> QED BY <1>3, <3>3, <3>5
  <2>6. d \in Int
    BY <1>1
  <2> QED BY <2>1, <2>2, <2>4, <2>5, <2>6, IntactMoved
<1>9. ASSUME off - e <= d
      PROVE  AllIntact(mem', live')
  <2>1. /\ DOMAIN live' = 1 .. Len(live) - 1
        /\ \A i \in 1 .. Len(live) - 1 : i < k => i \in DOMAIN live /\ live'[i] = live[i]
    BY <1>0, FreedList
  <2>2. \A i \in 1 .. Len(live) - 1 : i < k => i \in 1 .. k - 1
    BY <1>5
  <2> QED BY <1>7, <1>8, <1>9, <2>1, <2>2 DEF AllIntact
<1>10. off - End(live[k]) <= live[k].len + 1 => off - e <= d
  BY <1>1 DEF e
<1> QED BY <1>7, <1>9, <1>10

\* So does every step with one block less.
LEMMA FreeAction ==
  ASSUME RegionInv, MmNext, Len(live') < Len(live)
  PROVE  /\ \A i \in 1 .. Freed - 1 : Intact(mem', live[i])
         /\ Following <= live[Freed].len + 1 => AllIntact(mem', live')
<1>1. live \in Seq(Cuts) /\ Len(live) \in Nat
  BY DEF RegionInv, RegionTypes
<1>2. CASE \E n \in Lens : Grow(n)
  BY <1>1, <1>2 DEF Grow
<1>3. CASE \E n \in Lens : SubAlloc(n)
  <2>1. PICK n \in Lens : SubAlloc(n)
    BY <1>3
  <2>2. PICK b : live' = Append(live, b)
    BY <2>1 DEF SubAlloc
  <2>3. Len(live') = Len(live) + 1
    BY <1>1, <2>2
  <2> QED BY <1>1, <2>3
<1>4. CASE \E k \in DOMAIN live : FreeWraps(k)
  BY <1>1, <1>4 DEF FreeWraps
<1>5. CASE \E k \in DOMAIN live : Free(k)
  <2>1. PICK k \in DOMAIN live : Free(k)
    BY <1>5
  <2>2. Freed = k
    BY <2>1, FreedIs
  <2>3. Following = off - End(live[k])
    BY <2>2 DEF Following
  <2> QED BY <2>1, <2>2, <2>3, FreeKeepsIntact
<1> QED BY <1>2, <1>3, <1>4, <1>5 DEF MmNext

-----------------------------------------------------------------------------
(* The composition.                                                        *)

DivisionsInv == Inv /\ AskedInv /\ RegionInv

\* One of the three takes a step, and the others stay where they are.
LEMMA DivisionsInvariance == AllSpec => []DivisionsInv
<1>1. AllInit => DivisionsInv
  BY InitInv, AskedInit, RegionInit DEF AllInit, DivisionsInv
<1>2. ASSUME DivisionsInv, [AllNext]_allVars
      PROVE  DivisionsInv'
  <2>1. [Next]_vars /\ [ShmNext]_shmVars /\ [MmNext]_mmVars
    BY <1>2 DEF AllNext, allVars
  <2>2. Inv'
    BY <1>2, <2>1, InvKept DEF DivisionsInv
  <2> QED BY <1>2, <2>1, <2>2, AskedKept, RegionKept DEF DivisionsInv
<1> QED BY <1>1, <1>2, PTL DEF AllSpec

-----------------------------------------------------------------------------
(* Theorems.                                                               *)

\* Whatever number of threads a pool has and whatever size was asked for, as long
\* as queue_sz can hold it: udo_jpool_create puts the words of all queues before
\* all data areas, every area inside the mapping, and none into another.
THEOREM AreasAreApart ==
  /\ Spec => []Disjoint
  /\ AllSpec => []Disjoint
<1>1. Inv => Disjoint
  <2> SUFFICES ASSUME Inv, Representable, NEW i \in 1 .. t, NEW j \in 1 .. t
               PROVE  /\ member[i] >= AtomicSize /\ member[i] + MemberSize <= data[j]
                      /\ data[i] + areaSz <= mapped
                      /\ i < j => /\ member[i] + MemberSize <= member[j]
                                  /\ data[i] + areaSz <= data[j]
    BY DEF Disjoint
  <2> DEFINE d == DataStart(count)
  <2>1. /\ count \in Nat \ {0} /\ d = 4 + 16 * count /\ d \in Nat
        /\ t \in 0 .. count /\ mapped # 0
    BY AskedIs DEF Inv, TypeOK, LoopInv
  <2>2. areaSz \in Nat /\ mapped \in Nat /\ d + count * areaSz =< mapped
    BY <2>1, AreasFit DEF Inv, TypeOK, MapInv
  <2> HIDE DEF d
  <2>3. /\ member[i] = 4 + 16 * (i - 1) /\ member[j] = 4 + 16 * (j - 1)
        /\ data[i] = d + (i - 1) * areaSz /\ data[j] = d + (j - 1) * areaSz
    BY SizeofIs DEF Inv, LoopInv, Sizeof, d
  <2>4. i \in Nat /\ i - 1 \in Nat /\ j - 1 \in Nat /\ i =< count
    BY <2>1
  <2>5. /\ (i - 1) * areaSz \in Nat /\ (j - 1) * areaSz \in Nat /\ i * areaSz \in Nat
        /\ count * areaSz \in Nat /\ i * areaSz = (i - 1) * areaSz + areaSz
    <3>1. ((i - 1) + 1) * areaSz = (i - 1) * areaSz + areaSz /\ (i - 1) + 1 = i
      BY <2>2, <2>4, Product
    <3> QED BY <2>1, <2>2, <2>4, <3>1, Product
  <2>6. i * areaSz =< count * areaSz
    BY <2>1, <2>2, <2>4, Product
  <2>7. i < j => i * areaSz =< (j - 1) * areaSz
    BY <2>1, <2>2, <2>4, Product
  <2>8. member[i] >= AtomicSize /\ member[i] + MemberSize <= data[j]
    BY <2>1, <2>3, <2>4, <2>5, SizeofIs DEF Sizeof
  <2>9. data[i] + areaSz <= mapped
    BY <2>1, <2>2, <2>3, <2>5, <2>6
  <2>10. i < j => member[i] + MemberSize <= member[j] /\ data[i] + areaSz <= data[j]
    BY <2>1, <2>2, <2>3, <2>4, <2>5, <2>7, SizeofIs DEF Sizeof
  <2> QED BY <2>8, <2>9, <2>10
<1>2. DivisionsInv => Disjoint
  BY <1>1 DEF DivisionsInv
<1> QED BY <1>1, <1>2, Invariance, DivisionsInvariance, PTL

\* For every such pool whose size holds a record: add_job stops at p_queue_full
\* before a record leaves the data area of its queue.
THEOREM RecordsStayInArea ==
  /\ Spec => []RecordsFit
  /\ AllSpec => []RecordsFit
<1>1. Inv => RecordsFit
  <2> SUFFICES ASSUME Inv, Representable, size >= JobSize
               PROVE  rear =< areaSz
    BY DEF RecordsFit
  <2>1. rear \in Nat /\ areaSz \in Nat
    BY DEF Inv, TypeOK
  <2>2. CASE mapped = 0
    BY <2>1, <2>2 DEF Inv, LoopInv
  <2>3. CASE mapped # 0
    <3>1. size \in Nat /\ size =< areaSz
      BY <2>3, AreasFit, AskedIs DEF Inv, TypeOK, MapInv
    <3> QED BY <2>1, <3>1, SizeofIs DEF Inv, FillInv, Sizeof
  <2> QED BY <2>2, <2>3
<1>2. DivisionsInv => RecordsFit
  BY <1>1 DEF DivisionsInv
<1> QED BY <1>1, <1>2, Invariance, DivisionsInvariance, PTL

\* p_shm_create, for any number of processes, process indexes and sizes: while all ask
\* for the same, no segment reaches into a futex, the count or another process's
\* segment, and all of them are inside the object.
THEOREM SegmentsStayApart ==
  /\ ShmSpec => []SegmentsApart
  /\ AllSpec => []SegmentsApart
<1>1. DivisionsInv => SegmentsApart
  BY AskedApart DEF DivisionsInv
<1> QED BY <1>1, AskedApart, AskedInvariance, DivisionsInvariance, PTL

\* udo_mm_sub_alloc and udo_mm_free, for any region, any number of blocks and any
\* sizes: until a block is damaged, and if the region did not grow, the blocks tile
\* the region up to the offset, and the rest is what is available.
THEOREM BlocksTile ==
  /\ MmSpec => []Tiled
  /\ AllSpec => []Tiled
<1>1. DivisionsInv => Tiled
  BY RegionTiled DEF DivisionsInv
<1> QED BY <1>1, RegionTiled, RegionInvariance, DivisionsInvariance, PTL

\* udo_mm_free, for any region and blocks, also of a region that has grown: the blocks
\* below the freed one stay as they are, and all those above it do when they fit into
\* its place.
THEOREM FreesKeepWhatFits ==
  /\ MmSpec => FreeKeepsWhatFits
  /\ AllSpec => FreeKeepsWhatFits
<1> DEFINE A == Len(live') < Len(live) =>
                  /\ \A i \in 1 .. Freed - 1 : Intact(mem', live[i])
                  /\ Following <= live[Freed].len + 1 => AllIntact(mem', live')
<1>1. RegionInv /\ [MmNext]_mmVars => [A]_mmVars
  BY FreeAction
<1>2. [AllNext]_allVars => [MmNext]_mmVars
  BY DEF AllNext, allVars
<1>3. DivisionsInv => RegionInv
  BY DEF DivisionsInv
<1> HIDE DEF A
<1>4. MmSpec => [][A]_mmVars
  BY <1>1, RegionInvariance, PTL DEF MmSpec
<1>5. AllSpec => [][A]_mmVars
  BY <1>1, <1>2, <1>3, DivisionsInvariance, PTL DEF AllSpec
<1> QED BY <1>4, <1>5 DEF A, FreeKeepsWhatFits
=============================================================================
