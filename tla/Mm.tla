--------------------------------- MODULE Mm ---------------------------------
(***************************************************************************)
(* The memory mapped region of src/src/mm.c: one large block from which    *)
(* sub blocks are cut at the offset, given back with everything after them *)
(* moved down, and which is mapped anew when it must grow.                 *)
(*                                                                         *)
(* Memory is counted in words of sizeof(size_t), and the caller asks for   *)
(* whole words.  struct udo_mm at the start of the mapping counts as one   *)
(* word.  The caller fills every block it gets with that block's own mark  *)
(* and, as mm.h asks, adjusts its pointers when a block is freed.          *)
(***************************************************************************)
EXTENDS Integers, Sequences, SequencesExt

CONSTANTS MaxWords,   \* bound: how large a mapping may become
          MaxBlocks,  \* bound: how many blocks are cut, altogether
          MaxSize     \* bound: how many words a caller asks for at once

ASSUME MmAssumption == /\ MaxWords \in Nat \ {0}
                       /\ MaxBlocks \in Nat \ {0}
                       /\ MaxSize \in Nat \ {0}

Header == 1                    \* sizeof(struct udo_mm)
Cells  == 0 .. MaxWords - 1
Lens   == 1 .. MaxSize
Mark(id) == - id               \* what the caller writes into block id
Zero   == 0                    \* a cleared word; a size is positive

VARIABLES
  mem,      \* the words of the mapping
  buff,     \* mm->buff_sz
  ab,       \* mm->ab_sz
  off,      \* mm->offset
  live,     \* the blocks that the caller holds, in the order it got them
  cut,      \* history: how many blocks were cut
  grown,    \* history: the region was mapped anew
  damaged,  \* history: the words of a live block, or its size, were changed
  outside   \* history: words past the mapping were moved in or cleared

mmVars == <<mem, buff, ab, off, live, cut, grown, damaged, outside>>

\* mm->data_sz, which is always set together with buff_sz.
DataSz == buff - Header

Block == [at : Cells, len : Lens, id : 1 .. MaxBlocks]

\* Every variable has its type; in particular offset stays in the mapping.
MmTypeOK ==
  /\ mem \in [Cells -> (- MaxBlocks) .. MaxWords]
  /\ buff \in Header + 1 .. MaxWords /\ ab \in 0 .. buff /\ off \in Header .. buff
  /\ live \in Seq(Block)
  /\ cut \in 0 .. MaxBlocks
  /\ grown \in BOOLEAN /\ damaged \in BOOLEAN /\ outside \in BOOLEAN

\* udo_mm_alloc(NULL, size)
MmInit ==
  /\ mem = [c \in Cells |-> Zero]
  /\ \E size \in 1 .. MaxWords - Header : buff = Header + size /\ ab = size
  /\ off = Header
  /\ live = <<>> /\ cut = 0
  /\ grown = FALSE /\ damaged = FALSE /\ outside = FALSE

\* The block is as the caller left it: its size before it and its words.
Intact(m, b) ==
  /\ m[b.at - 1] = b.len + 1
  /\ \A c \in b.at .. b.at + b.len - 1 : m[c] = Mark(b.id)

AllIntact(m, blocks) == \A i \in DOMAIN blocks : Intact(m, blocks[i])

-----------------------------------------------------------------------------
\* udo_mm_alloc(mm, size), when size is not less than data_sz: the words are
\* cloned, the offset starts again, and everything counts as available.
Grow(size) ==
  /\ DataSz <= size /\ buff + size <= MaxWords
  /\ buff' = buff + size
  /\ off' = Header /\ ab' = buff + size - Header
  /\ grown' = TRUE
  /\ UNCHANGED <<mem, live, cut, damaged, outside>>

\* A block and its size word need less than what counts as available.
Room(size) == ab > size

\* Mutant of SubAlloc: the offset moves on without the size word.
SubAllocShort(len) ==
  /\ cut < MaxBlocks /\ Room(len + 1)
  /\ cut' = cut + 1
  /\ live' = Append(live, [at |-> off + 1, len |-> len, id |-> cut + 1])
  /\ mem' = [c \in Cells |-> IF c = off THEN len + 1
                             ELSE IF c \in off + 1 .. off + len THEN Mark(cut + 1)
                             ELSE mem[c]]
  /\ ab' = ab - (len + 1) /\ off' = off + len
  /\ damaged' = (damaged \/ ~ AllIntact(mem', live'))
  /\ UNCHANGED <<buff, grown, outside>>

\* udo_mm_sub_alloc, when it does not return NULL, and the caller's writing.
SubAlloc(len) ==
  LET size == len + 1 IN
  /\ cut < MaxBlocks /\ Room(size)
  /\ cut' = cut + 1
  /\ live' = Append(live, [at |-> off + 1, len |-> len, id |-> cut + 1])
  /\ mem' = [c \in Cells |-> IF c = off THEN size
                             ELSE IF c \in off + 1 .. off + len THEN Mark(cut + 1)
                             ELSE mem[c]]
  /\ ab' = ab - size /\ off' = off + size
  /\ damaged' = (damaged \/ ~ AllIntact(mem', live'))
  /\ UNCHANGED <<buff, grown>>
  /\ outside' = (outside \/ off + size > buff)

\* The words of a range that exist.
Span(first, n) == {c \in Cells : first <= c /\ c < first + n}

\* memset(mem, 0, n), and memmove of n words; past the mapping there is Zero.
Clear(m, first, n)   == [c \in Cells |-> IF c \in Span(first, n) THEN Zero ELSE m[c]]
Move(m, to, from, n) ==
  [c \in Cells |-> IF c \notin Span(to, n) THEN m[c]
                   ELSE IF c - to + from < buff THEN m[c - to + from] ELSE Zero]

\* The addresses after the freed block are d words lower.
Shifted(blocks, at, d) ==
  [i \in DOMAIN blocks |-> IF blocks[i].at > at THEN [blocks[i] EXCEPT !.at = @ - d]
                           ELSE blocks[i]]

\* Mutant of Free: the moved words are taken from one word too far.
FreeTooFar(k) ==
  LET b == live[k] p == b.at - 1 d == mem[p] IN
  /\ ~ damaged
  /\ p <= off /\ ab + d <= DataSz
  /\ mem' = Clear(Move(Clear(mem, p, d), p, p + d + 1, off - p), p + d, DataSz - (ab + d))
  /\ live' = Shifted(RemoveAt(live, k), b.at, d)
  /\ ab' = ab + d /\ off' = off - d
  /\ damaged' = (damaged \/ ~ AllIntact(mem', live'))
  /\ UNCHANGED <<buff, cut, grown, outside>>

\* udo_mm_free: clear the block, move all that follows, clear "at the end".
\* What becomes of a region whose sizes were overwritten is not followed.
Free(k) ==
  LET b == live[k] p == b.at - 1 d == mem[p] IN
  /\ ~ damaged
  /\ p <= off /\ ab + d <= DataSz
  /\ mem' = Clear(Move(Clear(mem, p, d), p, p + d, off - p), p + d, DataSz - (ab + d))
  /\ live' = Shifted(RemoveAt(live, k), b.at, d)
  /\ ab' = ab + d /\ off' = off - d
  /\ damaged' = (damaged \/ ~ AllIntact(mem', live'))
  /\ outside' = (outside \/ off + d > buff \/ p + d + DataSz - (ab + d) > buff)
  /\ UNCHANGED <<buff, cut, grown>>

\* The number of bytes to move or to clear is negative, and wraps.
FreeWraps(k) ==
  LET p == live[k].at - 1 IN
  /\ ~ damaged
  /\ p > off \/ ab + mem[p] > DataSz
  /\ damaged' = TRUE /\ outside' = TRUE
  /\ UNCHANGED <<mem, buff, ab, off, live, cut, grown>>

MmNext == \/ \E size \in Lens : Grow(size) \/ SubAlloc(size)
        \/ \E k \in DOMAIN live : Free(k) \/ FreeWraps(k)

MmSpec == MmInit /\ [][MmNext]_mmVars

-----------------------------------------------------------------------------
(* Properties.                                                             *)

End(b) == b.at + b.len

\* Until a live block is damaged, and if the region never grew under one, the
\* blocks in the caller's hands and their size words fill the region from its
\* start to the offset, without a gap and without overlap, after any sequence
\* of cuts and frees; the rest is what is available.
Tiled ==
  ~ grown /\ ~ damaged =>
    /\ ab + off = buff
    /\ \A i \in DOMAIN live :
         live[i].at = 1 + IF i = 1 THEN Header ELSE End(live[i - 1])
    /\ off = IF live = <<>> THEN Header ELSE End(Last(live))

\* The block that a free took away, and the words after it.
Freed     == CHOOSE k \in DOMAIN live : /\ \A i \in 1 .. k - 1 : live'[i] = live[i]
                                        /\ k < Len(live) => live'[k].id # live[k].id
Following == off - End(live[Freed])

\* A free leaves the blocks below the freed one as they are; when the freed
\* block is no smaller than everything after it (the only case that
\* tests/test-mm.c frees in), it moves all of that without a loss.
FreeKeepsWhatFits ==
  [][Len(live') < Len(live) =>
       /\ \A i \in 1 .. Freed - 1 : Intact(mem', live[i])
       /\ Following <= live[Freed].len + 1 => AllIntact(mem', live')]_mmVars

\* mm.h of udo_mm_free: "Shifts the memory after the subregion over to the start
\* of the wiped subregion."  (The code goes on to clear part of what it moved.)
FreeKeepsAll == [][Len(live') < Len(live) => AllIntact(mem', live')]_mmVars

\* The same function, "Wipes the bytes at a given subregion of memory": only of
\* the region.  (The code also moves and clears words past its end.)
FreeStaysInside == ~ outside

\* mm.h of udo_mm_alloc: "If re-allocation required pass the previous large block
\* to clone all data."  What was cloned stays until it is freed.
GrowKeepsData == [][Len(live') > Len(live) => \A i \in DOMAIN live : Intact(mem', live[i])]_mmVars
=============================================================================
