---------------------------- MODULE ShmProofs ----------------------------
(***************************************************************************)
(* The two futexes of a segment pass one token: whoever has locked one of  *)
(* them to copy finds both locked, for any number of processes, whenever   *)
(* they attach, detach or are interrupted (TokenInv).                      *)
(*                                                                         *)
(* On top of that, every message that was written and not yet read is in   *)
(* one place, a whole one: in the hands of its writer, in a segment whose  *)
(* read futex is free, or in the hands of its reader (MessageInv).  A      *)
(* stolen or leaked token loses a message, and never doubles one.          *)
(*                                                                         *)
(* While no token was stolen or leaked, nobody waits at two locked futexes *)
(* without somebody copying there (NeverStuck).                            *)
(***************************************************************************)
EXTENDS Shm, TLAPS

CopyPCs == {"rdCopy", "rdUnlock", "wrCopy", "wrUnlock"}

\* Process p has made its turn of the loop for segment i of block b.
Past(p, b, i) ==
  /\ map[p] = b
  /\ \/ pc[p] \in {"in"} \cup ReadPCs \cup WritePCs
     \/ pc[p] = "init" /\ i < idx[p]

\* Inside a call a process has a block mapped.
MapInv == \A p \in Procs : pc[p] \notin {"out", "unlink", "crashed"} => map[p] \in Blocks

\* Both futexes are free only before anyone can have locked one.
FreshInv == \A b \in Blocks, i \in Indexes, p \in Procs :
  rd[b][i] = UNLOCK /\ wr[b][i] = UNLOCK => ~ Past(p, b, i)

\* Whoever copies holds both.
HoldInv == \A b \in Blocks, i \in Indexes, p \in Procs :
  At(p, b, i, CopyPCs) => rd[b][i] = LOCK /\ wr[b][i] = LOCK

OneInv == \A b \in Blocks, i \in Indexes, p, r \in Procs :
  At(p, b, i, CopyPCs) /\ At(r, b, i, CopyPCs) => p = r

TokenInv == TypeOK /\ MapInv /\ FreshInv /\ HoldInv /\ OneInv

\* What the assumptions say of the constants.
LEMMA Constants == /\ ProcCount \in Nat \ {0} /\ MaxBlocks \in Nat \ {0} /\ MaxMsgs \in Nat \ {0}
                   /\ 0 \in Indexes
  BY ShmAssumption DEF Indexes

\* Before the first block is created, the invariant holds.
LEMMA TokenInit == Init => TokenInv
<1> SUFFICES ASSUME Init PROVE TokenInv
  OBVIOUS
<1>1. TypeOK
  BY Constants DEF Init, TypeOK, TypeMemory, TypeProcs, TypeHistory, Blocks, Buffers, Empty, UNLOCK, LOCK, Words
<1>2. \A p \in Procs : pc[p] = "out"
  BY DEF Init
<1>3. MapInv /\ FreshInv /\ HoldInv /\ OneInv
  BY <1>2 DEF MapInv, FreshInv, HoldInv, OneInv, Past, At, CopyPCs, ReadPCs, WritePCs
<1> QED
  BY <1>1, <1>3 DEF TokenInv

\* Every step of a process keeps it.
LEMMA TokenNext == TokenInv /\ [Next]_vars => TokenInv'
<1> SUFFICES ASSUME TokenInv, [Next]_vars PROVE TokenInv'
  OBVIOUS
<1> USE Constants DEF TokenInv, TypeOK, memory, locals, history, Goto, Set, UNLOCK, LOCK, None,
        InPCs, ReadPCs, WritePCs, CopyPCs
<1>1. ASSUME NEW p \in Procs, Open(p) PROVE TokenInv'
  <2>1. TypeMemory'
    BY <1>1 DEF Open, TypeMemory, TypeProcs, MapInv, Buffers, Blocks
  <2>2. TypeProcs'
    <3>1. pc' \in [Procs -> {"out", "check", "refused", "add", "sub", "unlink", "crashed"} \cup InPCs]
      BY <1>1 DEF Open, TypeProcs
    <3>2. map' \in [Procs -> Blocks \cup {None}]
      <4>1. link = None \/ link \in Blocks
        BY DEF TypeMemory
      <4>2. blocks < MaxBlocks => blocks + 1 \in Blocks
        BY DEF TypeMemory, Blocks
      <4> QED
        BY <1>1, <4>1, <4>2 DEF Open, TypeProcs
    <3> QED
      BY <1>1, <3>1, <3>2 DEF Open, TypeProcs
  <2>3. TypeHistory'
    BY <1>1 DEF Open, TypeProcs, TypeHistory
  <2>4. MapInv'
    BY <1>1 DEF Open, TypeMemory, TypeProcs, MapInv, Blocks
  <2>5. FreshInv'
    BY <1>1 DEF Open, TypeMemory, TypeProcs, MapInv, FreshInv, HoldInv, Past, At, Indexes
  <2>6. HoldInv'
    BY <1>1 DEF Open, TypeMemory, TypeProcs, MapInv, FreshInv, HoldInv, OneInv, Past, At
  <2>7. OneInv'
    BY <1>1 DEF Open, TypeMemory, TypeProcs, MapInv, HoldInv, OneInv, At
  <2> QED
    BY <2>1, <2>2, <2>3, <2>4, <2>5, <2>6, <2>7 DEF TypeOK
<1>2. ASSUME NEW p \in Procs, CheckCount(p) PROVE TokenInv'
  <2>1. TypeMemory'
    BY <1>2 DEF CheckCount, TypeMemory, TypeProcs, MapInv, Buffers, Blocks
  <2>2. TypeProcs'
    BY <1>2 DEF CheckCount, TypeMemory, TypeProcs, TypeHistory, MapInv, Buffers, Words, Empty, Msgs, Blocks
  <2>3. TypeHistory'
    BY <1>2 DEF CheckCount, TypeProcs, TypeHistory
  <2>4. MapInv'
    BY <1>2 DEF CheckCount, TypeMemory, TypeProcs, MapInv, Blocks
  <2>5. FreshInv'
    BY <1>2 DEF CheckCount, TypeMemory, TypeProcs, MapInv, FreshInv, HoldInv, Past, At, Indexes
  <2>6. HoldInv'
    BY <1>2 DEF CheckCount, TypeMemory, TypeProcs, MapInv, FreshInv, HoldInv, OneInv, Past, At
  <2>7. OneInv'
    BY <1>2 DEF CheckCount, TypeMemory, TypeProcs, MapInv, HoldInv, OneInv, At
  <2> QED
    BY <2>1, <2>2, <2>3, <2>4, <2>5, <2>6, <2>7 DEF TypeOK
<1>3. ASSUME NEW p \in Procs, AddCount(p) PROVE TokenInv'
  <2>1. TypeMemory'
    <3>1. map[p] \in Blocks
      BY <1>3 DEF AddCount, MapInv
    <3>2. count[map[p]] + 1 \in Int
      BY <3>1 DEF TypeMemory
    <3>3. count' \in [Blocks -> Int]
      BY <1>3, <3>2 DEF AddCount, TypeMemory
    <3> QED
      BY <1>3, <3>1, <3>2, <3>3 DEF AddCount, TypeMemory
  <2>2. TypeProcs'
    BY <1>3 DEF AddCount, TypeMemory, TypeProcs, TypeHistory, MapInv, Buffers, Words, Empty, Msgs, Blocks
  <2>3. TypeHistory'
    BY <1>3 DEF AddCount, TypeProcs, TypeHistory
  <2>4. MapInv'
    BY <1>3 DEF AddCount, TypeMemory, TypeProcs, MapInv, Blocks
  <2>5. FreshInv'
    BY <1>3 DEF AddCount, TypeMemory, TypeProcs, MapInv, FreshInv, HoldInv, Past, At, Indexes
  <2>6. HoldInv'
    BY <1>3 DEF AddCount, TypeMemory, TypeProcs, MapInv, FreshInv, HoldInv, OneInv, Past, At
  <2>7. OneInv'
    BY <1>3 DEF AddCount, TypeMemory, TypeProcs, MapInv, HoldInv, OneInv, At
  <2> QED
    BY <2>1, <2>2, <2>3, <2>4, <2>5, <2>6, <2>7 DEF TypeOK
<1>4. ASSUME NEW p \in Procs, InitFutex(p) PROVE TokenInv'
  <2>1. TypeMemory'
    BY <1>4 DEF InitFutex, TypeMemory, TypeProcs, MapInv, Buffers, Blocks
  <2>2. TypeProcs'
    <3>1. pc' \in [Procs -> {"out", "check", "refused", "add", "sub", "unlink", "crashed"} \cup InPCs]
      BY <1>4 DEF InitFutex, TypeProcs
    <3>2. idx[p] + 1 < ProcCount => idx[p] + 1 \in Indexes
      BY <1>4 DEF TypeProcs, Indexes
    <3>3. idx' \in [Procs -> Indexes]
      BY <1>4, <3>2 DEF InitFutex, TypeProcs
    <3> QED
      BY <1>4, <3>1, <3>2, <3>3 DEF InitFutex, TypeProcs
  <2>3. TypeHistory'
    BY <1>4 DEF InitFutex, TypeProcs, TypeHistory
  <2>4. MapInv'
    BY <1>4 DEF InitFutex, TypeMemory, TypeProcs, MapInv, Blocks
  <2>5. FreshInv'
    BY <1>4 DEF InitFutex, TypeMemory, TypeProcs, MapInv, FreshInv, HoldInv, Past, At, Indexes
  <2>6. HoldInv'
    BY <1>4 DEF InitFutex, TypeMemory, TypeProcs, MapInv, FreshInv, HoldInv, OneInv, Past, At
  <2>7. OneInv'
    <3> SUFFICES ASSUME NEW b \in Blocks, NEW j \in Indexes, NEW x \in Procs, NEW y \in Procs,
                        At(x, b, j, CopyPCs)', At(y, b, j, CopyPCs)'
                 PROVE  x = y
      BY DEF OneInv
    <3>1. \A z \in Procs : z # p => (At(z, b, j, CopyPCs)' <=> At(z, b, j, CopyPCs))
      BY <1>4 DEF InitFutex, TypeProcs, At
    <3>2. At(p, b, j, CopyPCs)' /\ ~ At(p, b, j, CopyPCs)
            => \A z \in Procs : ~ At(z, b, j, CopyPCs)
      BY <1>4 DEF InitFutex, TypeProcs, HoldInv, At
    <3> QED
      BY <3>1, <3>2 DEF OneInv
  <2> QED
    BY <2>1, <2>2, <2>3, <2>4, <2>5, <2>6, <2>7 DEF TypeOK
<1>5. ASSUME NEW p \in Procs, Signal(p) PROVE TokenInv'
  <2>1. TypeMemory'
    BY <1>5 DEF Signal, TypeMemory, TypeProcs, MapInv, Buffers, Blocks
  <2>2. TypeProcs'
    BY <1>5 DEF Signal, TypeMemory, TypeProcs, TypeHistory, MapInv, Buffers, Words, Empty, Msgs, Blocks
  <2>3. TypeHistory'
    BY <1>5 DEF Signal, TypeProcs, TypeHistory
  <2>4. MapInv'
    BY <1>5 DEF Signal, TypeMemory, TypeProcs, MapInv, Blocks
  <2>5. FreshInv'
    BY <1>5 DEF Signal, TypeMemory, TypeProcs, MapInv, FreshInv, HoldInv, Past, At, Indexes
  <2>6. HoldInv'
    BY <1>5 DEF Signal, TypeMemory, TypeProcs, MapInv, FreshInv, HoldInv, OneInv, Past, At
  <2>7. OneInv'
    BY <1>5 DEF Signal, TypeMemory, TypeProcs, MapInv, HoldInv, OneInv, At
  <2> QED
    BY <2>1, <2>2, <2>3, <2>4, <2>5, <2>6, <2>7 DEF TypeOK
<1>6. ASSUME NEW p \in Procs, ReadLock(p) PROVE TokenInv'
  <2>1. TypeMemory'
    BY <1>6 DEF ReadLock, AfterLock, TypeMemory, TypeProcs, MapInv, Buffers, Blocks
  <2>2. TypeProcs'
    <3>1. pc' \in [Procs -> {"out", "check", "refused", "add", "sub", "unlink", "crashed"} \cup InPCs]
      BY <1>6 DEF ReadLock, AfterLock, TypeProcs
    <3> QED
      BY <1>6, <3>1 DEF ReadLock, AfterLock, TypeProcs
  <2>3. TypeHistory'
    BY <1>6 DEF ReadLock, AfterLock, TypeProcs, TypeHistory
  <2>4. MapInv'
    BY <1>6 DEF ReadLock, AfterLock, TypeMemory, TypeProcs, MapInv, Blocks
  <2>5. FreshInv'
    BY <1>6 DEF ReadLock, AfterLock, TypeMemory, TypeProcs, MapInv, FreshInv, HoldInv, Past, At, Indexes
  <2>6. HoldInv'
    BY <1>6 DEF ReadLock, AfterLock, TypeMemory, TypeProcs, MapInv, FreshInv, HoldInv, OneInv, Past, At
  <2>7. OneInv'
    <3> SUFFICES ASSUME NEW b \in Blocks, NEW j \in Indexes, NEW x \in Procs, NEW y \in Procs,
                        At(x, b, j, CopyPCs)', At(y, b, j, CopyPCs)'
                 PROVE  x = y
      BY DEF OneInv
    <3>1. \A z \in Procs : z # p => (At(z, b, j, CopyPCs)' <=> At(z, b, j, CopyPCs))
      BY <1>6 DEF ReadLock, AfterLock, TypeProcs, At
    <3>2. At(p, b, j, CopyPCs)' /\ ~ At(p, b, j, CopyPCs)
            => \A z \in Procs : ~ At(z, b, j, CopyPCs)
      BY <1>6 DEF ReadLock, AfterLock, TypeProcs, HoldInv, At
    <3> QED
      BY <3>1, <3>2 DEF OneInv
  <2> QED
    BY <2>1, <2>2, <2>3, <2>4, <2>5, <2>6, <2>7 DEF TypeOK
<1>7. ASSUME NEW p \in Procs, ReadCopy(p) PROVE TokenInv'
  <2>1. TypeMemory'
    <3>1. map[p] \in Blocks
      BY <1>7 DEF ReadCopy, MapInv
    <3>2. None \in Msgs \cup {None}
      OBVIOUS
    <3>3. data[map[p]][idx[p]] \in Buffers
      BY <3>1 DEF TypeMemory, TypeProcs
    <3>4. [data[map[p]][idx[p]] EXCEPT ![word[p]] = None] \in Buffers
      BY <3>2, <3>3 DEF Buffers
    <3>5. [data[map[p]] EXCEPT ![idx[p]] = [data[map[p]][idx[p]] EXCEPT ![word[p]] = None]] \in [Indexes -> Buffers]
      BY <3>1, <3>4 DEF TypeMemory
    <3>6. data' \in [Blocks -> [Indexes -> Buffers]]
      BY <1>7, <3>5 DEF ReadCopy, TypeMemory
    <3> QED
      BY <1>7, <3>1, <3>2, <3>3, <3>4, <3>5, <3>6 DEF ReadCopy, TypeMemory
  <2>2. TypeProcs'
    <3>1. pc' \in [Procs -> {"out", "check", "refused", "add", "sub", "unlink", "crashed"} \cup InPCs]
      BY <1>7 DEF ReadCopy, NextWord, TypeProcs
    <3>2. word' \in [Procs -> Words]
      BY <1>7 DEF ReadCopy, NextWord, TypeProcs, Words
    <3>3. map[p] \in Blocks
      BY <1>7 DEF ReadCopy, MapInv
    <3>4. data[map[p]][idx[p]] \in Buffers
      BY <3>3 DEF TypeMemory, TypeProcs
    <3>5. data[map[p]][idx[p]][word[p]] \in Msgs \cup {None}
      BY <3>4 DEF TypeProcs, Buffers
    <3>6. [buf[p] EXCEPT ![word[p]] = data[map[p]][idx[p]][word[p]]] \in Buffers
      BY <3>5 DEF TypeProcs, Buffers
    <3>7. buf' \in [Procs -> Buffers]
      BY <1>7, <3>6 DEF ReadCopy, TypeProcs
    <3> QED
      BY <1>7, <3>1, <3>2, <3>3, <3>4, <3>5, <3>6, <3>7 DEF ReadCopy, TypeProcs
  <2>3. TypeHistory'
    BY <1>7 DEF ReadCopy, NextWord, TypeProcs, TypeHistory
  <2>4. MapInv'
    BY <1>7 DEF ReadCopy, NextWord, TypeMemory, TypeProcs, MapInv, Blocks
  <2>5. FreshInv'
    BY <1>7 DEF ReadCopy, NextWord, TypeMemory, TypeProcs, MapInv, FreshInv, HoldInv, Past, At, Indexes
  <2>6. HoldInv'
    BY <1>7 DEF ReadCopy, NextWord, TypeMemory, TypeProcs, MapInv, FreshInv, HoldInv, OneInv, Past, At
  <2>7. OneInv'
    <3> SUFFICES ASSUME NEW b \in Blocks, NEW j \in Indexes, NEW x \in Procs, NEW y \in Procs,
                        At(x, b, j, CopyPCs)', At(y, b, j, CopyPCs)'
                 PROVE  x = y
      BY DEF OneInv
    <3>1. \A z \in Procs : z # p => (At(z, b, j, CopyPCs)' <=> At(z, b, j, CopyPCs))
      BY <1>7 DEF ReadCopy, NextWord, TypeProcs, At
    <3>2. At(p, b, j, CopyPCs)' /\ ~ At(p, b, j, CopyPCs)
            => \A z \in Procs : ~ At(z, b, j, CopyPCs)
      BY <1>7 DEF ReadCopy, NextWord, TypeProcs, HoldInv, At
    <3> QED
      BY <3>1, <3>2 DEF OneInv
  <2> QED
    BY <2>1, <2>2, <2>3, <2>4, <2>5, <2>6, <2>7 DEF TypeOK
<1>8. ASSUME NEW p \in Procs, ReadUnlock(p) PROVE TokenInv'
  <2>1. TypeMemory'
    BY <1>8 DEF ReadUnlock, TypeMemory, TypeProcs, MapInv, Buffers, Blocks
  <2>2. TypeProcs'
    BY <1>8 DEF ReadUnlock, TypeMemory, TypeProcs, TypeHistory, MapInv, Buffers, Words, Empty, Msgs, Blocks
  <2>3. TypeHistory'
    BY <1>8 DEF ReadUnlock, TypeProcs, TypeHistory
  <2>4. MapInv'
    BY <1>8 DEF ReadUnlock, TypeMemory, TypeProcs, MapInv, Blocks
  <2>5. FreshInv'
    BY <1>8 DEF ReadUnlock, TypeMemory, TypeProcs, MapInv, FreshInv, HoldInv, Past, At, Indexes
  <2>6. HoldInv'
    BY <1>8 DEF ReadUnlock, TypeMemory, TypeProcs, MapInv, FreshInv, HoldInv, OneInv, Past, At
  <2>7. OneInv'
    BY <1>8 DEF ReadUnlock, TypeMemory, TypeProcs, MapInv, HoldInv, OneInv, At
  <2> QED
    BY <2>1, <2>2, <2>3, <2>4, <2>5, <2>6, <2>7 DEF TypeOK
<1>9. ASSUME NEW p \in Procs, WriteLock(p) PROVE TokenInv'
  <2>1. TypeMemory'
    BY <1>9 DEF WriteLock, AfterLock, TypeMemory, TypeProcs, MapInv, Buffers, Blocks
  <2>2. TypeProcs'
    <3>1. pc' \in [Procs -> {"out", "check", "refused", "add", "sub", "unlink", "crashed"} \cup InPCs]
      BY <1>9 DEF WriteLock, AfterLock, TypeProcs
    <3> QED
      BY <1>9, <3>1 DEF WriteLock, AfterLock, TypeProcs
  <2>3. TypeHistory'
    BY <1>9 DEF WriteLock, AfterLock, TypeProcs, TypeHistory
  <2>4. MapInv'
    BY <1>9 DEF WriteLock, AfterLock, TypeMemory, TypeProcs, MapInv, Blocks
  <2>5. FreshInv'
    BY <1>9 DEF WriteLock, AfterLock, TypeMemory, TypeProcs, MapInv, FreshInv, HoldInv, Past, At, Indexes
  <2>6. HoldInv'
    BY <1>9 DEF WriteLock, AfterLock, TypeMemory, TypeProcs, MapInv, FreshInv, HoldInv, OneInv, Past, At
  <2>7. OneInv'
    <3> SUFFICES ASSUME NEW b \in Blocks, NEW j \in Indexes, NEW x \in Procs, NEW y \in Procs,
                        At(x, b, j, CopyPCs)', At(y, b, j, CopyPCs)'
                 PROVE  x = y
      BY DEF OneInv
    <3>1. \A z \in Procs : z # p => (At(z, b, j, CopyPCs)' <=> At(z, b, j, CopyPCs))
      BY <1>9 DEF WriteLock, AfterLock, TypeProcs, At
    <3>2. At(p, b, j, CopyPCs)' /\ ~ At(p, b, j, CopyPCs)
            => \A z \in Procs : ~ At(z, b, j, CopyPCs)
      BY <1>9 DEF WriteLock, AfterLock, TypeProcs, HoldInv, At
    <3> QED
      BY <3>1, <3>2 DEF OneInv
  <2> QED
    BY <2>1, <2>2, <2>3, <2>4, <2>5, <2>6, <2>7 DEF TypeOK
<1>10. ASSUME NEW p \in Procs, WriteCopy(p) PROVE TokenInv'
  <2>1. TypeMemory'
    <3>1. map[p] \in Blocks
      BY <1>10 DEF WriteCopy, MapInv
    <3>2. buf[p][word[p]] \in Msgs \cup {None}
      BY DEF TypeProcs, Buffers
    <3>3. data[map[p]][idx[p]] \in Buffers
      BY <3>1 DEF TypeMemory, TypeProcs
    <3>4. [data[map[p]][idx[p]] EXCEPT ![word[p]] = buf[p][word[p]]] \in Buffers
      BY <3>2, <3>3 DEF Buffers
    <3>5. [data[map[p]] EXCEPT ![idx[p]] = [data[map[p]][idx[p]] EXCEPT ![word[p]] = buf[p][word[p]]]] \in [Indexes -> Buffers]
      BY <3>1, <3>4 DEF TypeMemory
    <3>6. data' \in [Blocks -> [Indexes -> Buffers]]
      BY <1>10, <3>5 DEF WriteCopy, TypeMemory
    <3> QED
      BY <1>10, <3>1, <3>2, <3>3, <3>4, <3>5, <3>6 DEF WriteCopy, TypeMemory
  <2>2. TypeProcs'
    BY <1>10 DEF WriteCopy, NextWord, TypeMemory, TypeProcs, TypeHistory, MapInv, Buffers, Words, Empty, Msgs, Blocks
  <2>3. TypeHistory'
    BY <1>10 DEF WriteCopy, NextWord, TypeProcs, TypeHistory
  <2>4. MapInv'
    BY <1>10 DEF WriteCopy, NextWord, TypeMemory, TypeProcs, MapInv, Blocks
  <2>5. FreshInv'
    BY <1>10 DEF WriteCopy, NextWord, TypeMemory, TypeProcs, MapInv, FreshInv, HoldInv, Past, At, Indexes
  <2>6. HoldInv'
    BY <1>10 DEF WriteCopy, NextWord, TypeMemory, TypeProcs, MapInv, FreshInv, HoldInv, OneInv, Past, At
  <2>7. OneInv'
    <3> SUFFICES ASSUME NEW b \in Blocks, NEW j \in Indexes, NEW x \in Procs, NEW y \in Procs,
                        At(x, b, j, CopyPCs)', At(y, b, j, CopyPCs)'
                 PROVE  x = y
      BY DEF OneInv
    <3>1. \A z \in Procs : z # p => (At(z, b, j, CopyPCs)' <=> At(z, b, j, CopyPCs))
      BY <1>10 DEF WriteCopy, NextWord, TypeProcs, At
    <3>2. At(p, b, j, CopyPCs)' /\ ~ At(p, b, j, CopyPCs)
            => \A z \in Procs : ~ At(z, b, j, CopyPCs)
      BY <1>10 DEF WriteCopy, NextWord, TypeProcs, HoldInv, At
    <3> QED
      BY <3>1, <3>2 DEF OneInv
  <2> QED
    BY <2>1, <2>2, <2>3, <2>4, <2>5, <2>6, <2>7 DEF TypeOK
<1>11. ASSUME NEW p \in Procs, WriteUnlock(p) PROVE TokenInv'
  <2>1. TypeMemory'
    BY <1>11 DEF WriteUnlock, TypeMemory, TypeProcs, MapInv, Buffers, Blocks
  <2>2. TypeProcs'
    BY <1>11 DEF WriteUnlock, TypeMemory, TypeProcs, TypeHistory, MapInv, Buffers, Words, Empty, Msgs, Blocks
  <2>3. TypeHistory'
    BY <1>11 DEF WriteUnlock, TypeProcs, TypeHistory
  <2>4. MapInv'
    BY <1>11 DEF WriteUnlock, TypeMemory, TypeProcs, MapInv, Blocks
  <2>5. FreshInv'
    BY <1>11 DEF WriteUnlock, TypeMemory, TypeProcs, MapInv, FreshInv, HoldInv, Past, At, Indexes
  <2>6. HoldInv'
    BY <1>11 DEF WriteUnlock, TypeMemory, TypeProcs, MapInv, FreshInv, HoldInv, OneInv, Past, At
  <2>7. OneInv'
    BY <1>11 DEF WriteUnlock, TypeMemory, TypeProcs, MapInv, HoldInv, OneInv, At
  <2> QED
    BY <2>1, <2>2, <2>3, <2>4, <2>5, <2>6, <2>7 DEF TypeOK
<1>12. ASSUME NEW p \in Procs, Destroy(p) PROVE TokenInv'
  <2>1. TypeMemory'
    BY <1>12 DEF Destroy, TypeMemory, TypeProcs, MapInv, Buffers, Blocks
  <2>2. TypeProcs'
    BY <1>12 DEF Destroy, TypeMemory, TypeProcs, TypeHistory, MapInv, Buffers, Words, Empty, Msgs, Blocks
  <2>3. TypeHistory'
    BY <1>12 DEF Destroy, TypeProcs, TypeHistory
  <2>4. MapInv'
    BY <1>12 DEF Destroy, TypeMemory, TypeProcs, MapInv, Blocks
  <2>5. FreshInv'
    BY <1>12 DEF Destroy, TypeMemory, TypeProcs, MapInv, FreshInv, HoldInv, Past, At, Indexes
  <2>6. HoldInv'
    BY <1>12 DEF Destroy, TypeMemory, TypeProcs, MapInv, FreshInv, HoldInv, OneInv, Past, At
  <2>7. OneInv'
    BY <1>12 DEF Destroy, TypeMemory, TypeProcs, MapInv, HoldInv, OneInv, At
  <2> QED
    BY <2>1, <2>2, <2>3, <2>4, <2>5, <2>6, <2>7 DEF TypeOK
<1>13. ASSUME NEW p \in Procs, SubCount(p) PROVE TokenInv'
  <2>1. TypeMemory'
    <3>1. map[p] \in Blocks
      BY <1>13 DEF SubCount, MapInv
    <3>2. count[map[p]] - 1 \in Int
      BY <3>1 DEF TypeMemory
    <3>3. count' \in [Blocks -> Int]
      BY <1>13, <3>2 DEF SubCount, TypeMemory
    <3> QED
      BY <1>13, <3>1, <3>2, <3>3 DEF SubCount, TypeMemory
  <2>2. TypeProcs'
    BY <1>13 DEF SubCount, TypeMemory, TypeProcs, TypeHistory, MapInv, Buffers, Words, Empty, Msgs, Blocks
  <2>3. TypeHistory'
    BY <1>13 DEF SubCount, TypeProcs, TypeHistory
  <2>4. MapInv'
    BY <1>13 DEF SubCount, TypeMemory, TypeProcs, MapInv, Blocks
  <2>5. FreshInv'
    BY <1>13 DEF SubCount, TypeMemory, TypeProcs, MapInv, FreshInv, HoldInv, Past, At, Indexes
  <2>6. HoldInv'
    BY <1>13 DEF SubCount, TypeMemory, TypeProcs, MapInv, FreshInv, HoldInv, OneInv, Past, At
  <2>7. OneInv'
    BY <1>13 DEF SubCount, TypeMemory, TypeProcs, MapInv, HoldInv, OneInv, At
  <2> QED
    BY <2>1, <2>2, <2>3, <2>4, <2>5, <2>6, <2>7 DEF TypeOK
<1>14. ASSUME NEW p \in Procs, Unlink(p) PROVE TokenInv'
  <2>1. TypeMemory'
    BY <1>14 DEF Unlink, TypeMemory, TypeProcs, MapInv, Buffers, Blocks
  <2>2. TypeProcs'
    BY <1>14 DEF Unlink, TypeMemory, TypeProcs, TypeHistory, MapInv, Buffers, Words, Empty, Msgs, Blocks
  <2>3. TypeHistory'
    BY <1>14 DEF Unlink, TypeProcs, TypeHistory
  <2>4. MapInv'
    BY <1>14 DEF Unlink, TypeMemory, TypeProcs, MapInv, Blocks
  <2>5. FreshInv'
    BY <1>14 DEF Unlink, TypeMemory, TypeProcs, MapInv, FreshInv, HoldInv, Past, At, Indexes
  <2>6. HoldInv'
    BY <1>14 DEF Unlink, TypeMemory, TypeProcs, MapInv, FreshInv, HoldInv, OneInv, Past, At
  <2>7. OneInv'
    BY <1>14 DEF Unlink, TypeMemory, TypeProcs, MapInv, HoldInv, OneInv, At
  <2> QED
    BY <2>1, <2>2, <2>3, <2>4, <2>5, <2>6, <2>7 DEF TypeOK
<1>15. ASSUME NEW p \in Procs, NEW i \in 0 .. ProcCount, Read(p, i) PROVE TokenInv'
  <2>1. TypeMemory'
    BY <1>15 DEF Read, Call, TypeMemory, TypeProcs, MapInv, Buffers, Blocks
  <2>2. TypeProcs'
    <3>1. pc' \in [Procs -> {"out", "check", "refused", "add", "sub", "unlink", "crashed"} \cup InPCs]
      BY <1>15 DEF Read, Call, TypeProcs
    <3>2. idx' \in [Procs -> Indexes]
      BY <1>15 DEF Read, Call, TypeProcs
    <3>3. Empty \in Buffers
      BY <1>15 DEF Read, TypeHistory, Buffers, Empty, Msgs
    <3>4. buf' \in [Procs -> Buffers]
      BY <1>15, <3>3 DEF Read, TypeProcs
    <3> QED
      BY <1>15, <3>1, <3>2, <3>3, <3>4 DEF Read, TypeProcs
  <2>3. TypeHistory'
    BY <1>15 DEF Read, Call, TypeProcs, TypeHistory
  <2>4. MapInv'
    BY <1>15 DEF Read, Call, TypeMemory, TypeProcs, MapInv, Blocks
  <2>5. FreshInv'
    BY <1>15 DEF Read, Call, TypeMemory, TypeProcs, MapInv, FreshInv, HoldInv, Past, At, Indexes
  <2>6. HoldInv'
    BY <1>15 DEF Read, Call, TypeMemory, TypeProcs, MapInv, FreshInv, HoldInv, OneInv, Past, At
  <2>7. OneInv'
    <3> SUFFICES ASSUME NEW b \in Blocks, NEW j \in Indexes, NEW x \in Procs, NEW y \in Procs,
                        At(x, b, j, CopyPCs)', At(y, b, j, CopyPCs)'
                 PROVE  x = y
      BY DEF OneInv
    <3>1. \A z \in Procs : z # p => (At(z, b, j, CopyPCs)' <=> At(z, b, j, CopyPCs))
      BY <1>15 DEF Read, Call, TypeProcs, At
    <3>2. At(p, b, j, CopyPCs)' /\ ~ At(p, b, j, CopyPCs)
            => \A z \in Procs : ~ At(z, b, j, CopyPCs)
      BY <1>15 DEF Read, Call, TypeProcs, HoldInv, At
    <3> QED
      BY <3>1, <3>2 DEF OneInv
  <2> QED
    BY <2>1, <2>2, <2>3, <2>4, <2>5, <2>6, <2>7 DEF TypeOK
<1>16. ASSUME NEW p \in Procs, NEW i \in 0 .. ProcCount, Write(p, i) PROVE TokenInv'
  <2>1. TypeMemory'
    BY <1>16 DEF Write, Call, TypeMemory, TypeProcs, MapInv, Buffers, Blocks
  <2>2. TypeProcs'
    <3>1. pc' \in [Procs -> {"out", "check", "refused", "add", "sub", "unlink", "crashed"} \cup InPCs]
      BY <1>16 DEF Write, Call, TypeProcs
    <3>2. idx' \in [Procs -> Indexes]
      BY <1>16 DEF Write, Call, TypeProcs
    <3>3. [k \in Words |-> sent + 1] \in Buffers
      BY <1>16 DEF Write, TypeHistory, Buffers, Empty, Msgs
    <3>4. buf' \in [Procs -> Buffers]
      BY <1>16, <3>3 DEF Write, TypeProcs
    <3> QED
      BY <1>16, <3>1, <3>2, <3>3, <3>4 DEF Write, TypeProcs
  <2>3. TypeHistory'
    BY <1>16 DEF Write, Call, TypeProcs, TypeHistory
  <2>4. MapInv'
    BY <1>16 DEF Write, Call, TypeMemory, TypeProcs, MapInv, Blocks
  <2>5. FreshInv'
    BY <1>16 DEF Write, Call, TypeMemory, TypeProcs, MapInv, FreshInv, HoldInv, Past, At, Indexes
  <2>6. HoldInv'
    BY <1>16 DEF Write, Call, TypeMemory, TypeProcs, MapInv, FreshInv, HoldInv, OneInv, Past, At
  <2>7. OneInv'
    <3> SUFFICES ASSUME NEW b \in Blocks, NEW j \in Indexes, NEW x \in Procs, NEW y \in Procs,
                        At(x, b, j, CopyPCs)', At(y, b, j, CopyPCs)'
                 PROVE  x = y
      BY DEF OneInv
    <3>1. \A z \in Procs : z # p => (At(z, b, j, CopyPCs)' <=> At(z, b, j, CopyPCs))
      BY <1>16 DEF Write, Call, TypeProcs, At
    <3>2. At(p, b, j, CopyPCs)' /\ ~ At(p, b, j, CopyPCs)
            => \A z \in Procs : ~ At(z, b, j, CopyPCs)
      BY <1>16 DEF Write, Call, TypeProcs, HoldInv, At
    <3> QED
      BY <3>1, <3>2 DEF OneInv
  <2> QED
    BY <2>1, <2>2, <2>3, <2>4, <2>5, <2>6, <2>7 DEF TypeOK
<1>17. CASE UNCHANGED vars
  BY <1>17 DEF vars, TypeMemory, TypeProcs, TypeHistory, MapInv, FreshInv, HoldInv, OneInv, Past, At
<1> QED
  BY <1>1, <1>2, <1>3, <1>4, <1>5, <1>6, <1>7, <1>8, <1>9, <1>10, <1>11, <1>12, <1>13, <1>14, <1>15, <1>16, <1>17 DEF Next, Inside

\* So it holds in every reachable state.
LEMMA TokenAlways == Spec => []TokenInv
  BY TokenInit, TokenNext, PTL DEF Spec

\* Every reachable state is well typed: in particular no copy leaves the
\* segments and words that the block has.
THEOREM ShmTypeCorrect == Spec => []TypeOK
<1>1. TokenInv => TypeOK
  BY DEF TokenInv
<1> QED
  BY <1>1, TokenAlways, PTL

\* Readers and writers never copy at the same time in one segment, for any
\* number of processes and segments, late attachers and failed calls included.
THEOREM CopiesExclude == Spec => []OneCopier
<1>1. TokenInv => OneCopier
  BY DEF TokenInv, OneInv, OneCopier, CopyPCs
<1> QED
  BY <1>1, TokenAlways, PTL

-----------------------------------------------------------------------------
(* The messages.                                                           *)

\* A message: its two words.
Pair(m) == [k \in Words |-> m]
Sent    == 1 .. sent

\* The words of the segment that process p is at.
Here(p) == data[map[p]][idx[p]]

\* A message lies in a segment: it was written and waits for a reader.
Full(b, i) == rd[b][i] = UNLOCK /\ wr[b][i] = LOCK

\* A message is in the hands of a process: it is being written or read.
Carries(p) == pc[p] \in WritePCs \cup {"rdCopy", "rdUnlock"}
InHand(p)  == IF pc[p] = "rdCopy" THEN Here(p)[2] ELSE buf[p][1]

\* How far each copy is.
CopyInv == \A p \in Procs :
  /\ word[p] = 2 => pc[p] \in {"rdCopy", "wrCopy"}
  /\ pc[p] \in WritePCs \cup {"rdUnlock"} => buf[p][1] = buf[p][2]
  /\ pc[p] = "wrCopy" /\ word[p] = 2 => Here(p)[1] = buf[p][1]
  /\ pc[p] = "wrUnlock" => Here(p) = buf[p]
  /\ pc[p] = "rdCopy" => Here(p)[2] = (IF word[p] = 1 THEN Here(p) ELSE buf[p])[1]

\* Every message that is under way was sent, and is a whole one in its segment.
SentInv ==
  /\ \A p \in Procs : Carries(p) => InHand(p) \in Sent
  /\ \A b \in Blocks, i \in Indexes : Full(b, i) => \E m \in Sent : data[b][i] = Pair(m)
  /\ received \subseteq {Pair(m) : m \in Sent}

\* It is in one place only.
PlaceInv ==
  /\ \A p, r \in Procs : Carries(p) /\ Carries(r) /\ p # r => InHand(p) # InHand(r)
  /\ \A p \in Procs : Carries(p) => Pair(InHand(p)) \notin received
  /\ \A b \in Blocks, i \in Indexes : Full(b, i) =>
       /\ data[b][i] \notin received
       /\ \A p \in Procs : Carries(p) => data[b][i] # Pair(InHand(p))
       /\ \A d \in Blocks, j \in Indexes :
            Full(d, j) /\ <<b, i>> # <<d, j>> => data[b][i] # data[d][j]

MessageInv == CopyInv /\ SentInv /\ PlaceInv

\* Before the first message there is none in two places.
LEMMA MessageInit == Init => MessageInv
<1> SUFFICES ASSUME Init PROVE MessageInv
  OBVIOUS
<1>1. \A p \in Procs : pc[p] = "out" /\ word[p] = 1
  BY DEF Init
<1>2. \A b \in Blocks, i \in Indexes : ~ Full(b, i)
  BY DEF Init, Full, UNLOCK, LOCK
<1>3. received = {}
  BY DEF Init
<1> QED
  BY <1>1, <1>2, <1>3 DEF MessageInv, CopyInv, SentInv, PlaceInv, Carries, WritePCs

\* Two messages differ in their words.
LEMMA PairsDiffer ==
  ASSUME NEW m, NEW n, m # n
  PROVE  Pair(m) # Pair(n)
<1>1. Pair(m)[1] = m /\ Pair(n)[1] = n
  BY DEF Pair, Words
<1> QED BY <1>1

\* A buffer with one word twice is that message.
LEMMA PairOf ==
  ASSUME NEW v \in Buffers, v[1] = v[2]
  PROVE  v = Pair(v[1])
BY DEF Buffers, Words, Pair

\* Who copies has the segment for himself, and nothing waits in it.
LEMMA CopiesAlone ==
  ASSUME TokenInv, NEW p \in Procs, pc[p] \in CopyPCs
  PROVE  /\ map[p] \in Blocks /\ idx[p] \in Indexes /\ Here(p) \in Buffers
         /\ rd[map[p]][idx[p]] = LOCK /\ wr[map[p]][idx[p]] = LOCK
         /\ ~ Full(map[p], idx[p])
         /\ \A r \in Procs : pc[r] \in CopyPCs /\ r # p =>
              map[r] # map[p] \/ idx[r] # idx[p]
<1>1. map[p] \in Blocks /\ idx[p] \in Indexes
  BY DEF TokenInv, TypeOK, TypeProcs, MapInv, CopyPCs
<1>2. rd[map[p]][idx[p]] = LOCK /\ wr[map[p]][idx[p]] = LOCK
  BY <1>1 DEF TokenInv, HoldInv, At
<1>3. \A r \in Procs : pc[r] \in CopyPCs /\ r # p => map[r] # map[p] \/ idx[r] # idx[p]
  BY <1>1 DEF TokenInv, OneInv, At
<1>4. Here(p) \in Buffers
  BY <1>1 DEF TokenInv, TypeOK, TypeMemory, Here
<1> QED BY <1>1, <1>2, <1>3, <1>4 DEF Full, LOCK, UNLOCK

\* A step that neither copies nor hands a message on.
LEMMA QuietStep ==
  ASSUME MessageInv, UNCHANGED <<data, word, sent, received>>,
         \A r \in Procs : pc'[r] \in CopyPCs \cup WritePCs =>
           pc'[r] = pc[r] /\ map'[r] = map[r] /\ idx'[r] = idx[r] /\ buf'[r] = buf[r],
         \A r \in Procs : word[r] = 2 => pc'[r] = pc[r],
         \A b \in Blocks, i \in Indexes : Full(b, i)' => Full(b, i)
  PROVE  MessageInv'
<1> USE DEF MessageInv
<1>1. \A r \in Procs : pc'[r] \in CopyPCs \cup WritePCs =>
        Here(r)' = Here(r) /\ InHand(r)' = InHand(r) /\ (Carries(r)' => Carries(r))
  BY DEF Here, InHand, Carries
<1>2. \A r \in Procs : Carries(r)' => Carries(r) /\ InHand(r)' = InHand(r)
  BY <1>1 DEF Carries, CopyPCs, WritePCs
<1>3. CopyInv'
  BY <1>1 DEF CopyInv, CopyPCs, WritePCs
<1>4. SentInv'
  BY <1>2 DEF SentInv, Sent
<1>5. PlaceInv'
  BY <1>2 DEF PlaceInv
<1> QED BY <1>3, <1>4, <1>5

\* All the steps that leave the messages where they are, and those that lose one.
LEMMA QuietSteps ==
  ASSUME TokenInv, MessageInv, NEW p \in Procs,
         \/ Open(p) \/ CheckCount(p) \/ AddCount(p) \/ InitFutex(p) \/ Signal(p)
         \/ Destroy(p) \/ SubCount(p) \/ Unlink(p)
         \/ \E i \in 0 .. ProcCount : Read(p, i)
         \/ (ReadLock(p) \/ WriteLock(p)) /\ eintr[p]
  PROVE  MessageInv'
<1> USE DEF TokenInv, TypeOK, TypeProcs, locals, history, memory, Goto, Set, CopyPCs, WritePCs, Here
<1>0. word[p] = 2 => pc[p] \in {"rdCopy", "wrCopy"}
  BY DEF MessageInv, CopyInv
<1>1. CASE \/ Open(p) \/ CheckCount(p) \/ AddCount(p) \/ Destroy(p) \/ SubCount(p) \/ Unlink(p)
  <2>1. pc'[p] \in {"check", "refused", "add", "init", "sub", "unlink", "out"}
        /\ pc[p] \notin CopyPCs
    BY <1>1 DEF Open, CheckCount, AddCount, Destroy, SubCount, Unlink
  <2>2. \A r \in Procs : r # p => pc'[r] = pc[r] /\ map'[r] = map[r] /\ idx'[r] = idx[r] /\ buf'[r] = buf[r]
    BY <1>1 DEF Open, CheckCount, AddCount, Destroy, SubCount, Unlink
  <2>3. UNCHANGED <<data, word, sent, received, rd, wr>>
    BY <1>1 DEF Open, CheckCount, AddCount, Destroy, SubCount, Unlink
  <2> QED BY <1>0, <2>1, <2>2, <2>3, QuietStep DEF Full
<1>2. CASE InitFutex(p)
  <2>1. pc[p] = "init" /\ pc'[p] \in {"init", "in"} /\ map[p] \in Blocks /\ idx[p] \in Indexes
    BY <1>2 DEF InitFutex, MapInv
  <2>2. \A r \in Procs : r # p => pc'[r] = pc[r] /\ map'[r] = map[r] /\ idx'[r] = idx[r] /\ buf'[r] = buf[r]
    BY <1>2 DEF InitFutex
  <2>3. UNCHANGED <<data, word, sent, received, wr>> /\ rd' = [rd EXCEPT ![map[p]][idx[p]] = LOCK]
    BY <1>2 DEF InitFutex
  <2>4. \A b \in Blocks, i \in Indexes : Full(b, i)' => Full(b, i)
    BY <2>1, <2>3 DEF Full, TypeMemory, LOCK, UNLOCK
  <2> QED BY <1>0, <2>1, <2>2, <2>3, <2>4, QuietStep
<1>3. CASE Signal(p)
  BY <1>3, QuietStep DEF Signal, Full
<1>4. CASE \E i \in 0 .. ProcCount : Read(p, i)
  <2>1. pc[p] = "in" /\ pc'[p] \in {"rdLock", "crashed"}
    BY <1>4 DEF Read, Call
  <2>2. \A r \in Procs : r # p => pc'[r] = pc[r] /\ map'[r] = map[r] /\ idx'[r] = idx[r] /\ buf'[r] = buf[r]
    BY <1>4 DEF Read, Call
  <2>3. UNCHANGED <<data, word, sent, received, rd, wr>>
    BY <1>4 DEF Read
  <2> QED BY <1>0, <2>1, <2>2, <2>3, QuietStep DEF Full
<1>5. CASE (ReadLock(p) \/ WriteLock(p)) /\ eintr[p]
  <2>1. pc[p] \in {"rdLock", "wrLock"} /\ pc'[p] = "in" /\ map[p] \in Blocks /\ idx[p] \in Indexes
    BY <1>5 DEF ReadLock, WriteLock, AfterLock, MapInv
  <2>2. \A r \in Procs : r # p => pc'[r] = pc[r] /\ map'[r] = map[r] /\ idx'[r] = idx[r] /\ buf'[r] = buf[r]
    BY <1>5 DEF ReadLock, WriteLock, AfterLock
  <2>3. UNCHANGED <<data, word, sent, received>>
    BY <1>5 DEF ReadLock, WriteLock
  <2>4. \A b \in Blocks, i \in Indexes : Full(b, i)' => Full(b, i)
    <3>1. CASE ReadLock(p)
      BY <2>1, <3>1 DEF ReadLock, Full, TypeMemory, LOCK, UNLOCK
    <3>2. CASE WriteLock(p)
      <4>1. Past(p, map[p], idx[p])
        BY <2>1 DEF Past, ReadPCs
      <4>2. rd[map[p]][idx[p]] # UNLOCK
        BY <2>1, <3>2, <4>1 DEF FreshInv, WriteLock
      <4> QED BY <2>1, <3>2, <4>2 DEF WriteLock, Full, TypeMemory, LOCK, UNLOCK
    <3> QED BY <1>5, <3>1, <3>2
  <2> QED BY <1>0, <2>1, <2>2, <2>3, <2>4, QuietStep
<1> QED BY <1>1, <1>2, <1>3, <1>4, <1>5

\* A step of p is none of the others, whatever it does to its own segment.
Apart(p) ==
  \A r \in Procs \ {p} :
    /\ pc'[r] = pc[r] /\ map'[r] = map[r] /\ idx'[r] = idx[r]
    /\ buf'[r] = buf[r] /\ word'[r] = word[r]
    /\ pc[r] \in CopyPCs => Here(r)' = Here(r)

\* What CopyInv says of one process.
CopyOK(p) ==
  /\ word[p] = 2 => pc[p] \in {"rdCopy", "wrCopy"}
  /\ pc[p] \in WritePCs \cup {"rdUnlock"} => buf[p][1] = buf[p][2]
  /\ pc[p] = "wrCopy" /\ word[p] = 2 => Here(p)[1] = buf[p][1]
  /\ pc[p] = "wrUnlock" => Here(p) = buf[p]
  /\ pc[p] = "rdCopy" => Here(p)[2] = (IF word[p] = 1 THEN Here(p) ELSE buf[p])[1]

\* What a step leaves alone keeps its part of the invariant.
LEMMA ApartKeeps ==
  ASSUME MessageInv, NEW p \in Procs, Apart(p)
  PROVE  /\ CopyOK(p)' => CopyInv'
         /\ \A r \in Procs \ {p} : Carries(r)' = Carries(r) /\ (Carries(r) => InHand(r)' = InHand(r))
<1>1. ASSUME NEW r \in Procs \ {p}
      PROVE  CopyOK(r)' /\ Carries(r)' = Carries(r) /\ (Carries(r) => InHand(r)' = InHand(r))
  <2>1. CopyOK(r)
    BY DEF MessageInv, CopyInv, CopyOK
  <2>2. /\ pc'[r] = pc[r] /\ buf'[r] = buf[r] /\ word'[r] = word[r]
        /\ pc[r] \in CopyPCs => Here(r)' = Here(r)
    BY DEF Apart
  <2> QED BY <2>1, <2>2 DEF CopyOK, Carries, InHand, CopyPCs, WritePCs
<1>2. CopyOK(p)' => CopyInv'
  BY <1>1 DEF CopyOK, CopyInv
<1> QED BY <1>1, <1>2

\* A write is called: a message comes up that was in no place before.
LEMMA WriteStep ==
  ASSUME TokenInv, MessageInv, NEW p \in Procs, NEW i \in 0 .. ProcCount, Write(p, i)
  PROVE  MessageInv'
<1> USE DEF TokenInv, TypeOK, TypeProcs, TypeHistory, locals, history, memory, Goto, Set
<1> DEFINE n == sent + 1
<1>1. /\ pc[p] = "in" /\ pc'[p] \in {"wrLock", "crashed"} /\ buf' = [buf EXCEPT ![p] = Pair(n)]
      /\ sent' = n /\ UNCHANGED <<memory, map, word, received>>
  BY DEF Write, Call, Pair
<1>2. Apart(p)
  BY <1>1 DEF Apart, Here, Write, Call
<1>3. buf'[p] = Pair(n) /\ Pair(n)[1] = n /\ Pair(n)[2] = n
  BY <1>1 DEF Pair, Words
<1>4. word[p] # 2
  BY <1>1 DEF MessageInv, CopyInv
<1>5. CopyOK(p)'
  BY <1>1, <1>3, <1>4 DEF CopyOK
<1>6. /\ CopyInv'
      /\ \A r \in Procs \ {p} : Carries(r)' = Carries(r) /\ (Carries(r) => InHand(r)' = InHand(r))
  BY <1>2, <1>5, ApartKeeps
<1>7. InHand(p)' = n
  BY <1>1, <1>3 DEF InHand
<1>8. n \in Sent' /\ Sent \subseteq Sent' /\ n \notin Sent
  BY <1>1 DEF Sent
<1>9. \A b \in Blocks, j \in Indexes : Full(b, j)' = Full(b, j)
  BY <1>1 DEF Full
<1>10. data' = data /\ received' = received
  BY <1>1
<1> HIDE DEF n
<1>11. SentInv'
  BY <1>6, <1>7, <1>8, <1>9, <1>10 DEF MessageInv, SentInv
<1>12. PlaceInv'
  <2>1. \A q, r \in Procs : Carries(q)' /\ Carries(r)' /\ q # r => InHand(q)' # InHand(r)'
    BY <1>6, <1>7, <1>8 DEF MessageInv, PlaceInv, SentInv
  <2>2. \A q \in Procs : Carries(q)' => Pair(InHand(q)') \notin received'
    BY <1>6, <1>7, <1>8, <1>10, PairsDiffer DEF MessageInv, PlaceInv, SentInv
  <2>3. \A b \in Blocks, j \in Indexes : Full(b, j)' =>
          \A q \in Procs : Carries(q)' => data'[b][j] # Pair(InHand(q)')
    <3> SUFFICES ASSUME NEW b \in Blocks, NEW j \in Indexes, Full(b, j)', NEW q \in Procs, Carries(q)'
                 PROVE  data'[b][j] # Pair(InHand(q)')
      OBVIOUS
    <3>1. PICK m \in Sent : data[b][j] = Pair(m)
      BY <1>9 DEF MessageInv, SentInv
    <3>2. m # n
      BY <1>8
    <3>3. CASE q = p
      BY <1>7, <1>10, <3>1, <3>2, <3>3, PairsDiffer
    <3>4. CASE q # p
      BY <1>6, <1>9, <1>10, <3>4 DEF MessageInv, PlaceInv
    <3> QED BY <3>3, <3>4
  <2>4. \A b \in Blocks, j \in Indexes : Full(b, j)' =>
          /\ data'[b][j] \notin received'
          /\ \A d \in Blocks, k \in Indexes :
               Full(d, k)' /\ <<b, j>> # <<d, k>> => data'[b][j] # data'[d][k]
    BY <1>9, <1>10 DEF MessageInv, PlaceInv
  <2> QED BY <2>1, <2>2, <2>3, <2>4 DEF PlaceInv
<1> QED BY <1>6, <1>11, <1>12 DEF MessageInv

\* The message goes from the segment into the hands of its reader.
LEMMA ReadLockStep ==
  ASSUME TokenInv, MessageInv, NEW p \in Procs, ReadLock(p), ~ eintr[p]
  PROVE  MessageInv'
<1> USE DEF TokenInv, TypeOK, TypeProcs, locals, Goto
<1>1. /\ pc[p] = "rdLock" /\ pc' = [pc EXCEPT ![p] = "rdCopy"]
      /\ rd[map[p]][idx[p]] = UNLOCK /\ rd' = [rd EXCEPT ![map[p]][idx[p]] = LOCK]
      /\ UNCHANGED <<wr, data, map, idx, buf, word, sent, received>>
  BY DEF ReadLock, AfterLock
<1>2. PICK b \in Blocks, i \in Indexes : b = map[p] /\ i = idx[p]
  BY <1>1 DEF MapInv
<1>3. Full(b, i)
  <2>1. Past(p, b, i)
    BY <1>1, <1>2 DEF Past, ReadPCs
  <2> QED BY <1>1, <1>2, <2>1 DEF FreshInv, Full, TypeMemory
<1>4. PICK m \in Sent : data[b][i] = Pair(m)
  BY <1>3 DEF MessageInv, SentInv
<1>5. Here(p)' = Pair(m) /\ Pair(m)[1] = m /\ Pair(m)[2] = m /\ pc'[p] = "rdCopy"
  BY <1>1, <1>2, <1>4 DEF Here, Pair, Words
<1>6. word'[p] = 1
  BY <1>1 DEF MessageInv, CopyInv, Words
<1>7. CopyOK(p)' /\ InHand(p)' = m /\ Carries(p)'
  BY <1>1, <1>5, <1>6 DEF CopyOK, InHand, Carries, WritePCs
<1>8. Apart(p)
  BY <1>1 DEF Apart, Here
<1>9. /\ CopyInv'
      /\ \A r \in Procs \ {p} : Carries(r)' = Carries(r) /\ (Carries(r) => InHand(r)' = InHand(r))
  BY <1>7, <1>8, ApartKeeps
<1>10. \A d \in Blocks, j \in Indexes : Full(d, j)' => Full(d, j) /\ <<d, j>> # <<b, i>>
  BY <1>1, <1>2 DEF Full, TypeMemory, LOCK, UNLOCK
<1>11. UNCHANGED <<data, sent, received>> /\ Sent' = Sent
  BY <1>1 DEF Sent
<1>12. SentInv'
  BY <1>7, <1>9, <1>10, <1>11 DEF MessageInv, SentInv
<1>13. PlaceInv'
  <2>1. \A r \in Procs \ {p} : Carries(r) => InHand(r) # m
    BY <1>3, <1>4 DEF MessageInv, PlaceInv
  <2>2. \A q, r \in Procs : Carries(q)' /\ Carries(r)' /\ q # r => InHand(q)' # InHand(r)'
    BY <1>7, <1>9, <2>1 DEF MessageInv, PlaceInv
  <2>3. \A q \in Procs : Carries(q)' => Pair(InHand(q)') \notin received'
    BY <1>3, <1>4, <1>7, <1>9, <1>11 DEF MessageInv, PlaceInv
  <2>4. \A d \in Blocks, j \in Indexes : Full(d, j)' =>
          \A q \in Procs : Carries(q)' => data'[d][j] # Pair(InHand(q)')
    BY <1>3, <1>4, <1>7, <1>9, <1>10, <1>11 DEF MessageInv, PlaceInv
  <2>5. \A d \in Blocks, j \in Indexes : Full(d, j)' =>
          /\ data'[d][j] \notin received'
          /\ \A e \in Blocks, k \in Indexes :
               Full(e, k)' /\ <<d, j>> # <<e, k>> => data'[d][j] # data'[e][k]
    BY <1>10, <1>11 DEF MessageInv, PlaceInv
  <2> QED BY <2>2, <2>3, <2>4, <2>5 DEF PlaceInv
<1> QED BY <1>9, <1>12, <1>13 DEF MessageInv

\* A step in which p keeps its message.
LEMMA KeepsStep ==
  ASSUME MessageInv, NEW p \in Procs, Apart(p), CopyOK(p)',
         Carries(p), Carries(p)', InHand(p)' = InHand(p), UNCHANGED <<sent, received>>,
         \A b \in Blocks, i \in Indexes : Full(b, i)' => Full(b, i) /\ data'[b][i] = data[b][i]
  PROVE  MessageInv'
<1>1. /\ CopyInv'
      /\ \A r \in Procs \ {p} : Carries(r)' = Carries(r) /\ (Carries(r) => InHand(r)' = InHand(r))
  BY ApartKeeps
<1>0. \A r \in Procs : Carries(r)' => Carries(r) /\ InHand(r)' = InHand(r)
  BY <1>1
<1>2. Sent' = Sent
  BY DEF Sent
<1>3. SentInv'
  BY <1>0, <1>2 DEF MessageInv, SentInv
<1>4. PlaceInv'
  BY <1>0 DEF MessageInv, PlaceInv
<1> QED BY <1>1, <1>3, <1>4 DEF MessageInv

\* The writer has the segment; the message stays in its hands.
LEMMA WriteLockStep ==
  ASSUME TokenInv, MessageInv, NEW p \in Procs, WriteLock(p), ~ eintr[p]
  PROVE  MessageInv'
<1> USE DEF TokenInv, TypeOK, TypeProcs, locals, Goto
<1>1. /\ pc[p] = "wrLock" /\ pc' = [pc EXCEPT ![p] = "wrCopy"]
      /\ wr[map[p]][idx[p]] = UNLOCK /\ wr' = [wr EXCEPT ![map[p]][idx[p]] = LOCK]
      /\ UNCHANGED <<rd, data, map, idx, buf, word, sent, received>>
  BY DEF WriteLock, AfterLock
<1>2. PICK b \in Blocks, i \in Indexes : b = map[p] /\ i = idx[p]
  BY <1>1 DEF MapInv
<1>3. rd[b][i] = LOCK
  <2>1. Past(p, b, i)
    BY <1>1, <1>2 DEF Past, WritePCs
  <2> QED BY <1>1, <1>2, <2>1 DEF FreshInv, TypeMemory
<1>4. \A d \in Blocks, j \in Indexes : Full(d, j)' => Full(d, j)
  BY <1>1, <1>2, <1>3 DEF Full, TypeMemory, LOCK, UNLOCK
<1>5. pc'[p] = "wrCopy" /\ word'[p] # 2
  BY <1>1 DEF MessageInv, CopyInv
<1>6. Apart(p)
  BY <1>1 DEF Apart, Here
<1>7. CopyOK(p)'
  BY <1>1, <1>5 DEF CopyOK, MessageInv, CopyInv, WritePCs
<1>8. Carries(p) /\ Carries(p)' /\ InHand(p)' = InHand(p)
  BY <1>1, <1>5 DEF Carries, InHand, WritePCs
<1> QED BY <1>1, <1>4, <1>6, <1>7, <1>8, KeepsStep

\* One word changes in the segment of who copies: the others see nothing of it.
LEMMA CopyIsApart ==
  ASSUME TokenInv, NEW p \in Procs, pc[p] \in CopyPCs, NEW v,
         data' = [data EXCEPT ![map[p]][idx[p]] = v], UNCHANGED <<rd, wr, map, idx>>,
         \A r \in Procs \ {p} : pc'[r] = pc[r] /\ buf'[r] = buf[r] /\ word'[r] = word[r]
  PROVE  /\ Apart(p) /\ Here(p)' = v
         /\ \A b \in Blocks, i \in Indexes :
              Full(b, i)' => Full(b, i) /\ data'[b][i] = data[b][i]
<1> USE DEF TokenInv, TypeOK, TypeMemory, TypeProcs
<1>1. /\ map[p] \in Blocks /\ idx[p] \in Indexes /\ ~ Full(map[p], idx[p])
      /\ \A r \in Procs : pc[r] \in CopyPCs /\ r # p => map[r] # map[p] \/ idx[r] # idx[p]
  BY CopiesAlone
<1>2. /\ \A b \in Blocks, i \in Indexes : b # map[p] \/ i # idx[p] => data'[b][i] = data[b][i]
      /\ data'[map[p]][idx[p]] = v
  BY <1>1
<1>3. \A r \in Procs \ {p} : pc[r] \in CopyPCs => Here(r)' = Here(r)
  <2> SUFFICES ASSUME NEW r \in Procs \ {p}, pc[r] \in CopyPCs PROVE Here(r)' = Here(r)
    OBVIOUS
  <2>1. map[r] \in Blocks /\ idx[r] \in Indexes /\ (map[r] # map[p] \/ idx[r] # idx[p])
    BY <1>1, CopiesAlone
  <2> QED BY <1>2, <2>1 DEF Here
<1>4. Apart(p)
  BY <1>3 DEF Apart
<1>5. \A b \in Blocks, i \in Indexes : Full(b, i)' => Full(b, i) /\ data'[b][i] = data[b][i]
  BY <1>1, <1>2 DEF Full
<1> QED BY <1>2, <1>4, <1>5 DEF Here

\* One word of it is copied into the segment.
LEMMA WriteCopyStep ==
  ASSUME TokenInv, MessageInv, NEW p \in Procs, WriteCopy(p)
  PROVE  MessageInv'
<1> USE DEF TokenInv, TypeOK, TypeProcs
<1> DEFINE v == [Here(p) EXCEPT ![word[p]] = buf[p][word[p]]]
<1>1. /\ pc[p] = "wrCopy" /\ word[p] \in {1, 2}
      /\ UNCHANGED <<rd, wr, map, idx, buf, sent, received>>
  BY DEF WriteCopy, history, Words
<1>2. /\ pc' = [pc EXCEPT ![p] = IF word[p] = 1 THEN "wrCopy" ELSE "wrUnlock"]
      /\ word' = [word EXCEPT ![p] = IF word[p] = 1 THEN 2 ELSE 1]
  BY <1>1 DEF WriteCopy, NextWord, Goto, Set
<1>3. Here(p) \in Buffers
  BY <1>1, CopiesAlone DEF CopyPCs
<1>4. data' = [data EXCEPT ![map[p]][idx[p]] = v]
  <2>1. map[p] \in Blocks /\ idx[p] \in Indexes
    BY <1>1, CopiesAlone DEF CopyPCs
  <2> QED BY <2>1 DEF WriteCopy, TypeMemory, Here
<1>5. /\ v[1] = (IF word[p] = 1 THEN buf[p] ELSE Here(p))[1]
      /\ v[2] = (IF word[p] = 2 THEN buf[p] ELSE Here(p))[2]
      /\ v \in [Words -> Msgs \cup {None}]
  BY <1>1, <1>3 DEF Buffers, Words
<1> HIDE DEF v
<1>6. /\ Apart(p) /\ Here(p)' = v
      /\ \A b \in Blocks, i \in Indexes : Full(b, i)' => Full(b, i) /\ data'[b][i] = data[b][i]
  BY <1>1, <1>2, <1>4, CopyIsApart DEF CopyPCs
<1>7. buf[p][1] = buf[p][2] /\ (word[p] = 2 => Here(p)[1] = buf[p][1])
  BY <1>1 DEF MessageInv, CopyInv, WritePCs
<1>8. CopyOK(p)'
  <2>1. CASE word[p] = 1
    <3>1. pc'[p] = "wrCopy" /\ word'[p] = 2 /\ v[1] = buf[p][1]
      BY <1>1, <1>2, <1>5, <2>1
    <3> QED BY <1>1, <1>6, <1>7, <3>1 DEF CopyOK
  <2>2. CASE word[p] = 2
    <3>1. pc'[p] = "wrUnlock" /\ word'[p] = 1 /\ v[1] = buf[p][1] /\ v[2] = buf[p][2]
      BY <1>1, <1>2, <1>5, <1>7, <2>2
    <3>2. v = buf[p]
      BY <1>5, <3>1 DEF Buffers, Words
    <3> QED BY <1>1, <1>6, <1>7, <3>1, <3>2 DEF CopyOK
  <2> QED BY <1>1, <2>1, <2>2
<1>9. Carries(p) /\ Carries(p)' /\ InHand(p)' = InHand(p)
  BY <1>1, <1>2 DEF Carries, InHand, WritePCs
<1> QED BY <1>1, <1>6, <1>8, <1>9, KeepsStep

\* One word of it is copied out of the segment.
LEMMA ReadCopyStep ==
  ASSUME TokenInv, MessageInv, NEW p \in Procs, ReadCopy(p)
  PROVE  MessageInv'
<1> USE DEF TokenInv, TypeOK, TypeProcs
<1> DEFINE v == [Here(p) EXCEPT ![word[p]] = None]
<1>1. /\ pc[p] = "rdCopy" /\ word[p] \in {1, 2}
      /\ UNCHANGED <<rd, wr, map, idx, sent, received>>
      /\ buf' = [buf EXCEPT ![p][word[p]] = Here(p)[word[p]]]
  BY DEF ReadCopy, history, Words, Here
<1>2. /\ pc' = [pc EXCEPT ![p] = IF word[p] = 1 THEN "rdCopy" ELSE "rdUnlock"]
      /\ word' = [word EXCEPT ![p] = IF word[p] = 1 THEN 2 ELSE 1]
  BY <1>1 DEF ReadCopy, NextWord, Goto, Set
<1>3. Here(p) \in Buffers
  BY <1>1, CopiesAlone DEF CopyPCs
<1>4. data' = [data EXCEPT ![map[p]][idx[p]] = v]
  <2>1. map[p] \in Blocks /\ idx[p] \in Indexes
    BY <1>1, CopiesAlone DEF CopyPCs
  <2> QED BY <2>1 DEF ReadCopy, TypeMemory, Here
<1>5. word[p] = 1 => v[2] = Here(p)[2]
  BY <1>1, <1>3 DEF Buffers, Words
<1> HIDE DEF v
<1>6. /\ Apart(p) /\ Here(p)' = v
      /\ \A b \in Blocks, i \in Indexes : Full(b, i)' => Full(b, i) /\ data'[b][i] = data[b][i]
  BY <1>1, <1>2, <1>4, CopyIsApart DEF CopyPCs
<1>7. Here(p)[2] = (IF word[p] = 1 THEN Here(p) ELSE buf[p])[1]
  BY <1>1 DEF MessageInv, CopyInv
<1>8. CopyOK(p)' /\ InHand(p)' = Here(p)[2] /\ Carries(p)'
  <2>1. CASE word[p] = 1
    <3>1. pc'[p] = "rdCopy" /\ word'[p] = 2 /\ buf'[p][1] = Here(p)[1]
      BY <1>1, <1>2, <2>1 DEF Buffers, Words
    <3>2. Here(p)'[2] = Here(p)[2] /\ Here(p)[2] = Here(p)[1]
      BY <1>5, <1>6, <1>7, <2>1
    <3> QED BY <3>1, <3>2 DEF CopyOK, InHand, Carries, WritePCs
  <2>2. CASE word[p] = 2
    <3>1. pc'[p] = "rdUnlock" /\ word'[p] = 1 /\ buf'[p][2] = Here(p)[2] /\ buf'[p][1] = buf[p][1]
      BY <1>1, <1>2, <2>2 DEF Buffers, Words
    <3> QED BY <1>7, <2>2, <3>1 DEF CopyOK, InHand, Carries, WritePCs
  <2> QED BY <1>1, <2>1, <2>2
<1>9. Carries(p) /\ InHand(p) = Here(p)[2]
  BY <1>1 DEF Carries, InHand
<1>10. InHand(p)' = InHand(p)
  BY <1>8, <1>9
<1> QED BY <1>1, <1>6, <1>8, <1>9, <1>10, KeepsStep

\* The message goes from the hands of its writer into the segment.
LEMMA WriteUnlockStep ==
  ASSUME TokenInv, MessageInv, NEW p \in Procs, WriteUnlock(p)
  PROVE  MessageInv'
<1> USE DEF TokenInv, TypeOK, TypeProcs
<1>1. /\ pc[p] = "wrUnlock" /\ pc' = [pc EXCEPT ![p] = "in"]
      /\ rd' = [rd EXCEPT ![map[p]][idx[p]] = UNLOCK]
      /\ UNCHANGED <<wr, data, map, idx, buf, word, sent, received>>
  BY DEF WriteUnlock, locals, history, Goto
<1>2. PICK b \in Blocks, i \in Indexes : b = map[p] /\ i = idx[p]
  BY <1>1 DEF MapInv
<1>3. PICK m : m = InHand(p)
  OBVIOUS
<1>4. buf[p] = Pair(m) /\ m \in Sent /\ Carries(p)
  <2>1. buf[p][1] = m /\ buf[p][1] = buf[p][2] /\ Carries(p)
    BY <1>1, <1>3 DEF MessageInv, CopyInv, InHand, Carries, WritePCs
  <2> QED BY <1>3, <2>1, PairOf DEF MessageInv, SentInv
<1>5. data[b][i] = Pair(m)
  BY <1>1, <1>2, <1>4 DEF MessageInv, CopyInv, Here
<1>6. word[p] # 2
  BY <1>1 DEF MessageInv, CopyInv
<1>7. pc'[p] = "in" /\ ~ Carries(p)'
  BY <1>1 DEF Carries, WritePCs
<1>8. Apart(p) /\ CopyOK(p)'
  BY <1>1, <1>6, <1>7 DEF Apart, Here, CopyOK, WritePCs
<1>9. /\ CopyInv'
      /\ \A r \in Procs \ {p} : Carries(r)' = Carries(r) /\ (Carries(r) => InHand(r)' = InHand(r))
  BY <1>8, ApartKeeps
<1>10. \A d \in Blocks, j \in Indexes : <<d, j>> # <<b, i>> => Full(d, j)' = Full(d, j)
  BY <1>1, <1>2 DEF Full, TypeMemory
<1>11. UNCHANGED <<data, sent, received>> /\ Sent' = Sent
  BY <1>1 DEF Sent
<1>12. SentInv'
  BY <1>4, <1>5, <1>7, <1>9, <1>10, <1>11 DEF MessageInv, SentInv
<1>13. PlaceInv'
  <2>1. \A q \in Procs : Carries(q)' => q # p /\ Carries(q) /\ InHand(q)' = InHand(q)
    BY <1>7, <1>9
  <2>2. /\ \A q, r \in Procs : Carries(q)' /\ Carries(r)' /\ q # r => InHand(q)' # InHand(r)'
        /\ \A q \in Procs : Carries(q)' => Pair(InHand(q)') \notin received'
    BY <1>11, <2>1 DEF MessageInv, PlaceInv
  <2>3. /\ Pair(m) \notin received
        /\ \A q \in Procs : Carries(q)' => Pair(m) # Pair(InHand(q)')
    BY <1>3, <1>4, <2>1, PairsDiffer DEF MessageInv, PlaceInv
  <2>4. \A d \in Blocks, j \in Indexes : Full(d, j) => data[d][j] # Pair(m)
    BY <1>3, <1>4 DEF MessageInv, PlaceInv
  <2>5. \A d \in Blocks, j \in Indexes : Full(d, j)' =>
          /\ data'[d][j] \notin received'
          /\ \A q \in Procs : Carries(q)' => data'[d][j] # Pair(InHand(q)')
    BY <1>5, <1>10, <1>11, <2>1, <2>3 DEF MessageInv, PlaceInv
  <2>6. \A d \in Blocks, j \in Indexes, e \in Blocks, k \in Indexes :
          Full(d, j)' /\ Full(e, k)' /\ <<d, j>> # <<e, k>> => data'[d][j] # data'[e][k]
    BY <1>5, <1>10, <1>11, <2>4 DEF MessageInv, PlaceInv
  <2> QED BY <2>2, <2>5, <2>6 DEF PlaceInv
<1> QED BY <1>9, <1>12, <1>13 DEF MessageInv

\* The message has been read.
LEMMA ReadUnlockStep ==
  ASSUME TokenInv, MessageInv, NEW p \in Procs, ReadUnlock(p)
  PROVE  MessageInv' /\ buf[p][1] = buf[p][2] /\ buf[p][1] # None /\ buf[p] \notin received
<1> USE DEF TokenInv, TypeOK, TypeProcs
<1>1. /\ pc[p] = "rdUnlock" /\ pc' = [pc EXCEPT ![p] = "in"]
      /\ wr' = [wr EXCEPT ![map[p]][idx[p]] = UNLOCK] /\ received' = received \cup {buf[p]}
      /\ UNCHANGED <<rd, data, map, idx, buf, word, sent>>
  BY DEF ReadUnlock, locals, Goto
<1>2. PICK m : m = InHand(p)
  OBVIOUS
<1>3. /\ buf[p] = Pair(m) /\ m \in Sent /\ Carries(p) /\ buf[p][1] = m /\ buf[p][1] = buf[p][2]
  <2>1. buf[p][1] = m /\ buf[p][1] = buf[p][2] /\ Carries(p)
    BY <1>1, <1>2 DEF MessageInv, CopyInv, InHand, Carries
  <2> QED BY <1>2, <2>1, PairOf DEF MessageInv, SentInv
<1>4. /\ Pair(m) \notin received
      /\ \A q \in Procs : Carries(q) /\ q # p => InHand(q) # m
      /\ \A d \in Blocks, j \in Indexes : Full(d, j) => data[d][j] # Pair(m)
  <2>1. PlaceInv /\ Carries(p)
    BY <1>3 DEF MessageInv
  <2> QED BY ONLY <2>1, <1>2, p \in Procs DEF PlaceInv
<1>15. m # None
  BY <1>3 DEF Sent, None
<1>5. rd[map[p]][idx[p]] = LOCK /\ map[p] \in Blocks /\ idx[p] \in Indexes
  BY <1>1, CopiesAlone DEF CopyPCs
<1>6. \A d \in Blocks, j \in Indexes : Full(d, j)' => Full(d, j)
  BY <1>1, <1>5 DEF Full, TypeMemory, LOCK, UNLOCK
<1>7. word[p] # 2
  BY <1>1 DEF MessageInv, CopyInv
<1>8. pc'[p] = "in" /\ ~ Carries(p)'
  BY <1>1 DEF Carries, WritePCs
<1>9. Apart(p) /\ CopyOK(p)'
  BY <1>1, <1>7, <1>8 DEF Apart, Here, CopyOK, WritePCs
<1>10. /\ CopyInv'
       /\ \A r \in Procs \ {p} : Carries(r)' = Carries(r) /\ (Carries(r) => InHand(r)' = InHand(r))
  BY <1>9, ApartKeeps
<1>11. UNCHANGED <<data, sent>> /\ Sent' = Sent /\ received' = received \cup {Pair(m)}
  BY <1>1, <1>3 DEF Sent
<1>12. \A q \in Procs : Carries(q)' => q # p /\ Carries(q) /\ InHand(q)' = InHand(q)
  BY <1>8, <1>10
<1>13. SentInv'
  BY <1>3, <1>6, <1>11, <1>12 DEF MessageInv, SentInv
<1>14. PlaceInv'
  <2>1. \A q \in Procs : Carries(q)' => Pair(InHand(q)') # Pair(m)
    BY <1>4, <1>12, PairsDiffer
  <2>2. \A d \in Blocks, j \in Indexes : Full(d, j) => data[d][j] # Pair(m)
    BY <1>4
  <2>3. /\ \A q, r \in Procs : Carries(q)' /\ Carries(r)' /\ q # r => InHand(q)' # InHand(r)'
        /\ \A q \in Procs : Carries(q)' => Pair(InHand(q)') \notin received'
    BY <1>11, <1>12, <2>1 DEF MessageInv, PlaceInv
  <2>4. \A d \in Blocks, j \in Indexes : Full(d, j)' =>
          /\ data'[d][j] \notin received'
          /\ \A q \in Procs : Carries(q)' => data'[d][j] # Pair(InHand(q)')
          /\ \A e \in Blocks, k \in Indexes :
               Full(e, k)' /\ <<d, j>> # <<e, k>> => data'[d][j] # data'[e][k]
    BY <1>6, <1>11, <1>12, <2>2 DEF MessageInv, PlaceInv
  <2> QED BY <2>3, <2>4 DEF PlaceInv
<1> QED BY <1>3, <1>4, <1>10, <1>13, <1>14, <1>15 DEF MessageInv

\* Every step of the specification.
LEMMA MessageStep ==
  ASSUME TokenInv, MessageInv, Next
  PROVE  MessageInv'
<1>1. PICK p \in Procs : \/ Open(p) \/ Destroy(p) \/ Signal(p) \/ Inside(p)
                         \/ \E i \in 0 .. ProcCount : Read(p, i) \/ Write(p, i)
  BY DEF Next
<1>2. CASE \/ Open(p) \/ CheckCount(p) \/ AddCount(p) \/ InitFutex(p) \/ Signal(p)
           \/ Destroy(p) \/ SubCount(p) \/ Unlink(p)
           \/ \E i \in 0 .. ProcCount : Read(p, i)
  BY <1>2, QuietSteps
<1>3. CASE ReadLock(p)
  BY <1>3, QuietSteps, ReadLockStep
<1>4. CASE WriteLock(p)
  BY <1>4, QuietSteps, WriteLockStep
<1>5. CASE ReadCopy(p) \/ WriteCopy(p) \/ ReadUnlock(p) \/ WriteUnlock(p)
  BY <1>5, ReadCopyStep, WriteCopyStep, ReadUnlockStep, WriteUnlockStep
<1>6. CASE \E i \in 0 .. ProcCount : Write(p, i)
  BY <1>6, WriteStep
<1> QED BY <1>1, <1>2, <1>3, <1>4, <1>5, <1>6 DEF Inside

\* So in every behaviour.
LEMMA MessageAlways == Spec => [](TokenInv /\ MessageInv)
<1>1. TokenInv /\ MessageInv /\ [Next]_vars => MessageInv'
  <2> SUFFICES ASSUME TokenInv, MessageInv, [Next]_vars PROVE MessageInv'
    OBVIOUS
  <2>1. CASE UNCHANGED vars
    <3>1. UNCHANGED <<rd, wr, data, pc, map, idx, buf, word, sent, received>>
      BY <2>1 DEF vars, memory, locals, history
    <3> QED BY <3>1, QuietStep DEF Full
  <2> QED BY <2>1, MessageStep
<1> QED BY <1>1, MessageInit, TokenAlways, PTL DEF Spec

\* A read that returns 0 returns one whole message that was written and that no
\* other read has returned, for any number of processes, segments, blocks and
\* messages, whoever attaches, detaches or is interrupted meanwhile.
THEOREM ReadsAreWholeAndOnce == Spec => WholeAndOnce
<1> DEFINE Returned == \A p \in Procs : pc[p] = "rdUnlock" /\ pc'[p] = "in" =>
                         /\ buf[p][1] = buf[p][2] /\ buf[p][1] # None
                         /\ buf[p] \notin received
<1>1. ASSUME TokenInv, MessageInv, Next PROVE Returned
  <2> SUFFICES ASSUME NEW p \in Procs, pc[p] = "rdUnlock", pc'[p] = "in"
               PROVE  buf[p][1] = buf[p][2] /\ buf[p][1] # None /\ buf[p] \notin received
    OBVIOUS
  <2>1. PICK r \in Procs : \/ Open(r) \/ Destroy(r) \/ Signal(r) \/ Inside(r)
                           \/ \E i \in 0 .. ProcCount : Read(r, i) \/ Write(r, i)
    BY <1>1 DEF Next
  <2>2. pc \in [Procs -> {"out", "check", "refused", "add", "sub", "unlink", "crashed"} \cup InPCs]
    BY <1>1 DEF TokenInv, TypeOK, TypeProcs
  <2>3. r = p
    BY <2>1, <2>2 DEF Open, Destroy, Signal, Inside, CheckCount, AddCount, InitFutex, ReadLock,
          AfterLock, ReadCopy, ReadUnlock, WriteLock, WriteCopy, NextWord, WriteUnlock, SubCount,
          Unlink, Read, Write, Call, Goto
  <2>4. ReadUnlock(p)
    BY <2>1, <2>3 DEF Open, Destroy, Signal, Inside, CheckCount, AddCount, InitFutex, ReadLock,
          ReadCopy, WriteLock, WriteCopy, WriteUnlock, SubCount, Unlink, Read, Write, Call
  <2> QED BY <1>1, <2>4, ReadUnlockStep
<1>2. UNCHANGED vars => [Returned]_vars
  OBVIOUS
<1> HIDE DEF Returned
<1>3. TokenInv /\ MessageInv /\ [Next]_vars => [Returned]_vars
  BY <1>1
<1>4. Spec => [][Returned]_vars
  BY <1>3, MessageAlways, PTL DEF Spec
<1> QED BY <1>4 DEF Returned, WholeAndOnce

\* A step keeps both futexes from being locked with nobody copying: who locks the
\* second one copies, and who copied has unlocked one.
LEMMA StuckStep ==
  ASSUME TokenInv, NeverStuck, Next
  PROVE  NeverStuck'
<1>1. PICK p \in Procs : \/ Open(p) \/ Destroy(p) \/ Signal(p) \/ Inside(p)
                         \/ \E i \in 0 .. ProcCount : Read(p, i) \/ Write(p, i)
  BY DEF Next
<1>2. /\ pc \in [Procs -> {"out", "check", "refused", "add", "sub", "unlink", "crashed"} \cup InPCs]
      /\ map \in [Procs -> Blocks \cup {None}] /\ idx \in [Procs -> Indexes]
      /\ rd \in [Blocks -> [Indexes -> {UNLOCK, LOCK}]] /\ wr \in [Blocks -> [Indexes -> {UNLOCK, LOCK}]]
      /\ pc[p] \in CopyPCs \cup ReadPCs \cup WritePCs \cup {"init"} => map[p] \in Blocks /\ idx[p] \in Indexes
  BY DEF TokenInv, TypeOK, TypeProcs, TypeMemory, MapInv, CopyPCs, ReadPCs, WritePCs
<1> SUFFICES ASSUME faults' = {}, NEW b \in Blocks, NEW i \in Indexes, rd'[b][i] = LOCK, wr'[b][i] = LOCK
             PROVE  \E r \in Procs : At(r, b, i, CopyPCs)'
  BY DEF NeverStuck, At, CopyPCs
<1>3. faults = {} /\ rd[b][i] = LOCK /\ wr[b][i] = LOCK => \E r \in Procs : At(r, b, i, CopyPCs)
  BY DEF NeverStuck, CopyPCs
<1> USE DEF locals, memory, history, Goto, Set, At, UNLOCK, LOCK
<1>4. CASE \/ Open(p) \/ Destroy(p) \/ Signal(p) \/ CheckCount(p) \/ AddCount(p) \/ SubCount(p)
           \/ Unlink(p) \/ \E j \in 0 .. ProcCount : Read(p, j) \/ Write(p, j)
  <2>1. UNCHANGED <<rd, wr, faults>> /\ pc[p] \notin CopyPCs
        /\ \A r \in Procs \ {p} : pc'[r] = pc[r] /\ map'[r] = map[r] /\ idx'[r] = idx[r]
    BY <1>2, <1>4 DEF Open, Destroy, Signal, CheckCount, AddCount, SubCount, Unlink, Read, Write, Call, CopyPCs
  <2> QED BY <1>3, <2>1
<1>5. CASE InitFutex(p)
  <2>1. /\ UNCHANGED wr /\ pc[p] \notin CopyPCs /\ faults = {}
        /\ \A r \in Procs \ {p} : pc'[r] = pc[r] /\ map'[r] = map[r] /\ idx'[r] = idx[r]
    BY <1>2, <1>5 DEF InitFutex, CopyPCs
  <2>2. rd[b][i] = LOCK /\ wr[b][i] = LOCK
    <3>1. CASE map[p] = b /\ idx[p] = i
      <4>1. ~ (rd[b][i] = UNLOCK /\ wr[b][i] = LOCK) /\ rd[b][i] \in {UNLOCK, LOCK}
        BY <1>2, <1>5, <3>1 DEF InitFutex
      <4> QED BY <2>1, <4>1
    <3>2. CASE ~ (map[p] = b /\ idx[p] = i)
      <4>1. rd' = [rd EXCEPT ![map[p]][idx[p]] = LOCK]
        BY <1>5 DEF InitFutex
      <4> QED BY <1>2, <2>1, <3>2, <4>1
    <3> QED BY <3>1, <3>2
  <2> QED BY <1>3, <2>1, <2>2
<1>6. CASE ReadLock(p) \/ WriteLock(p)
  <2>1. /\ faults = {} /\ pc[p] \in {"rdLock", "wrLock"} /\ pc'[p] \in CopyPCs
        /\ UNCHANGED <<map, idx>> /\ \A r \in Procs \ {p} : pc'[r] = pc[r]
        /\ rd' = [rd EXCEPT ![map[p]][idx[p]] = rd'[map[p]][idx[p]]]
        /\ wr' = [wr EXCEPT ![map[p]][idx[p]] = wr'[map[p]][idx[p]]]
    BY <1>2, <1>6 DEF ReadLock, WriteLock, AfterLock, CopyPCs
  <2>2. CASE map[p] = b /\ idx[p] = i
    BY <2>1, <2>2
  <2>3. CASE ~ (map[p] = b /\ idx[p] = i)
    <3>1. rd[b][i] = LOCK /\ wr[b][i] = LOCK
      BY <1>2, <2>1, <2>3
    <3> QED BY <1>3, <2>1, <2>3, <3>1 DEF CopyPCs
  <2> QED BY <2>2, <2>3
<1>7. CASE ReadCopy(p) \/ WriteCopy(p)
  <2>1. /\ UNCHANGED <<rd, wr, faults, map, idx>> /\ pc'[p] \in CopyPCs
        /\ \A r \in Procs \ {p} : pc'[r] = pc[r]
    BY <1>2, <1>7 DEF ReadCopy, WriteCopy, NextWord, CopyPCs
  <2> QED BY <1>3, <2>1
<1>8. CASE ReadUnlock(p) \/ WriteUnlock(p)
  <2>1. /\ UNCHANGED <<faults, map, idx>> /\ pc[p] \in {"rdUnlock", "wrUnlock"}
        /\ \A r \in Procs \ {p} : pc'[r] = pc[r]
        /\ ~ (map[p] = b /\ idx[p] = i) /\ rd[b][i] = LOCK /\ wr[b][i] = LOCK
    BY <1>2, <1>8 DEF ReadUnlock, WriteUnlock, ReadPCs, WritePCs
  <2> QED BY <1>3, <2>1
<1> QED BY <1>1, <1>4, <1>5, <1>6, <1>7, <1>8 DEF Inside

\* Unless an attaching process has taken a token or a call has returned with one, the
\* futexes of no segment are both locked with nobody copying: whoever waits there can
\* go on when the copy is done.
THEOREM SegmentsDoNotStick == Spec => []NeverStuck
<1>1. Init => NeverStuck
  BY DEF Init, NeverStuck, UNLOCK, LOCK
<1>2. NeverStuck /\ UNCHANGED vars => NeverStuck'
  BY DEF NeverStuck, At, vars, memory, locals, history
<1>3. TokenInv /\ NeverStuck /\ [Next]_vars => NeverStuck'
  BY <1>2, StuckStep
<1> QED BY <1>1, <1>3, TokenInit, TokenNext, PTL DEF Spec
=============================================================================
