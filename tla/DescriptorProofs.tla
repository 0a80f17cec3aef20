------------------------- MODULE DescriptorProofs -------------------------
(***************************************************************************)
(* Proofs about Descriptors, for any number of contexts and descriptors:   *)
(* whatever fails in a create or an accept, and whatever other contexts    *)
(* close by mistake, a context that is gone has left nothing open.         *)
(*                                                                         *)
(* The invariant says where the number of a descriptor can be found: a     *)
(* descriptor of a context is in a field that the rest of its calls will   *)
(* close, or in the local variable of the call that is under way.  It is   *)
(* an invariant whoever closes what, because a close by somebody else can  *)
(* only take a descriptor away from a context.                             *)
(*                                                                         *)
(* The second half is the converse, OwnInv: as long as nothing has         *)
(* happened that the code gets wrong, what is in such a field or variable  *)
(* is a descriptor of the context, and each is another one.  So a close    *)
(* takes only what is its caller's.                                        *)
(***************************************************************************)
EXTENDS Descriptors, FiniteSetTheorems, WellFoundedInduction, TLAPS

\* Where the calls of a file and of a socket can be.
FileLabels == {"none", "open", "pipe", "map", "alive", "close0", "close1", "close"}
SockLabels == {"none", "options", "closeOptions", "cid", "closeCid", "setup", "alive",
               "accepted", "fdOptions", "closeFd", "close"}

Labels == /\ \A c \in Files : pc[c] \in FileLabels
          /\ \A c \in Socks : pc[c] \in SockLabels

\* Field f of context c may hold a descriptor, and will be closed.
InField(c, f) ==
  \/ f = "fd" /\ pc[c] \notin {"none", "open", "fdOptions", "closeFd"}
  \/ f = "pipe0" /\ c \in Files /\ pc[c] \in {"map", "alive", "close0"}
  \/ f = "pipe1" /\ c \in Files /\ pc[c] \in {"map", "alive", "close0", "close1"}

\* The local variable of socket c holds one.
InLocal(c) == c \in Socks /\ pc[c] \in {"closeCid", "accepted", "fdOptions", "closeFd"}

Known(c) == \A n \in Fds : table[n] = c =>
              \/ \E f \in Fields : InField(c, f) /\ n = num[c][f]
              \/ InLocal(c) /\ n = conn[c]

Inv == TypeOK /\ Labels /\ \A c \in Ctxs : Known(c)

\* What a step of context c leaves to the others: at most, they lose a descriptor.
OnlyOf(c) ==
  \A d \in Ctxs \ {c} :
    /\ pc'[d] = pc[d] /\ num'[d] = num[d]
    /\ d \in Socks => conn'[d] = conn[d]
    /\ \A n \in Fds : table'[n] = d => table[n] = d

-----------------------------------------------------------------------------
\* The kernel: the lowest free number is a free number, twice for a pipe.
LEMMA MinIsIn ==
  ASSUME NEW S, S \subseteq Nat, S # {}
  PROVE  Min(S) \in S
<1> DEFINE R == {ss \in Nat \X Nat : ss[1] < ss[2]}
<1>1. IsWellFoundedOn(R, Nat)
  BY NatLessThanWellFounded, Zenon DEF OpToRel
<1>2. \A m, n \in Nat : m < n => <<m, n>> \in R
  OBVIOUS
<1> HIDE DEF R
<1>3. \E x \in S : \A y \in S : ~(<<y, x>> \in R)
  BY <1>1, WFMin
<1>4. PICK x \in S : \A y \in S : ~(<<y, x>> \in R)
  BY <1>3
<1>5. \A y \in S : x =< y
  <2> TAKE y \in S
  <2>1. ~(y < x)
    BY <1>2, <1>4
  <2> QED BY <2>1
<1> QED BY <1>5 DEF Min

\* If any number is free, the kernel finds the lowest.
LEMMA LowestIsFree ==
  ASSUME Free # {}
  PROVE  Lowest \in Fds /\ table[Lowest] = "free"
<1>1. Free \subseteq Nat
  BY DescriptorsAssumption DEF Free, Fds
<1>2. Lowest \in Free
  BY <1>1, MinIsIn DEF Lowest
<1> QED BY <1>2 DEF Free

\* If two are free, pipe finds them, and they differ.
LEMMA SecondIsFree ==
  ASSUME Cardinality(Free) >= 2
  PROVE  /\ Lowest \in Fds /\ table[Lowest] = "free"
         /\ Min(Free \ {Lowest}) \in Fds /\ table[Min(Free \ {Lowest})] = "free"
         /\ Min(Free \ {Lowest}) # Lowest
<1>1. Free \subseteq Nat
  BY DescriptorsAssumption DEF Free, Fds
<1>2. Free # {} /\ Free # {Lowest}
  <2> DEFINE low == Lowest
  <2> HIDE DEF low
  <2>1. Cardinality({}) = 0 /\ Cardinality({low}) = 1
    BY FS_EmptySet, FS_Singleton
  <2>2. Free # {} /\ Free # {low}
    BY <2>1
  <2> QED BY <2>2 DEF low
<1>3. Free \ {Lowest} # {}
  BY <1>2
<1>4. Min(Free \ {Lowest}) \in Free \ {Lowest}
  BY <1>1, <1>3, MinIsIn
<1> QED BY <1>2, <1>4, LowestIsFree DEF Free

\* A step of one context, by what it does to the context itself.
LEMMA OthersKnow ==
  ASSUME Inv, NEW c \in Ctxs, OnlyOf(c), TypeOK', Labels', Known(c)'
  PROVE  Inv'
<1>1. ASSUME NEW d \in Ctxs \ {c} PROVE Known(d)'
  <2>1. ASSUME NEW n \in Fds, table'[n] = d
        PROVE  \/ \E f \in Fields : InField(d, f)' /\ n = num'[d][f]
               \/ InLocal(d)' /\ n = conn'[d]
    <3>1. table[n] = d /\ pc'[d] = pc[d] /\ num'[d] = num[d]
          /\ (d \in Socks => conn'[d] = conn[d])
      BY <2>1 DEF OnlyOf
    <3>2. \/ \E f \in Fields : InField(d, f) /\ n = num[d][f]
          \/ InLocal(d) /\ n = conn[d]
      BY <3>1 DEF Inv, Known
    <3> QED BY <3>1, <3>2 DEF InField, InLocal
  <2> QED BY <2>1 DEF Known, Fds, Fields
<1> QED BY <1>1 DEF Inv

\* A close takes a descriptor from whom it belonged to, and gives nobody one.
LEMMA FreeIsNobody == \A d \in Ctxs : d # "free" /\ d # "program"
BY DescriptorsAssumption DEF Ctxs

\* What is open after a close was open before it, and is another number.
LEMMA CloseTakes ==
  ASSUME NEW n, Close(n), NEW d \in Ctxs, NEW m \in Fds, table'[m] = d
  PROVE  m # n /\ table[m] = d
BY FreeIsNobody DEF Close

\* A step goes to a label of its own kind.
LEMMA FileGoes ==
  ASSUME TypeOK, Labels, NEW c \in Files, NEW label \in FileLabels, Goto(c, label)
  PROVE  Labels'
BY DescriptorsAssumption DEF TypeOK, Labels, Goto, Ctxs

\* A step of a socket context to one of its labels keeps all labels in place.
LEMMA SockGoes ==
  ASSUME TypeOK, Labels, NEW c \in Socks, NEW label \in SockLabels, Goto(c, label)
  PROVE  Labels'
BY DescriptorsAssumption DEF TypeOK, Labels, Goto, Ctxs

\* The last close of every destroy, that of fd.
LEMMA CloseFdKeeps ==
  ASSUME Inv, NEW c \in Ctxs, CloseFd(c)
  PROVE  Inv'
<1> USE DEF Inv
<1>1. 0 \in Fds
  BY DescriptorsAssumption DEF Fds
<1>2. TypeOK'
  <2>1. table' \in [Fds -> Ctxs \cup {"free", "program"}]
    BY DEF CloseFd, Close, TypeOK
  <2>2. num' \in [Ctxs -> [Fields -> Fds \cup {-1}]]
    BY <1>1 DEF CloseFd, TypeOK, Zeros
  <2>3. /\ want' \in [Files -> Wants]
        /\ kind' \in [Socks -> Kinds \cup {"none"}]
    BY DEF CloseFd, TypeOK, Wants
  <2> QED BY <2>1, <2>2, <2>3 DEF CloseFd, TypeOK, Goto
<1>3. Labels'
  BY DEF CloseFd, TypeOK, Goto, Labels, FileLabels, SockLabels, Ctxs
<1>4. OnlyOf(c)
  BY CloseTakes, FreeIsNobody DEF CloseFd, TypeOK, Goto, OnlyOf
<1>5. Known(c)'
  BY CloseTakes DEF CloseFd, TypeOK, Goto, Known, InField, InLocal
<1> QED BY <1>2, <1>3, <1>4, <1>5, OthersKnow

\* At first nothing is open.
LEMMA InitInv == Init => Inv
<1> SUFFICES ASSUME Init PROVE Inv
  OBVIOUS
<1>1. 0 \in Fds
  BY DescriptorsAssumption DEF Fds
<1>2. Labels
  BY DEF Init, Labels, FileLabels, SockLabels, Ctxs
<1>3. \A c \in Ctxs : Known(c)
  BY DescriptorsAssumption DEF Init, Known, Ctxs
<1>4. table \in [Fds -> Ctxs \cup {"free", "program"}]
  BY DEF Init
<1>5. num \in [Ctxs -> [Fields -> Fds \cup {-1}]]
  BY <1>1 DEF Init, Zeros
<1>6. want \in [Files -> Wants]
  BY DEF Init, Wants
<1>7. kind \in [Socks -> Kinds \cup {"none"}]
  BY DEF Init
<1>8. pc \in [Ctxs -> {"none", "open", "pipe", "map", "options", "closeOptions", "cid",
                      "closeCid", "setup", "alive", "accepted", "fdOptions", "closeFd",
                      "close0", "close1", "close"}]
  BY DEF Init
<1>9. conn \in [Socks -> Fds \cup {-1}]
  BY DEF Init
<1>10. blame \subseteq {"partial", "create", "setsockopt"} /\ creates \in 0 .. MaxCreates
  BY DescriptorsAssumption DEF Init
<1> QED BY <1>2, <1>3, <1>4, <1>5, <1>6, <1>7, <1>8, <1>9, <1>10 DEF Inv, TypeOK

-----------------------------------------------------------------------------
\* The steps of a file.
LEMMA FileStepKeeps ==
  ASSUME Inv, NEW c \in Files, FileStep(c)
  PROVE  Inv'
<1> USE DEF Inv
<1>0. /\ c \in Ctxs /\ c \notin Socks /\ c # "free" /\ c # "program"
      /\ pc[c] \in FileLabels
  BY DescriptorsAssumption DEF Ctxs, Labels
<1>1. CASE \E w \in Wants : FileCreate(c, w)
  <2>1. PICK w \in Wants : FileCreate(c, w)
    BY <1>1
  <2>2. TypeOK'
    BY <1>0, <2>1, DescriptorsAssumption DEF FileCreate, TypeOK, Goto
  <2>3. Labels' /\ OnlyOf(c)
    BY <1>0, <2>1 DEF FileCreate, TypeOK, Goto, Labels, FileLabels, OnlyOf
  <2>4. Known(c)'
    BY <1>0, <2>1 DEF FileCreate, TypeOK, Goto, Known, InField, InLocal
  <2> QED BY <1>0, <2>2, <2>3, <2>4, OthersKnow
<1>2. CASE FileOpen(c)
  <2>1. Lowest \in Fds
    BY <1>2, LowestIsFree DEF FileOpen
  <2>2. TypeOK'
    BY <1>0, <1>2, <2>1 DEF FileOpen, TypeOK, Goto, Open, Fields
  <2>3. Labels' /\ OnlyOf(c)
    BY <1>0, <1>2 DEF FileOpen, TypeOK, Goto, Open, Labels, FileLabels, OnlyOf
  <2>4. Known(c)'
    BY <1>0, <1>2, <2>1 DEF FileOpen, TypeOK, Goto, Open, Known, InField, InLocal, Fields
  <2> QED BY <1>0, <2>2, <2>3, <2>4, OthersKnow
<1>3. CASE FileOpenFails(c)
  <2>2. TypeOK'
    BY <1>0, <1>3 DEF FileOpenFails, TypeOK, Goto, Fields
  <2>3. Labels' /\ OnlyOf(c)
    BY <1>0, <1>3 DEF FileOpenFails, TypeOK, Goto, Labels, FileLabels, OnlyOf
  <2>4. Known(c)'
    BY <1>0, <1>3 DEF FileOpenFails, TypeOK, Goto, Known, InField, InLocal
  <2> QED BY <1>0, <2>2, <2>3, <2>4, OthersKnow
<1>4. CASE Pipe(c)
  <2> DEFINE first == Lowest
             second == Min(Free \ {Lowest})
  <2>1. first \in Fds /\ second \in Fds
    BY <1>4, SecondIsFree DEF Pipe
  <2>2. /\ pc[c] = "pipe" /\ pc' = [pc EXCEPT ![c] = "alive"]
        /\ table' = [table EXCEPT ![first] = c, ![second] = c]
        /\ num' = [num EXCEPT ![c]["pipe0"] = first, ![c]["pipe1"] = second]
        /\ UNCHANGED <<want, kind, conn, blame, creates>>
    BY <1>4 DEF Pipe, Goto
  <2> HIDE DEF first, second
  <2>3. TypeOK'
    BY <1>0, <2>1, <2>2 DEF TypeOK, Fields
  <2>4. Labels' /\ OnlyOf(c)
    BY <1>0, <2>1, <2>2 DEF TypeOK, Labels, FileLabels, OnlyOf
  <2>5. Known(c)'
    BY <1>0, <2>1, <2>2 DEF TypeOK, Known, InField, InLocal, Fields
  <2> QED BY <1>0, <2>3, <2>4, <2>5, OthersKnow
<1>5. CASE SetUpFails(c)
  <2>2. TypeOK'
    BY <1>0, <1>5 DEF SetUpFails, TypeOK, Goto
  <2>3. Labels' /\ OnlyOf(c)
    BY <1>0, <1>5 DEF SetUpFails, TypeOK, Goto, Labels, FileLabels, OnlyOf
  <2>4. Known(c)'
    BY <1>0, <1>5 DEF SetUpFails, TypeOK, Goto, Known, InField, InLocal
  <2> QED BY <1>0, <2>2, <2>3, <2>4, OthersKnow
<1>6. CASE Map(c)
  <2>2. TypeOK'
    BY <1>0, <1>6 DEF Map, TypeOK, Goto
  <2>3. Labels' /\ OnlyOf(c)
    BY <1>0, <1>6 DEF Map, TypeOK, Goto, Labels, FileLabels, OnlyOf
  <2>4. Known(c)'
    BY <1>0, <1>6 DEF Map, TypeOK, Goto, Known, InField, InLocal
  <2> QED BY <1>0, <2>2, <2>3, <2>4, OthersKnow
<1>7. CASE FileDestroy(c)
  <2>2. TypeOK'
    BY <1>0, <1>7 DEF FileDestroy, TypeOK, Goto
  <2>3. Labels' /\ OnlyOf(c)
    BY <1>0, <1>7 DEF FileDestroy, TypeOK, Goto, Labels, FileLabels, OnlyOf
  <2>4. Known(c)'
    BY <1>0, <1>7 DEF FileDestroy, TypeOK, Goto, Known, InField, InLocal
  <2> QED BY <1>0, <2>2, <2>3, <2>4, OthersKnow
<1>8. CASE ClosePipe(c)
  <2>2. TypeOK'
    BY <1>0, <1>8 DEF ClosePipe, TypeOK, Goto, Close
  <2>1. PICK label \in FileLabels : Goto(c, label)
    BY <1>8 DEF ClosePipe, FileLabels
  <2>3. Labels'
    BY <2>1, FileGoes
  <2>4. OnlyOf(c)
    BY <1>0, <1>8, CloseTakes, FreeIsNobody DEF ClosePipe, TypeOK, Goto, OnlyOf
  <2>5. Known(c)'
    BY <1>0, <1>8 DEF ClosePipe, TypeOK, Goto, Close, Known, InField, InLocal
  <2> QED BY <1>0, <2>2, <2>3, <2>4, <2>5, OthersKnow
<1>9. CASE CloseFd(c)
  BY <1>0, <1>9, CloseFdKeeps
<1> QED BY <1>1, <1>2, <1>3, <1>4, <1>5, <1>6, <1>7, <1>8, <1>9 DEF FileStep
-----------------------------------------------------------------------------
\* The steps of a socket, by their shape.

\* The create of a stream socket: socket(2).
LEMMA CreateKeeps ==
  ASSUME Inv, NEW c \in Socks, NEW k \in Kinds, NEW next \in {"options", "setup"},
         Create(c, k, next)
  PROVE  Inv'
<1> USE DEF Inv
<1>0. c \in Ctxs /\ c \notin Files /\ pc[c] \in SockLabels
  BY DescriptorsAssumption DEF Ctxs, Labels
<1>1. Free # {} => Lowest \in Fds
  BY LowestIsFree
<1>2. TypeOK'
  <2>1. table' \in [Fds -> Ctxs \cup {"free", "program"}]
    BY <1>0 DEF Create, Open, TypeOK
  <2>2. num' \in [Ctxs -> [Fields -> Fds \cup {-1}]]
    BY <1>0, <1>1 DEF Create, TypeOK, Fields
  <2>3. conn' \in [Socks -> Fds \cup {-1}]
    BY <1>0, <1>1 DEF Create, TypeOK
  <2>4. kind' \in [Socks -> Kinds \cup {"none"}]
    BY DEF Create, TypeOK
  <2>5. pc' \in [Ctxs -> {"none", "open", "pipe", "map", "options", "closeOptions", "cid",
                        "closeCid", "setup", "alive", "accepted", "fdOptions", "closeFd",
                        "close0", "close1", "close"}]
    BY DEF Create, TypeOK, Goto
  <2>6. /\ want' \in [Files -> Wants] /\ creates' \in 0 .. MaxCreates
        /\ blame' \subseteq {"partial", "create", "setsockopt"}
    BY DescriptorsAssumption DEF Create, TypeOK
  <2> QED BY <2>1, <2>2, <2>3, <2>4, <2>5, <2>6 DEF TypeOK
<1>3. PICK label \in SockLabels : Goto(c, label)
  BY DEF Create, SockLabels
<1>4. Labels'
  BY <1>3, SockGoes
<1>5. OnlyOf(c)
  BY <1>0, FreeIsNobody DEF Create, Open, TypeOK, Goto, OnlyOf
<1>6. Known(c)'
  BY <1>0, <1>1, FreeIsNobody DEF Create, Open, TypeOK, Goto, Known, InField, InLocal, Fields
<1> QED BY <1>0, <1>2, <1>4, <1>5, <1>6, OthersKnow

\* p_set_sock_opts of the stream sockets, which may fail.
LEMMA OptionsKeep ==
  ASSUME Inv, NEW c \in Socks, NEW k \in Kinds, NEW next \in {"setup", "cid"},
         Options(c, k, next)
  PROVE  Inv'
<1> USE DEF Inv
<1>0. c \in Ctxs /\ c \notin Files /\ pc[c] \in SockLabels
  BY DescriptorsAssumption DEF Ctxs, Labels
<1>2. TypeOK'
  BY <1>0, FreeIsNobody DEF Options, TypeOK, Goto, Fields, Kinds
<1>3. PICK label \in SockLabels : Goto(c, label)
  BY DEF Options, SockLabels
<1>4. Labels'
  BY <1>3, SockGoes
<1>5. OnlyOf(c)
  BY <1>0, FreeIsNobody DEF Options, TypeOK, Goto, OnlyOf
<1>6. Known(c)'
  BY <1>0, FreeIsNobody DEF Options, TypeOK, Goto, Known, InField, InLocal, Fields
<1> QED BY <1>0, <1>2, <1>4, <1>5, <1>6, OthersKnow

\* It failed, and the descriptor is closed.
LEMMA CloseOptionsKeeps ==
  ASSUME Inv, NEW c \in Socks, CloseOptions(c)
  PROVE  Inv'
<1> USE DEF Inv
<1>0. c \in Ctxs /\ c \notin Files /\ pc[c] \in SockLabels
  BY DescriptorsAssumption DEF Ctxs, Labels
<1>2. TypeOK'
  BY <1>0, FreeIsNobody DEF CloseOptions, Close, TypeOK, Goto, Fields, Kinds
<1>3. Labels'
  BY <1>0 DEF CloseOptions, Close, TypeOK, Goto, Labels, SockLabels
<1>4. OnlyOf(c)
  BY <1>0, CloseTakes, FreeIsNobody DEF CloseOptions, TypeOK, Goto, OnlyOf
<1>5. Known(c)'
  BY <1>0, CloseTakes, FreeIsNobody DEF CloseOptions, Close, TypeOK, Goto, Known, InField, InLocal, Fields
<1> QED BY <1>0, <1>2, <1>3, <1>4, <1>5, OthersKnow

\* /dev/vsock is opened.
LEMMA OpenCidKeeps ==
  ASSUME Inv, NEW c \in Socks, OpenCid(c)
  PROVE  Inv'
<1> USE DEF Inv
<1>0. c \in Ctxs /\ c \notin Files /\ pc[c] \in SockLabels
  BY DescriptorsAssumption DEF Ctxs, Labels
<1>1. Free # {} => Lowest \in Fds
  BY LowestIsFree
<1>2. TypeOK'
  BY <1>0, <1>1, FreeIsNobody DEF OpenCid, Open, TypeOK, Goto, Fields, Kinds
<1>3. PICK label \in SockLabels : Goto(c, label)
  BY DEF OpenCid, SockLabels
<1>4. Labels'
  BY <1>3, SockGoes
<1>5. OnlyOf(c)
  BY <1>0, FreeIsNobody DEF OpenCid, Open, TypeOK, Goto, OnlyOf
<1>6. Known(c)'
  BY <1>0, <1>1, FreeIsNobody DEF OpenCid, Open, TypeOK, Goto, Known, InField, InLocal, Fields
<1> QED BY <1>0, <1>2, <1>4, <1>5, <1>6, OthersKnow

\* And closed.
LEMMA CloseCidKeeps ==
  ASSUME Inv, NEW c \in Socks, CloseCid(c)
  PROVE  Inv'
<1> USE DEF Inv
<1>0. c \in Ctxs /\ c \notin Files /\ pc[c] \in SockLabels
  BY DescriptorsAssumption DEF Ctxs, Labels
<1>2. TypeOK'
  BY <1>0, FreeIsNobody DEF CloseCid, Close, TypeOK, Goto, Fields, Kinds
<1>3. Labels'
  BY <1>0 DEF CloseCid, Close, TypeOK, Goto, Labels, SockLabels
<1>4. OnlyOf(c)
  BY <1>0, CloseTakes, FreeIsNobody DEF CloseCid, TypeOK, Goto, OnlyOf
<1>5. Known(c)'
  BY <1>0, CloseTakes, FreeIsNobody DEF CloseCid, Close, TypeOK, Goto, Known, InField, InLocal, Fields
<1> QED BY <1>0, <1>2, <1>3, <1>4, <1>5, OthersKnow

\* The rest of a create, which may fail.
LEMMA SetUpKeeps ==
  ASSUME Inv, NEW c \in Socks, NEW k \in Kinds, SetUp(c, k, "close")
  PROVE  Inv'
<1> USE DEF Inv
<1>0. c \in Ctxs /\ c \notin Files /\ pc[c] \in SockLabels
  BY DescriptorsAssumption DEF Ctxs, Labels
<1>2. TypeOK'
  BY <1>0, FreeIsNobody DEF SetUp, TypeOK, Goto, Fields, Kinds
<1>3. PICK label \in SockLabels : Goto(c, label)
  BY DEF SetUp, SockLabels
<1>4. Labels'
  BY <1>3, SockGoes
<1>5. OnlyOf(c)
  BY <1>0, FreeIsNobody DEF SetUp, TypeOK, Goto, OnlyOf
<1>6. Known(c)'
  BY <1>0, FreeIsNobody DEF SetUp, TypeOK, Goto, Known, InField, InLocal, Fields
<1> QED BY <1>0, <1>2, <1>4, <1>5, <1>6, OthersKnow

\* p_create_sock_fd of the datagram sockets, which keeps the number in a variable.
LEMMA DatagramSocketKeeps ==
  ASSUME Inv, NEW c \in Socks, NEW k \in Kinds, DatagramSocket(c, k)
  PROVE  Inv'
<1> USE DEF Inv
<1>0. c \in Ctxs /\ c \notin Files /\ pc[c] \in SockLabels
  BY DescriptorsAssumption DEF Ctxs, Labels
<1>1. Free # {} => Lowest \in Fds
  BY LowestIsFree
<1>2. TypeOK'
  <2>1. table' \in [Fds -> Ctxs \cup {"free", "program"}]
    BY <1>0 DEF DatagramSocket, Open, TypeOK
  <2>2. num' \in [Ctxs -> [Fields -> Fds \cup {-1}]]
    BY <1>0, <1>1 DEF DatagramSocket, TypeOK, Fields
  <2>3. conn' \in [Socks -> Fds \cup {-1}]
    BY <1>0, <1>1 DEF DatagramSocket, TypeOK
  <2>4. kind' \in [Socks -> Kinds \cup {"none"}]
    BY DEF DatagramSocket, TypeOK
  <2>5. pc' \in [Ctxs -> {"none", "open", "pipe", "map", "options", "closeOptions", "cid",
                        "closeCid", "setup", "alive", "accepted", "fdOptions", "closeFd",
                        "close0", "close1", "close"}]
    BY DEF DatagramSocket, TypeOK, Goto
  <2>6. /\ want' \in [Files -> Wants] /\ creates' \in 0 .. MaxCreates
        /\ blame' \subseteq {"partial", "create", "setsockopt"}
    BY DescriptorsAssumption DEF DatagramSocket, TypeOK
  <2> QED BY <2>1, <2>2, <2>3, <2>4, <2>5, <2>6 DEF TypeOK
<1>3. PICK label \in SockLabels : Goto(c, label)
  BY DEF DatagramSocket, SockLabels
<1>4. Labels'
  BY <1>3, SockGoes
<1>5. OnlyOf(c)
  BY <1>0, FreeIsNobody DEF DatagramSocket, Open, TypeOK, Goto, OnlyOf
<1>6. Known(c)'
  BY <1>0, <1>1, FreeIsNobody DEF DatagramSocket, Open, TypeOK, Goto, Known, InField, InLocal, Fields
<1> QED BY <1>0, <1>2, <1>4, <1>5, <1>6, OthersKnow

\* The number is stored when its options are set.
LEMMA FdOptionsKeep ==
  ASSUME Inv, NEW c \in Socks, NEW k \in Kinds, NEW next \in {"setup", "cid"},
         FdOptions(c, k, next)
  PROVE  Inv'
<1> USE DEF Inv
<1>0. c \in Ctxs /\ c \notin Files /\ pc[c] \in SockLabels
  BY DescriptorsAssumption DEF Ctxs, Labels
<1>2. TypeOK'
  <2>1. table' \in [Fds -> Ctxs \cup {"free", "program"}]
    BY <1>0 DEF FdOptions, TypeOK
  <2>2. num' \in [Ctxs -> [Fields -> Fds \cup {-1}]]
    BY <1>0 DEF FdOptions, TypeOK, Fields
  <2>3. conn' \in [Socks -> Fds \cup {-1}]
    BY <1>0 DEF FdOptions, TypeOK
  <2>4. kind' \in [Socks -> Kinds \cup {"none"}]
    BY DEF FdOptions, TypeOK
  <2>5. pc' \in [Ctxs -> {"none", "open", "pipe", "map", "options", "closeOptions", "cid",
                        "closeCid", "setup", "alive", "accepted", "fdOptions", "closeFd",
                        "close0", "close1", "close"}]
    BY DEF FdOptions, TypeOK, Goto
  <2>6. /\ want' \in [Files -> Wants] /\ creates' \in 0 .. MaxCreates
        /\ blame' \subseteq {"partial", "create", "setsockopt"}
    BY DescriptorsAssumption DEF FdOptions, TypeOK
  <2> QED BY <2>1, <2>2, <2>3, <2>4, <2>5, <2>6 DEF TypeOK
<1>3. PICK label \in SockLabels : Goto(c, label)
  BY DEF FdOptions, SockLabels
<1>4. Labels'
  BY <1>3, SockGoes
<1>5. OnlyOf(c)
  BY <1>0, FreeIsNobody DEF FdOptions, TypeOK, Goto, OnlyOf
<1>6. Known(c)'
  BY <1>0, FreeIsNobody DEF FdOptions, TypeOK, Goto, Known, InField, InLocal, Fields
<1> QED BY <1>0, <1>2, <1>4, <1>5, <1>6, OthersKnow

\* They are not, and p_create_sock_fd closes it.
LEMMA CloseFailedFdKeeps ==
  ASSUME Inv, NEW c \in Socks, CloseFailedFd(c)
  PROVE  Inv'
<1> USE DEF Inv
<1>0. c \in Ctxs /\ c \notin Files /\ pc[c] \in SockLabels
  BY DescriptorsAssumption DEF Ctxs, Labels
<1>2. TypeOK'
  BY <1>0, FreeIsNobody DEF CloseFailedFd, Close, TypeOK, Goto, Fields, Kinds
<1>3. Labels'
  BY <1>0 DEF CloseFailedFd, Close, TypeOK, Goto, Labels, SockLabels
<1>4. OnlyOf(c)
  BY <1>0, CloseTakes, FreeIsNobody DEF CloseFailedFd, TypeOK, Goto, OnlyOf
<1>5. Known(c)'
  BY <1>0, CloseTakes, FreeIsNobody DEF CloseFailedFd, Close, TypeOK, Goto, Known, InField, InLocal, Fields
<1> QED BY <1>0, <1>2, <1>3, <1>4, <1>5, OthersKnow

\* accept(2), or the second socket of a datagram accept.
LEMMA AcceptKeeps ==
  ASSUME Inv, NEW c \in Socks, NEW k \in Kinds, Accept(c, k)
  PROVE  Inv'
<1> USE DEF Inv
<1>0. c \in Ctxs /\ c \notin Files /\ pc[c] \in SockLabels
  BY DescriptorsAssumption DEF Ctxs, Labels
<1>1. Free # {} => Lowest \in Fds
  BY LowestIsFree
<1>2. TypeOK'
  BY <1>0, <1>1, FreeIsNobody DEF Accept, Open, TypeOK, Goto, Fields, Kinds
<1>3. Labels'
  BY <1>0 DEF Accept, Open, TypeOK, Goto, Labels, SockLabels
<1>4. OnlyOf(c)
  BY <1>0, FreeIsNobody DEF Accept, Open, TypeOK, Goto, OnlyOf
<1>5. Known(c)'
  BY <1>0, <1>1, FreeIsNobody DEF Accept, Open, TypeOK, Goto, Known, InField, InLocal, Fields
<1> QED BY <1>0, <1>2, <1>3, <1>4, <1>5, OthersKnow

\* accept(2) of a vsock stream socket, which the program has at once.
LEMMA VsockAcceptKeeps ==
  ASSUME Inv, NEW c \in Socks, VsockAccept(c)
  PROVE  Inv'
<1> USE DEF Inv
<1>0. c \in Ctxs /\ c \notin Files /\ pc[c] \in SockLabels
  BY DescriptorsAssumption DEF Ctxs, Labels
<1>1. Free # {} => Lowest \in Fds
  BY LowestIsFree
<1>2. TypeOK'
  BY <1>0, <1>1, FreeIsNobody DEF VsockAccept, Open, TypeOK, Goto, Fields, Kinds
<1>3. Labels'
  BY <1>0 DEF VsockAccept, Open, TypeOK, Goto, Labels, SockLabels
<1>4. OnlyOf(c)
  BY <1>0, FreeIsNobody DEF VsockAccept, Open, TypeOK, Goto, OnlyOf
<1>5. Known(c)'
  BY <1>0, <1>1, FreeIsNobody DEF VsockAccept, Open, TypeOK, Goto, Known, InField, InLocal, Fields
<1> QED BY <1>0, <1>2, <1>3, <1>4, <1>5, OthersKnow

\* The program takes the descriptor that accept returned.
LEMMA AcceptedKeeps ==
  ASSUME Inv, NEW c \in Socks, Accepted(c)
  PROVE  Inv'
<1> USE DEF Inv
<1>0. c \in Ctxs /\ c \notin Files /\ pc[c] \in SockLabels
  BY DescriptorsAssumption DEF Ctxs, Labels
<1>2. TypeOK'
  BY <1>0, FreeIsNobody DEF Accepted, Open, TypeOK, Goto, Fields, Kinds
<1>3. Labels'
  BY <1>0 DEF Accepted, Open, TypeOK, Goto, Labels, SockLabels
<1>4. OnlyOf(c)
  BY <1>0, FreeIsNobody DEF Accepted, Open, TypeOK, Goto, OnlyOf
<1>5. Known(c)'
  BY <1>0, FreeIsNobody DEF Accepted, Open, TypeOK, Goto, Known, InField, InLocal, Fields
<1> QED BY <1>0, <1>2, <1>3, <1>4, <1>5, OthersKnow

\* Or an option of it fails, and it is closed.
LEMMA AcceptFailsKeeps ==
  ASSUME Inv, NEW c \in Socks, AcceptFails(c)
  PROVE  Inv'
<1> USE DEF Inv
<1>0. c \in Ctxs /\ c \notin Files /\ pc[c] \in SockLabels
  BY DescriptorsAssumption DEF Ctxs, Labels
<1>2. TypeOK'
  BY <1>0, FreeIsNobody DEF AcceptFails, Close, TypeOK, Goto, Fields, Kinds
<1>3. Labels'
  BY <1>0 DEF AcceptFails, Close, TypeOK, Goto, Labels, SockLabels
<1>4. OnlyOf(c)
  BY <1>0, CloseTakes, FreeIsNobody DEF AcceptFails, TypeOK, Goto, OnlyOf
<1>5. Known(c)'
  BY <1>0, CloseTakes, FreeIsNobody DEF AcceptFails, Close, TypeOK, Goto, Known, InField, InLocal, Fields
<1> QED BY <1>0, <1>2, <1>3, <1>4, <1>5, OthersKnow

\* The destroy of a socket.
LEMMA SockDestroyKeeps ==
  ASSUME Inv, NEW c \in Socks, SockDestroy(c)
  PROVE  Inv'
<1> USE DEF Inv
<1>0. c \in Ctxs /\ c \notin Files /\ pc[c] \in SockLabels
  BY DescriptorsAssumption DEF Ctxs, Labels
<1>2. TypeOK'
  BY <1>0, FreeIsNobody DEF SockDestroy, TypeOK, Goto, Fields, Kinds
<1>3. Labels'
  BY <1>0 DEF SockDestroy, TypeOK, Goto, Labels, SockLabels
<1>4. OnlyOf(c)
  BY <1>0, FreeIsNobody DEF SockDestroy, TypeOK, Goto, OnlyOf
<1>5. Known(c)'
  BY <1>0, FreeIsNobody DEF SockDestroy, TypeOK, Goto, Known, InField, InLocal, Fields
<1> QED BY <1>0, <1>2, <1>3, <1>4, <1>5, OthersKnow

\* All steps of a socket context.
LEMMA SockStepKeeps ==
  ASSUME Inv, NEW c \in Socks, SockStep(c)
  PROVE  Inv'
<1>0. c \in Ctxs
  BY DEF Ctxs
<1> USE DEF Kinds
<1>1. CASE TcpSocket(c) \/ UnixSocket(c) \/ VsockSocket(c) \/ CanSocket(c)
  BY <1>1, CreateKeeps DEF TcpSocket, UnixSocket, VsockSocket, CanSocket
<1>2. CASE TcpOptions(c) \/ UnixOptions(c) \/ VsockOptions(c)
  BY <1>2, OptionsKeep DEF TcpOptions, UnixOptions, VsockOptions
<1>3. CASE CloseOptions(c) \/ OpenCid(c) \/ CloseCid(c)
  BY <1>3, CloseOptionsKeeps, OpenCidKeeps, CloseCidKeeps
<1>4. CASE TcpSetUp(c) \/ UnixSetUp(c) \/ VsockSetUp(c) \/ CanSetUp(c)
  BY <1>4, SetUpKeeps DEF TcpSetUp, UnixSetUp, VsockSetUp, CanSetUp
<1>5. CASE UdpSocket(c) \/ UnixUdpSocket(c) \/ VsockUdpSocket(c)
  BY <1>5, DatagramSocketKeeps DEF UdpSocket, UnixUdpSocket, VsockUdpSocket
<1>6. CASE UdpOptions(c) \/ UnixUdpOptions(c) \/ VsockUdpOptions(c) \/ CloseFailedFd(c)
  BY <1>6, FdOptionsKeep, CloseFailedFdKeeps
     DEF UdpOptions, UnixUdpOptions, VsockUdpOptions
<1>7. CASE UdpSetUp(c) \/ UnixUdpSetUp(c) \/ VsockUdpSetUp(c)
  BY <1>7, SetUpKeeps DEF UdpSetUp, UnixUdpSetUp, VsockUdpSetUp
<1>8. CASE \/ TcpAccept(c) \/ UnixAccept(c) \/ VsockAccept(c)
           \/ UdpServerAccept(c) \/ VsockUdpServerAccept(c)
  BY <1>8, AcceptKeeps, VsockAcceptKeeps
     DEF TcpAccept, UnixAccept, UdpServerAccept, VsockUdpServerAccept
<1>9. CASE KeepAlive(c) \/ UdpAcceptSetUp(c) \/ VsockUdpAcceptSetUp(c)
  BY <1>9, AcceptedKeeps, AcceptFailsKeeps
     DEF KeepAlive, UdpAcceptSetUp, VsockUdpAcceptSetUp
<1>10. CASE SockDestroy(c) \/ CloseFd(c)
  BY <1>0, <1>10, SockDestroyKeeps, CloseFdKeeps
<1> QED BY <1>1, <1>2, <1>3, <1>4, <1>5, <1>6, <1>7, <1>8, <1>9, <1>10 DEF SockStep

-----------------------------------------------------------------------------
\* The rest of the program closes what is its own.
LEMMA ProgramKeeps ==
  ASSUME Inv, Program
  PROVE  Inv'
<1> USE DEF Inv
<1>1. PICK n \in Fds \ {0} : table[n] = "program" /\ Close(n)
  BY DEF Program
<1>2. TypeOK'
  BY <1>1 DEF Program, Close, TypeOK
<1>3. Labels'
  BY DEF Program, Labels, FileLabels, SockLabels
<1>4. ASSUME NEW c \in Ctxs PROVE Known(c)'
  BY <1>1, CloseTakes DEF Program, Known, InField, InLocal
<1> QED BY <1>2, <1>3, <1>4

\* Steps of others that change nothing here.
LEMMA StutterKeeps ==
  ASSUME Inv, UNCHANGED vars
  PROVE  Inv'
BY DEF Inv, vars, TypeOK, Labels, Known, InField, InLocal

\* So the places of the descriptors are known in every behaviour.
LEMMA Invariance == Spec => []Inv
<1>1. Inv /\ [Next]_vars => Inv'
  BY FileStepKeeps, SockStepKeeps, ProgramKeeps, StutterKeeps DEF Next
<1> QED BY <1>1, InitInv, PTL DEF Spec

\* The numbers, the owners and the labels of every context are what they should
\* be, for any number of contexts, descriptors and creates.
THEOREM DescriptorsTypeCorrect == Spec => []TypeOK
<1>1. Inv => TypeOK
  BY DEF Inv
<1> QED BY <1>1, Invariance, PTL

\* However many contexts there are and however few numbers, and whatever fails
\* in a create or an accept (the setsockopt, bind, connect, mmap and open error
\* paths) or is closed by somebody else: a context that is gone has left no
\* descriptor open.
THEOREM NothingLeaks == Spec => []NoLeak
<1>1. Inv => NoLeak
  <2> SUFFICES ASSUME Inv, NEW c \in Ctxs, pc[c] = "none", NEW n \in Fds
               PROVE  table[n] # c
    BY DEF NoLeak
  <2>1. \A f \in Fields : ~InField(c, f)
    BY DEF InField
  <2>2. ~InLocal(c)
    BY DEF InLocal
  <2> QED BY <2>1, <2>2 DEF Inv, Known
<1> QED BY <1>1, Invariance, PTL

-----------------------------------------------------------------------------
\* Context c has opened descriptor n.
Owns(c, n) == n \in Fds /\ table[n] = c

\* The fields that c will close hold descriptors of its own, each another one; so
\* does the local variable.  Only a socket that could not be made has -1 instead.
Own(c) ==
  /\ pc[c] \notin {"map", "closeOptions"}
  /\ c \in Files => pc[c] = "none" \/ want[c] = {"file", "pipe"}
  /\ \A f \in Fields : InField(c, f) =>
       \/ Owns(c, num[c][f])
       \/ c \in Socks /\ pc[c] = "close" /\ num[c][f] = -1
  /\ \A f, g \in Fields : InField(c, f) /\ InField(c, g) /\ f # g => num[c][f] # num[c][g]
  /\ InLocal(c) => Owns(c, conn[c])
  /\ InLocal(c) /\ InField(c, "fd") => conn[c] # num[c]["fd"]

OwnInv == blame = {} => \A c \in Ctxs : Own(c)

\* What a step of c leaves alone.
Frame(c) ==
  \A d \in Ctxs \ {c} :
    /\ pc'[d] = pc[d] /\ num'[d] = num[d]
    /\ d \in Socks => conn'[d] = conn[d]
    /\ d \in Files => want'[d] = want[d]

\* A step of c that closes at most what is its own.
Spares(c) ==
  /\ \A n \in Fds : \A d \in Ctxs \ {c} : table[n] = d => table'[n] = d
  /\ table[0] = "program" => table'[0] = "program"

Behaves(c) ==
  /\ Spares(c)
  /\ \A n \in Fds : table[n] = c /\ table'[n] = "free" => pc'[c] # pc[c]

\* Before the first create no field is in use.
LEMMA OwnInit == Init => OwnInv
<1> SUFFICES ASSUME Init, NEW c \in Ctxs PROVE Own(c)
  BY DEF OwnInv
<1>1. pc[c] = "none"
  BY DEF Init
<1>2. ~ InLocal(c) /\ \A f \in Fields : ~ InField(c, f)
  BY <1>1 DEF InLocal, InField
<1> QED BY <1>1, <1>2 DEF Own

\* An open takes a number that was free, a close gives back one of c's.
LEMMA OpenSpares ==
  ASSUME TypeOK, NEW c \in Ctxs, NEW n \in Fds, table[n] = "free", NEW w, Open(n, w)
  PROVE  Spares(c) /\ \A m \in Fds : m # n => table'[m] = table[m]
<1>1. \A m \in Fds : m # n => table'[m] = table[m]
  BY DEF Open, TypeOK
<1>2. 0 \in Fds
  BY DescriptorsAssumption DEF Fds
<1>3. \A m \in Fds : \A d \in Ctxs \ {c} : table[m] = d => table'[m] = d
  BY <1>1, FreeIsNobody
<1>4. table[0] = "program" => table'[0] = "program"
  BY <1>1, <1>2
<1> QED BY <1>1, <1>3, <1>4 DEF Spares

\* Who closes a number of its own, or -1, takes nothing from others.
LEMMA CloseSpares ==
  ASSUME TypeOK, NEW c \in Ctxs, NEW n, Close(n), Owns(c, n) \/ n = -1
  PROVE  Spares(c) /\ \A m \in Fds : m # n => table'[m] = table[m]
<1>1. \A m \in Fds : table'[m] = IF m = n THEN "free" ELSE table[m]
  BY DEF Close
<1>2. \A m \in Fds : m # -1
  BY DescriptorsAssumption DEF Fds
<1>3. 0 \in Fds
  BY DescriptorsAssumption DEF Fds
<1>4. \A m \in Fds : \A d \in Ctxs \ {c} : table[m] = d => table'[m] = d
  BY <1>1, <1>2 DEF Owns
<1>5. table[0] = "program" => table'[0] = "program"
  BY <1>1, <1>2, <1>3, FreeIsNobody DEF Owns
<1> QED BY <1>1, <1>4, <1>5 DEF Spares

\* What the step of c leaves alone stays as it should be.
LEMMA OthersOwn ==
  ASSUME blame = {}, OwnInv, NEW c \in Ctxs, Frame(c), Behaves(c), Own(c)'
  PROVE  OwnInv'
<1> SUFFICES ASSUME NEW d \in Ctxs \ {c} PROVE Own(d)'
  BY DEF OwnInv, Ctxs
<1>1. Own(d)
  BY DEF OwnInv
<1>2. /\ pc'[d] = pc[d] /\ num'[d] = num[d]
      /\ d \in Socks => conn'[d] = conn[d]
      /\ d \in Files => want'[d] = want[d]
  BY DEF Frame
<1>4. /\ InLocal(d)' = InLocal(d)
      /\ \A f \in Fields : InField(d, f)' = InField(d, f)
  BY <1>2 DEF InLocal, InField
<1>5. InLocal(d) => d \in Socks
  BY DEF InLocal
<1>6. /\ pc'[d] \notin {"map", "closeOptions"}
      /\ d \in Files => pc'[d] = "none" \/ want'[d] = {"file", "pipe"}
  BY <1>1, <1>2 DEF Own
<1>7. \A f \in Fields : InField(d, f)' =>
         \/ num'[d][f] \in Fds /\ table'[num'[d][f]] = d
         \/ d \in Socks /\ pc'[d] = "close" /\ num'[d][f] = -1
  <2> SUFFICES ASSUME NEW f \in Fields, InField(d, f)'
               PROVE  \/ num'[d][f] \in Fds /\ table'[num'[d][f]] = d
                      \/ d \in Socks /\ pc'[d] = "close" /\ num'[d][f] = -1
    BY DEF Fields
  <2>1. Owns(d, num[d][f]) \/ (d \in Socks /\ pc[d] = "close" /\ num[d][f] = -1)
    BY <1>1, <1>4 DEF Own
  <2> QED BY <1>2, <2>1 DEF Owns, Behaves, Spares
<1>8. \A f, g \in Fields : InField(d, f)' /\ InField(d, g)' /\ f # g => num'[d][f] # num'[d][g]
  BY <1>1, <1>2, <1>4 DEF Own
<1>9. InLocal(d)' => conn'[d] \in Fds /\ table'[conn'[d]] = d
  <2>1. InLocal(d) => Owns(d, conn[d])
    BY <1>1 DEF Own
  <2> QED BY <1>2, <1>4, <1>5, <2>1 DEF Owns, Behaves, Spares
<1>10. InLocal(d)' /\ InField(d, "fd")' => conn'[d] # num'[d]["fd"]
  BY <1>1, <1>2, <1>4, <1>5 DEF Own, Fields
<1> QED
  BY <1>6, <1>7, <1>8, <1>9, <1>10 DEF Own, Owns
-----------------------------------------------------------------------------
\* The steps of a file that touch no descriptor.
LEMMA QuietFileOwns ==
  ASSUME Inv, NEW c \in Files, Own(c), blame = {}, blame' = {},
         \/ \E w \in Wants : FileCreate(c, w)
         \/ FileOpenFails(c) \/ SetUpFails(c) \/ Map(c) \/ FileDestroy(c)
  PROVE  Own(c)' /\ Behaves(c)
<1> USE DEF Inv
<1>0. c \in Ctxs /\ c \notin Socks /\ pc[c] \in FileLabels
  BY DescriptorsAssumption DEF Ctxs, Labels
<1>1. ~ FileOpenFails(c) /\ ~ SetUpFails(c) /\ ~ Map(c)
  BY DEF FileOpenFails, SetUpFails, Map, Own
<1>2. CASE \E w \in Wants : FileCreate(c, w)
  <2>1. PICK w \in Wants : FileCreate(c, w)
    BY <1>2
  <2>2. w = {"file", "pipe"}
    BY <2>1 DEF FileCreate
  <2>3. /\ pc[c] = "none" /\ pc' = [pc EXCEPT ![c] = "open"]
        /\ want' = [want EXCEPT ![c] = w]
        /\ UNCHANGED <<table, num, conn>>
    BY <2>1, <2>2 DEF FileCreate, Goto
  <2>4. Behaves(c)
    BY <1>0, <2>3 DEF Behaves, Spares, TypeOK
  <2>5. Own(c)'
    BY <1>0, <2>2, <2>3 DEF Own, InField, InLocal, TypeOK
  <2> QED BY <2>4, <2>5
<1>3. CASE FileDestroy(c)
  <2>1. /\ pc[c] = "alive" /\ pc' = [pc EXCEPT ![c] = "close0"]
        /\ UNCHANGED <<table, num, want, conn>>
    BY <1>3 DEF FileDestroy, Goto
  <2>2. Behaves(c)
    BY <1>0, <2>1, FreeIsNobody DEF Behaves, Spares, TypeOK
  <2>3. Own(c)'
    BY <1>0, <2>1 DEF Own, Owns, InField, InLocal, TypeOK
  <2> QED BY <2>2, <2>3
<1> QED BY <1>1, <1>2, <1>3

\* open(2) of a file.
LEMMA FileOpenOwns ==
  ASSUME Inv, NEW c \in Files, Own(c), FileOpen(c)
  PROVE  Own(c)' /\ Behaves(c)
<1> USE DEF Inv
<1>0. c \in Ctxs /\ c \notin Socks /\ want[c] = {"file", "pipe"}
  BY DescriptorsAssumption DEF Ctxs, Own, FileOpen
<1>1. PICK n \in Fds : n = Lowest /\ table[n] = "free"
  BY LowestIsFree DEF FileOpen
<1>2. /\ pc[c] = "open" /\ pc' = [pc EXCEPT ![c] = "pipe"]
      /\ Open(n, c) /\ num' = [num EXCEPT ![c]["fd"] = n]
      /\ UNCHANGED <<want, conn>>
  BY <1>0, <1>1 DEF FileOpen, Goto
<1>3. Behaves(c)
  <2>1. \A m \in Fds : table[m] = c => table'[m] = c
    BY <1>1, <1>2 DEF Open, TypeOK
  <2> QED BY <1>0, <1>1, <1>2, <2>1, OpenSpares, FreeIsNobody DEF Behaves
<1>4. Own(c)'
  <2>1. table'[n] = c
    BY <1>1, <1>2 DEF Open, TypeOK
  <2> QED BY <1>0, <1>1, <1>2, <2>1 DEF Own, Owns, InField, InLocal, TypeOK, Fields
<1> QED BY <1>3, <1>4

\* pipe2(2).
LEMMA PipeOwns ==
  ASSUME Inv, NEW c \in Files, Own(c), Pipe(c)
  PROVE  Own(c)' /\ Behaves(c)
<1> USE DEF Inv
<1>0. c \in Ctxs /\ c \notin Socks
  BY DescriptorsAssumption DEF Ctxs
<1>1. PICK n \in Fds : n = Lowest /\ table[n] = "free"
  BY SecondIsFree DEF Pipe
<1>2. PICK m \in Fds : m = Min(Free \ {Lowest}) /\ table[m] = "free" /\ m # n
  BY <1>1, SecondIsFree DEF Pipe
<1>3. /\ pc[c] = "pipe" /\ pc' = [pc EXCEPT ![c] = "alive"]
      /\ table' = [table EXCEPT ![n] = c, ![m] = c]
      /\ num' = [num EXCEPT ![c]["pipe0"] = n, ![c]["pipe1"] = m]
      /\ UNCHANGED <<want, conn>>
  BY <1>1, <1>2 DEF Pipe, Goto
<1>4. /\ table'[n] = c /\ table'[m] = c
      /\ \A k \in Fds : k # n /\ k # m => table'[k] = table[k]
  BY <1>1, <1>2, <1>3 DEF TypeOK
<1>5. 0 \in Fds
  BY DescriptorsAssumption DEF Fds
<1>6. Behaves(c)
  BY <1>0, <1>1, <1>2, <1>3, <1>4, <1>5, FreeIsNobody DEF Behaves, Spares
<1>7. num[c]["fd"] \in Fds /\ table[num[c]["fd"]] = c
  BY <1>0, <1>3 DEF Own, Owns, InField, Fields
<1>8. /\ num'[c]["fd"] = num[c]["fd"] /\ num'[c]["pipe0"] = n /\ num'[c]["pipe1"] = m
      /\ num[c]["fd"] # n /\ num[c]["fd"] # m
  BY <1>0, <1>1, <1>2, <1>3, <1>7, FreeIsNobody DEF TypeOK, Fields
<1>9. Own(c)'
  <2>1. pc'[c] = "alive" /\ want'[c] = {"file", "pipe"}
    BY <1>0, <1>3 DEF Own, TypeOK
  <2>2. ~ InLocal(c)'
    BY <1>0 DEF InLocal
  <2>3. \A f \in Fields : num'[c][f] \in Fds /\ table'[num'[c][f]] = c
    BY <1>4, <1>7, <1>8 DEF Fields
  <2>4. \A f, g \in Fields : f # g => num'[c][f] # num'[c][g]
    BY <1>2, <1>8 DEF Fields
  <2> QED BY <2>1, <2>2, <2>3, <2>4 DEF Own, Owns
<1> QED BY <1>6, <1>9

\* The two closes of the pipe.
LEMMA ClosePipeOwns ==
  ASSUME Inv, NEW c \in Files, Own(c), ClosePipe(c)
  PROVE  Own(c)' /\ Behaves(c)
<1> USE DEF Inv
<1>0. c \in Ctxs /\ c \notin Socks
  BY DescriptorsAssumption DEF Ctxs
<1>1. PICK f \in {"pipe0", "pipe1"} :
        /\ pc[c] = IF f = "pipe0" THEN "close0" ELSE "close1"
        /\ Close(num[c][f])
        /\ pc' = [pc EXCEPT ![c] = IF f = "pipe0" THEN "close1" ELSE "close"]
  BY DEF ClosePipe, Goto
<1>2. UNCHANGED <<num, want, conn>>
  BY DEF ClosePipe
<1>3. PICK n : n = num[c][f]
  OBVIOUS
<1>4. Owns(c, n) /\ InField(c, f)
  BY <1>0, <1>1, <1>3 DEF Own, InField, Fields
<1>5. Spares(c) /\ \A m \in Fds : m # n => table'[m] = table[m]
  BY <1>0, <1>1, <1>3, <1>4, CloseSpares
<1>6. pc'[c] # pc[c]
  BY <1>0, <1>1 DEF TypeOK
<1>7. Behaves(c)
  BY <1>2, <1>5, <1>6 DEF Behaves
<1>8. \A g \in Fields : InField(c, g)' => InField(c, g) /\ g # f
  BY <1>0, <1>1 DEF InField, TypeOK, Fields
<1>9. \A g \in Fields : InField(c, g)' => Owns(c, num[c][g]) /\ num[c][g] # n
  BY <1>0, <1>1, <1>3, <1>4, <1>8 DEF Own, Fields
<1>10. Own(c)'
  <2>1. pc'[c] \in {"close1", "close"} /\ want'[c] = {"file", "pipe"}
    BY <1>0, <1>1, <1>2 DEF Own, TypeOK
  <2>2. ~ InLocal(c)'
    BY <1>0 DEF InLocal
  <2>3. \A g \in Fields : InField(c, g)' => num'[c][g] \in Fds /\ table'[num'[c][g]] = c
    BY <1>2, <1>5, <1>9 DEF Owns
  <2>4. \A g, h \in Fields : InField(c, g)' /\ InField(c, h)' /\ g # h => num'[c][g] # num'[c][h]
    BY <1>2, <1>8 DEF Own
  <2> QED BY <2>1, <2>2, <2>3, <2>4 DEF Own, Owns
<1> QED BY <1>7, <1>10

\* The last close of every destroy, that of fd.
LEMMA CloseFdOwns ==
  ASSUME Inv, NEW c \in Ctxs, Own(c), CloseFd(c)
  PROVE  Own(c)' /\ Behaves(c)
<1> USE DEF Inv
<1>1. PICK n : n = num[c]["fd"]
  OBVIOUS
<1>2. /\ pc[c] = "close" /\ Close(n) /\ pc' = [pc EXCEPT ![c] = "none"]
      /\ want' = [d \in Files |-> IF d = c THEN {} ELSE want[d]]
  BY <1>1 DEF CloseFd, Goto
<1>3. Owns(c, n) \/ n = -1
  BY <1>1, <1>2 DEF Own, InField, Fields
<1>4. pc'[c] = "none"
  BY <1>2 DEF TypeOK
<1>5. Behaves(c)
  BY <1>2, <1>3, <1>4, CloseSpares DEF Behaves
<1>6. Own(c)'
  BY <1>4 DEF Own, InField, InLocal
<1> QED BY <1>5, <1>6

\* All steps of a file context that are not blamed.
LEMMA FileStepOwns ==
  ASSUME Inv, NEW c \in Files, Own(c), blame = {}, blame' = {}, FileStep(c)
  PROVE  Own(c)' /\ Behaves(c)
<1>1. c \in Ctxs
  BY DEF Ctxs
<1> QED
  BY <1>1, QuietFileOwns, FileOpenOwns, PipeOwns, ClosePipeOwns, CloseFdOwns DEF FileStep
-----------------------------------------------------------------------------
\* The steps of a socket.  Of its fields only fd is ever used.
LEMMA SockOwns ==
  ASSUME NEW c \in Socks, pc'[c] \notin {"map", "closeOptions"},
         InField(c, "fd")' => \/ num'[c]["fd"] \in Fds /\ table'[num'[c]["fd"]] = c
                              \/ pc'[c] = "close" /\ num'[c]["fd"] = -1,
         InLocal(c)' => conn'[c] \in Fds /\ table'[conn'[c]] = c,
         InLocal(c)' /\ InField(c, "fd")' => conn'[c] # num'[c]["fd"]
  PROVE  Own(c)'
<1>1. c \notin Files
  BY DescriptorsAssumption
<1>2. \A f \in Fields : InField(c, f)' => f = "fd"
  BY <1>1 DEF InField
<1> QED BY <1>1, <1>2 DEF Own, Owns

\* It goes on without a change to a descriptor or a number.
LEMMA MoveOwns ==
  ASSUME Inv, NEW c \in Socks, Own(c), NEW label \in SockLabels \ {"closeOptions"},
         Goto(c, label), UNCHANGED <<table, num, want, conn>>, pc[c] # "close",
         InField(c, "fd")' => InField(c, "fd"), InLocal(c)' => InLocal(c)
  PROVE  Own(c)' /\ Behaves(c)
<1>1. pc'[c] = label
  BY DEF Inv, TypeOK, Goto, Ctxs
<1>2. Own(c)'
  BY <1>1, SockOwns DEF Own, Owns, SockLabels, Fields
<1>3. Behaves(c)
  BY FreeIsNobody DEF Behaves, Spares, Ctxs
<1> QED BY <1>2, <1>3

\* Opening a free number takes nothing from others.
LEMMA OpenedIsIts ==
  ASSUME Inv, NEW c \in Socks, NEW n \in Fds, table[n] = "free", Open(n, c)
  PROVE  Behaves(c) /\ table'[n] = c /\ \A m \in Fds : m # n => table'[m] = table[m]
<1>1. c \in Ctxs
  BY DEF Ctxs
<1>2. Spares(c) /\ \A m \in Fds : m # n => table'[m] = table[m]
  BY <1>1, OpenSpares DEF Inv
<1>3. table'[n] = c
  BY DEF Open, Inv, TypeOK
<1>4. \A m \in Fds : table'[m] = "free" => table[m] # c
  BY <1>1, <1>2, <1>3, FreeIsNobody
<1> QED BY <1>2, <1>3, <1>4 DEF Behaves

\* Closing one's own number closes nothing of others.
LEMMA ClosedWasIts ==
  ASSUME Inv, NEW c \in Socks, NEW n, Owns(c, n), Close(n), NEW label \in SockLabels,
         Goto(c, label), label # pc[c]
  PROVE  Behaves(c) /\ \A m \in Fds : m # n => table'[m] = table[m]
<1>1. c \in Ctxs
  BY DEF Ctxs
<1>2. Spares(c) /\ \A m \in Fds : m # n => table'[m] = table[m]
  BY <1>1, CloseSpares DEF Inv
<1>3. pc'[c] # pc[c]
  BY <1>1 DEF Inv, TypeOK, Goto
<1> QED BY <1>2, <1>3 DEF Behaves

\* The create of a stream socket: socket(2).
LEMMA CreateOwns ==
  ASSUME Inv, NEW c \in Socks, Own(c), NEW k \in Kinds, NEW next \in {"options", "setup"},
         Create(c, k, next)
  PROVE  Own(c)' /\ Behaves(c)
<1>1. c \in Ctxs /\ pc[c] = "none" /\ UNCHANGED <<want, conn>>
  BY DEF Ctxs, Create
<1>2. CASE Free # {} /\ Open(Lowest, c) /\ num' = [num EXCEPT ![c]["fd"] = Lowest] /\ Goto(c, next)
  <2>1. PICK n \in Fds : n = Lowest /\ table[n] = "free"
    BY <1>2, LowestIsFree
  <2>2. Open(n, c) /\ num'[c]["fd"] = n /\ pc'[c] = next
    BY <1>1, <1>2, <2>1 DEF Inv, TypeOK, Fields, Goto
  <2>3. Behaves(c) /\ table'[n] = c
    BY <1>1, <2>1, <2>2, OpenedIsIts
  <2>4. ~ InLocal(c)'
    BY <2>2 DEF InLocal
  <2> QED BY <2>1, <2>2, <2>3, <2>4, SockOwns
<1>3. CASE num' = [num EXCEPT ![c]["fd"] = -1] /\ Goto(c, "close") /\ UNCHANGED table
  <2>1. num'[c]["fd"] = -1 /\ pc'[c] = "close"
    BY <1>1, <1>3 DEF Inv, TypeOK, Fields, Goto
  <2>2. ~ InLocal(c)'
    BY <2>1 DEF InLocal
  <2>3. Behaves(c)
    BY <1>1, <1>3, FreeIsNobody DEF Behaves, Spares
  <2> QED BY <2>1, <2>2, <2>3, SockOwns
<1> QED BY <1>2, <1>3 DEF Create

\* p_set_sock_opts, while it does not fail.
LEMMA OptionsOwn ==
  ASSUME Inv, NEW c \in Socks, Own(c), blame' = {}, NEW k \in Kinds,
         NEW next \in {"setup", "cid"}, Options(c, k, next)
  PROVE  Own(c)' /\ Behaves(c)
<1>1. c \in Ctxs /\ pc[c] = "options" /\ Goto(c, next) /\ UNCHANGED <<table, num, want, conn>>
  BY DEF Options, Ctxs
<1>2. pc'[c] = next
  BY <1>1 DEF Inv, TypeOK, Goto
<1> QED BY <1>1, <1>2, MoveOwns DEF InField, InLocal, SockLabels

\* /dev/vsock is opened.
LEMMA OpenCidOwns ==
  ASSUME Inv, NEW c \in Socks, Own(c), OpenCid(c)
  PROVE  Own(c)' /\ Behaves(c)
<1>1. c \in Ctxs /\ pc[c] = "cid" /\ UNCHANGED <<num, want>>
  BY DEF OpenCid, Ctxs
<1>2. CASE Free # {} /\ Open(Lowest, c) /\ conn' = [conn EXCEPT ![c] = Lowest] /\ Goto(c, "closeCid")
  <2>1. PICK n \in Fds : n = Lowest /\ table[n] = "free"
    BY <1>2, LowestIsFree
  <2>2. Open(n, c) /\ conn'[c] = n /\ pc'[c] = "closeCid"
    BY <1>1, <1>2, <2>1 DEF Inv, TypeOK, Goto
  <2>3. Behaves(c) /\ table'[n] = c /\ \A m \in Fds : m # n => table'[m] = table[m]
    BY <1>1, <2>1, <2>2, OpenedIsIts
  <2>4. Owns(c, num[c]["fd"])
    BY <1>1 DEF Own, InField, Fields
  <2>5. num'[c]["fd"] \in Fds /\ table'[num'[c]["fd"]] = c /\ n # num'[c]["fd"]
    BY <1>1, <2>1, <2>3, <2>4, FreeIsNobody DEF Owns
  <2> QED BY <2>1, <2>2, <2>3, <2>5, SockOwns
<1>3. CASE Goto(c, "setup") /\ UNCHANGED <<table, conn>>
  <2>1. pc'[c] = "setup"
    BY <1>1, <1>3 DEF Inv, TypeOK, Goto
  <2> QED BY <1>1, <1>3, <2>1, MoveOwns DEF InField, InLocal, SockLabels
<1> QED BY <1>2, <1>3 DEF OpenCid

\* The descriptor in the local variable is closed, and the one in the field stays.
LEMMA CloseLocalOwns ==
  ASSUME Inv, NEW c \in Socks, Own(c), InLocal(c), InField(c, "fd"), Close(conn[c]),
         NEW label \in {"setup", "alive"}, Goto(c, label), UNCHANGED <<num, want>>
  PROVE  Own(c)' /\ Behaves(c)
<1>1. PICK n : n = conn[c]
  OBVIOUS
<1>2. Owns(c, n) /\ Owns(c, num[c]["fd"]) /\ num[c]["fd"] # n
  BY <1>1 DEF Own, Fields, InLocal
<1>3. pc'[c] = label /\ label # pc[c] /\ label \in SockLabels
  BY DEF Inv, TypeOK, Goto, InLocal, SockLabels, Ctxs
<1>4. Behaves(c) /\ \A m \in Fds : m # n => table'[m] = table[m]
  BY <1>1, <1>2, <1>3, ClosedWasIts
<1>5. num'[c]["fd"] \in Fds /\ table'[num'[c]["fd"]] = c
  BY <1>2, <1>4 DEF Owns
<1>6. ~ InLocal(c)'
  BY <1>3 DEF InLocal
<1> QED BY <1>3, <1>4, <1>5, <1>6, SockOwns

\* And closed, as what a failed accept has opened.
LEMMA CloseCidOwns ==
  ASSUME Inv, NEW c \in Socks, Own(c), CloseCid(c) \/ AcceptFails(c)
  PROVE  Own(c)' /\ Behaves(c)
<1>1. InLocal(c) /\ InField(c, "fd") /\ Close(conn[c]) /\ UNCHANGED <<num, want>>
  BY DEF CloseCid, AcceptFails, InLocal, InField
<1>2. Goto(c, "setup") \/ Goto(c, "alive")
  BY DEF CloseCid, AcceptFails
<1> QED BY <1>1, <1>2, CloseLocalOwns

\* The rest of a create.
LEMMA SetUpOwns ==
  ASSUME Inv, NEW c \in Socks, Own(c), NEW k \in Kinds, SetUp(c, k, "close")
  PROVE  Own(c)' /\ Behaves(c)
<1>1. c \in Ctxs /\ pc[c] = "setup" /\ UNCHANGED <<table, num, want, conn>>
  BY DEF SetUp, Ctxs
<1>2. PICK label \in {"alive", "close"} : Goto(c, label)
  BY DEF SetUp
<1>3. pc'[c] = label
  BY <1>1, <1>2 DEF Inv, TypeOK, Goto
<1> QED BY <1>1, <1>2, <1>3, MoveOwns DEF InField, InLocal, SockLabels

\* The create of a datagram socket.
LEMMA DatagramSocketOwns ==
  ASSUME Inv, NEW c \in Socks, Own(c), NEW k \in Kinds, DatagramSocket(c, k)
  PROVE  Own(c)' /\ Behaves(c)
<1>1. c \in Ctxs /\ pc[c] = "none" /\ UNCHANGED want
  BY DEF Ctxs, DatagramSocket
<1>2. CASE Free # {} /\ Open(Lowest, c) /\ conn' = [conn EXCEPT ![c] = Lowest] /\ Goto(c, "fdOptions")
  <2>1. PICK n \in Fds : n = Lowest /\ table[n] = "free"
    BY <1>2, LowestIsFree
  <2>2. Open(n, c) /\ conn'[c] = n /\ pc'[c] = "fdOptions"
    BY <1>1, <1>2, <2>1 DEF Inv, TypeOK, Goto
  <2>3. Behaves(c) /\ table'[n] = c
    BY <1>1, <2>1, <2>2, OpenedIsIts
  <2>4. ~ InField(c, "fd")'
    BY <2>2 DEF InField
  <2> QED BY <2>1, <2>2, <2>3, <2>4, SockOwns
<1>3. CASE num' = [num EXCEPT ![c]["fd"] = -1] /\ Goto(c, "close") /\ UNCHANGED <<table, conn>>
  <2>1. num'[c]["fd"] = -1 /\ pc'[c] = "close"
    BY <1>1, <1>3 DEF Inv, TypeOK, Fields, Goto
  <2>2. ~ InLocal(c)'
    BY <2>1 DEF InLocal
  <2>3. Behaves(c)
    BY <1>1, <1>3, FreeIsNobody DEF Behaves, Spares
  <2> QED BY <2>1, <2>2, <2>3, SockOwns
<1> QED BY <1>2, <1>3 DEF DatagramSocket

\* The number is stored when its options are set.
LEMMA FdOptionsOwn ==
  ASSUME Inv, NEW c \in Socks, Own(c), NEW k \in Kinds, NEW next \in {"setup", "cid"},
         FdOptions(c, k, next)
  PROVE  Own(c)' /\ Behaves(c)
<1>1. c \in Ctxs /\ pc[c] = "fdOptions" /\ UNCHANGED <<table, want>>
  BY DEF Ctxs, FdOptions
<1>2. CASE /\ num' = [num EXCEPT ![c]["fd"] = conn[c]] /\ conn' = [conn EXCEPT ![c] = -1]
           /\ Goto(c, next)
  <2>1. PICK n : n = conn[c]
    OBVIOUS
  <2>2. Owns(c, n)
    BY <1>1, <2>1 DEF Own, InLocal
  <2>3. num'[c]["fd"] = n /\ pc'[c] = next
    BY <1>1, <1>2, <2>1 DEF Inv, TypeOK, Fields, Goto
  <2>4. num'[c]["fd"] \in Fds /\ table'[num'[c]["fd"]] = c
    BY <1>1, <2>2, <2>3 DEF Owns
  <2>5. ~ InLocal(c)'
    BY <2>3 DEF InLocal
  <2>6. Behaves(c)
    BY <1>1, FreeIsNobody DEF Behaves, Spares
  <2> QED BY <2>3, <2>4, <2>5, <2>6, SockOwns
<1>3. CASE Goto(c, "closeFd") /\ UNCHANGED <<num, conn>>
  <2>1. pc'[c] = "closeFd"
    BY <1>1, <1>3 DEF Inv, TypeOK, Goto
  <2> QED BY <1>1, <1>3, <2>1, MoveOwns DEF InField, InLocal, SockLabels
<1> QED BY <1>2, <1>3 DEF FdOptions

\* Or it is closed.
LEMMA CloseFailedFdOwns ==
  ASSUME Inv, NEW c \in Socks, Own(c), CloseFailedFd(c)
  PROVE  Own(c)' /\ Behaves(c)
<1>1. PICK n : n = conn[c]
  OBVIOUS
<1>2. c \in Ctxs /\ pc[c] = "closeFd" /\ Close(n) /\ Goto(c, "close") /\ UNCHANGED want
  BY <1>1 DEF Ctxs, CloseFailedFd
<1>3. Owns(c, n)
  BY <1>1, <1>2 DEF Own, InLocal
<1>4. num'[c]["fd"] = -1 /\ pc'[c] = "close"
  BY <1>2 DEF CloseFailedFd, Inv, TypeOK, Fields, Goto
<1>5. Behaves(c)
  BY <1>2, <1>3, ClosedWasIts DEF SockLabels
<1>6. ~ InLocal(c)'
  BY <1>4 DEF InLocal
<1> QED BY <1>4, <1>5, <1>6, SockOwns

\* accept(2), or the second socket of a datagram accept.
LEMMA AcceptOwns ==
  ASSUME Inv, NEW c \in Socks, Own(c), NEW k \in Kinds, Accept(c, k)
  PROVE  Own(c)' /\ Behaves(c)
<1>1. c \in Ctxs /\ pc[c] = "alive" /\ UNCHANGED <<num, want>> /\ Free # {}
      /\ Open(Lowest, c) /\ conn' = [conn EXCEPT ![c] = Lowest] /\ Goto(c, "accepted")
  BY DEF Accept, Ctxs
<1>2. PICK n \in Fds : n = Lowest /\ table[n] = "free"
  BY <1>1, LowestIsFree
<1>3. Open(n, c) /\ conn'[c] = n /\ pc'[c] = "accepted"
  BY <1>1, <1>2 DEF Inv, TypeOK, Goto
<1>4. Behaves(c) /\ table'[n] = c /\ \A m \in Fds : m # n => table'[m] = table[m]
  BY <1>1, <1>2, <1>3, OpenedIsIts
<1>5. Owns(c, num[c]["fd"])
  BY <1>1 DEF Own, InField, Fields
<1>6. num'[c]["fd"] \in Fds /\ table'[num'[c]["fd"]] = c /\ n # num'[c]["fd"]
  BY <1>1, <1>2, <1>4, <1>5, FreeIsNobody DEF Owns
<1> QED BY <1>2, <1>3, <1>4, <1>6, SockOwns

\* accept(2) of a vsock stream socket.
LEMMA VsockAcceptOwns ==
  ASSUME Inv, NEW c \in Socks, Own(c), VsockAccept(c)
  PROVE  Own(c)' /\ Behaves(c)
<1>1. c \in Ctxs /\ pc[c] = "alive" /\ UNCHANGED <<num, want, pc, conn>>
  BY DEF VsockAccept, Ctxs
<1>2. PICK n \in Fds : table[n] = "free" /\ Open(n, "program")
  BY LowestIsFree DEF VsockAccept
<1>3. Spares(c) /\ \A m \in Fds : m # n => table'[m] = table[m]
  BY <1>1, <1>2, OpenSpares DEF Inv
<1>4. Behaves(c)
  <2>1. \A m \in Fds : table[m] = c => table'[m] = c
    BY <1>1, <1>2, <1>3, FreeIsNobody
  <2> QED BY <1>1, <1>3, <2>1, FreeIsNobody DEF Behaves
<1>5. Owns(c, num[c]["fd"])
  BY <1>1 DEF Own, InField, Fields
<1>6. num'[c]["fd"] \in Fds /\ table'[num'[c]["fd"]] = c
  BY <1>1, <1>2, <1>3, <1>5, FreeIsNobody DEF Owns
<1>7. ~ InLocal(c)' /\ pc'[c] = "alive"
  BY <1>1 DEF InLocal
<1> QED BY <1>4, <1>6, <1>7, SockOwns

\* What accept made becomes the program's.
LEMMA AcceptedOwns ==
  ASSUME Inv, NEW c \in Socks, Own(c), Accepted(c)
  PROVE  Own(c)' /\ Behaves(c)
<1>1. PICK n : n = conn[c]
  OBVIOUS
<1>2. c \in Ctxs /\ pc[c] = "accepted" /\ Open(n, "program") /\ Goto(c, "alive")
      /\ UNCHANGED <<num, want>>
  BY <1>1 DEF Ctxs, Accepted
<1>3. Owns(c, n) /\ Owns(c, num[c]["fd"]) /\ num[c]["fd"] # n
  BY <1>1, <1>2 DEF Own, InLocal, InField, Fields
<1>4. table'[n] = "program" /\ \A m \in Fds : m # n => table'[m] = table[m]
  BY <1>2, <1>3 DEF Open, Owns, Inv, TypeOK
<1>5. pc'[c] = "alive" /\ 0 \in Fds
  BY <1>2, DescriptorsAssumption DEF Inv, TypeOK, Goto, Fds
<1>6. Behaves(c)
  BY <1>2, <1>3, <1>4, <1>5 DEF Behaves, Spares, Owns
<1>7. num'[c]["fd"] \in Fds /\ table'[num'[c]["fd"]] = c
  BY <1>2, <1>3, <1>4 DEF Owns
<1>8. ~ InLocal(c)'
  BY <1>5 DEF InLocal
<1> QED BY <1>5, <1>6, <1>7, <1>8, SockOwns

\* The destroy of a socket.
LEMMA SockDestroyOwns ==
  ASSUME Inv, NEW c \in Socks, Own(c), SockDestroy(c)
  PROVE  Own(c)' /\ Behaves(c)
<1>1. c \in Ctxs /\ pc[c] = "alive" /\ Goto(c, "close") /\ UNCHANGED <<table, num, want, conn>>
  BY DEF SockDestroy, Ctxs
<1>2. pc'[c] = "close"
  BY <1>1 DEF Inv, TypeOK, Goto
<1> QED BY <1>1, <1>2, MoveOwns DEF InField, InLocal, SockLabels

\* All steps of a socket context that are not blamed.
LEMMA SockStepOwns ==
  ASSUME Inv, NEW c \in Socks, Own(c), blame = {}, blame' = {}, SockStep(c)
  PROVE  Own(c)' /\ Behaves(c)
<1>0. c \in Ctxs
  BY DEF Ctxs
<1> USE DEF Kinds
<1>1. CASE TcpSocket(c) \/ UnixSocket(c) \/ VsockSocket(c) \/ CanSocket(c)
  BY <1>1, CreateOwns DEF TcpSocket, UnixSocket, VsockSocket, CanSocket
<1>2. CASE TcpOptions(c) \/ UnixOptions(c) \/ VsockOptions(c)
  BY <1>2, OptionsOwn DEF TcpOptions, UnixOptions, VsockOptions
<1>3. ~ CloseOptions(c)
  BY DEF CloseOptions, Own
<1>4. CASE OpenCid(c) \/ CloseCid(c)
  BY <1>4, OpenCidOwns, CloseCidOwns
<1>5. CASE \/ TcpSetUp(c) \/ UnixSetUp(c) \/ VsockSetUp(c) \/ CanSetUp(c)
           \/ UdpSetUp(c) \/ UnixUdpSetUp(c) \/ VsockUdpSetUp(c)
  BY <1>5, SetUpOwns
     DEF TcpSetUp, UnixSetUp, VsockSetUp, CanSetUp, UdpSetUp, UnixUdpSetUp, VsockUdpSetUp
<1>6. CASE UdpSocket(c) \/ UnixUdpSocket(c) \/ VsockUdpSocket(c)
  BY <1>6, DatagramSocketOwns DEF UdpSocket, UnixUdpSocket, VsockUdpSocket
<1>7. CASE UdpOptions(c) \/ UnixUdpOptions(c) \/ VsockUdpOptions(c) \/ CloseFailedFd(c)
  BY <1>7, FdOptionsOwn, CloseFailedFdOwns
     DEF UdpOptions, UnixUdpOptions, VsockUdpOptions
<1>8. CASE \/ TcpAccept(c) \/ UnixAccept(c) \/ VsockAccept(c)
           \/ UdpServerAccept(c) \/ VsockUdpServerAccept(c)
  BY <1>8, AcceptOwns, VsockAcceptOwns
     DEF TcpAccept, UnixAccept, UdpServerAccept, VsockUdpServerAccept
<1>9. CASE KeepAlive(c) \/ UdpAcceptSetUp(c) \/ VsockUdpAcceptSetUp(c)
  BY <1>9, AcceptedOwns, CloseCidOwns
     DEF KeepAlive, UdpAcceptSetUp, VsockUdpAcceptSetUp
<1>10. CASE SockDestroy(c) \/ CloseFd(c)
  BY <1>0, <1>10, SockDestroyOwns, CloseFdOwns
<1> QED
  BY <1>1, <1>2, <1>3, <1>4, <1>5, <1>6, <1>7, <1>8, <1>9, <1>10 DEF SockStep
-----------------------------------------------------------------------------
\* The variables of the other contexts.
LEMMA FileFrame ==
  ASSUME Inv, NEW c \in Files, FileStep(c)
  PROVE  Frame(c)
<1> USE DEF Inv, TypeOK, Frame, Goto
<1>1. CASE \E w \in Wants : FileCreate(c, w)
  BY <1>1 DEF FileCreate
<1>2. CASE FileOpen(c) \/ FileOpenFails(c) \/ SetUpFails(c) \/ Map(c) \/ FileDestroy(c)
  BY <1>2 DEF FileOpen, FileOpenFails, SetUpFails, Map, FileDestroy
<1>3. CASE Pipe(c)
  BY <1>3 DEF Pipe
<1>4. CASE ClosePipe(c)
  BY <1>4 DEF ClosePipe
<1>5. CASE CloseFd(c)
  BY <1>5 DEF CloseFd
<1> QED BY <1>1, <1>2, <1>3, <1>4, <1>5 DEF FileStep

\* A step of a socket context leaves the fields of the others alone.
LEMMA SockFrame ==
  ASSUME Inv, NEW c \in Socks, SockStep(c)
  PROVE  Frame(c)
<1> USE DEF Inv, TypeOK, Frame, Goto
<1>1. CASE TcpSocket(c) \/ UnixSocket(c) \/ VsockSocket(c) \/ CanSocket(c)
  BY <1>1 DEF TcpSocket, UnixSocket, VsockSocket, CanSocket, Create
<1>2. CASE TcpOptions(c) \/ UnixOptions(c) \/ VsockOptions(c)
  BY <1>2 DEF TcpOptions, UnixOptions, VsockOptions, Options
<1>3. CASE CloseOptions(c) \/ OpenCid(c) \/ CloseCid(c)
  BY <1>3 DEF CloseOptions, OpenCid, CloseCid
<1>4. CASE \/ TcpSetUp(c) \/ UnixSetUp(c) \/ VsockSetUp(c) \/ CanSetUp(c)
           \/ UdpSetUp(c) \/ UnixUdpSetUp(c) \/ VsockUdpSetUp(c)
  BY <1>4 DEF TcpSetUp, UnixSetUp, VsockSetUp, CanSetUp, UdpSetUp, UnixUdpSetUp,
              VsockUdpSetUp, SetUp
<1>5. CASE UdpSocket(c) \/ UnixUdpSocket(c) \/ VsockUdpSocket(c)
  BY <1>5 DEF UdpSocket, UnixUdpSocket, VsockUdpSocket, DatagramSocket
<1>6. CASE UdpOptions(c) \/ UnixUdpOptions(c) \/ VsockUdpOptions(c)
  BY <1>6 DEF UdpOptions, UnixUdpOptions, VsockUdpOptions, FdOptions
<1>7. CASE CloseFailedFd(c) \/ VsockAccept(c) \/ SockDestroy(c)
  BY <1>7 DEF CloseFailedFd, VsockAccept, SockDestroy
<1>8. CASE TcpAccept(c) \/ UnixAccept(c) \/ UdpServerAccept(c) \/ VsockUdpServerAccept(c)
  BY <1>8 DEF TcpAccept, UnixAccept, UdpServerAccept, VsockUdpServerAccept, Accept
<1>9. CASE KeepAlive(c) \/ UdpAcceptSetUp(c) \/ VsockUdpAcceptSetUp(c)
  BY <1>9 DEF KeepAlive, UdpAcceptSetUp, VsockUdpAcceptSetUp, Accepted, AcceptFails
<1>10. CASE CloseFd(c)
  BY <1>10 DEF CloseFd
<1> QED
  BY <1>1, <1>2, <1>3, <1>4, <1>5, <1>6, <1>7, <1>8, <1>9, <1>10 DEF SockStep

\* No step takes a blame back.
LEMMA BlameStays ==
  ASSUME Next
  PROVE  blame \subseteq blame'
<1>1. ASSUME NEW c \in Files, FileStep(c) PROVE blame \subseteq blame'
  BY <1>1 DEF FileStep, FileCreate, FileOpen, FileOpenFails, Pipe, SetUpFails, Map,
              FileDestroy, ClosePipe, CloseFd
<1>2. ASSUME NEW c \in Socks, SockStep(c) PROVE blame \subseteq blame'
  <2>1. CASE \/ TcpSocket(c) \/ UnixSocket(c) \/ VsockSocket(c) \/ CanSocket(c)
             \/ UdpSocket(c) \/ UnixUdpSocket(c) \/ VsockUdpSocket(c)
    BY <2>1 DEF TcpSocket, UnixSocket, VsockSocket, CanSocket, Create,
                UdpSocket, UnixUdpSocket, VsockUdpSocket, DatagramSocket
  <2>2. CASE \/ TcpOptions(c) \/ UnixOptions(c) \/ VsockOptions(c)
             \/ UdpOptions(c) \/ UnixUdpOptions(c) \/ VsockUdpOptions(c)
    BY <2>2 DEF TcpOptions, UnixOptions, VsockOptions, Options,
                UdpOptions, UnixUdpOptions, VsockUdpOptions, FdOptions
  <2>3. CASE \/ TcpSetUp(c) \/ UnixSetUp(c) \/ VsockSetUp(c) \/ CanSetUp(c)
             \/ UdpSetUp(c) \/ UnixUdpSetUp(c) \/ VsockUdpSetUp(c)
    BY <2>3 DEF TcpSetUp, UnixSetUp, VsockSetUp, CanSetUp, UdpSetUp, UnixUdpSetUp,
                VsockUdpSetUp, SetUp
  <2>4. CASE \/ CloseOptions(c) \/ OpenCid(c) \/ CloseCid(c) \/ CloseFailedFd(c)
             \/ SockDestroy(c) \/ CloseFd(c)
    BY <2>4 DEF CloseOptions, OpenCid, CloseCid, CloseFailedFd, SockDestroy, CloseFd
  <2>5. CASE \/ TcpAccept(c) \/ UnixAccept(c) \/ VsockAccept(c)
             \/ UdpServerAccept(c) \/ VsockUdpServerAccept(c)
             \/ KeepAlive(c) \/ UdpAcceptSetUp(c) \/ VsockUdpAcceptSetUp(c)
    BY <2>5 DEF TcpAccept, UnixAccept, VsockAccept, UdpServerAccept, VsockUdpServerAccept,
                Accept, KeepAlive, UdpAcceptSetUp, VsockUdpAcceptSetUp, Accepted, AcceptFails
  <2> QED BY <1>2, <2>1, <2>2, <2>3, <2>4, <2>5 DEF SockStep
<1>3. CASE Program
  BY <1>3 DEF Program
<1> QED BY <1>1, <1>2, <1>3 DEF Next

\* What the step of a context that behaves means for all the descriptors.
LEMMA NobodyRobbed ==
  ASSUME NEW c \in Ctxs, Behaves(c)
  PROVE  ClosedByOthers = {} /\ (table[0] = "program" => table'[0] = "program")
<1>1. ASSUME NEW n \in Fds, table[n] \in Ctxs, table'[n] = "free", pc'[table[n]] = pc[table[n]]
      PROVE  FALSE
  <2>1. CASE table[n] = c
    BY <1>1, <2>1 DEF Behaves
  <2>2. CASE table[n] # c
    BY <1>1, <2>2, FreeIsNobody DEF Behaves, Spares
  <2> QED BY <2>1, <2>2
<1> QED BY <1>1 DEF ClosedByOthers, Behaves, Spares

\* The program closes what accept gave it.
LEMMA ProgramOwns ==
  ASSUME Inv, OwnInv, blame = {}, Program
  PROVE  /\ OwnInv' /\ ClosedByOthers = {}
         /\ table[0] = "program" => table'[0] = "program"
<1>1. PICK n \in Fds \ {0} : table[n] = "program" /\ Close(n)
  BY DEF Program
<1>2. UNCHANGED <<num, want, pc, conn>>
  BY DEF Program
<1>3. \A m \in Fds : table'[m] = IF m = n THEN "free" ELSE table[m]
  BY <1>1 DEF Close
<1>4. \A c \in Ctxs : \A m \in Fds : table[m] = c => table'[m] = c
  BY <1>1, <1>3, FreeIsNobody
<1>5. 0 \in Fds /\ n # 0
  BY <1>1, DescriptorsAssumption DEF Fds
<1>6. ClosedByOthers = {}
  BY <1>4, FreeIsNobody DEF ClosedByOthers
<1>7. ASSUME NEW c \in Ctxs PROVE Own(c)'
  <2>1. Own(c)
    BY DEF OwnInv
  <2> QED BY <1>2, <1>4, <2>1 DEF Own, Owns, InField, InLocal
<1> QED BY <1>3, <1>5, <1>6, <1>7 DEF OwnInv

\* One step: the invariant stays, and nobody is robbed.
LEMMA OwnStep ==
  ASSUME Inv, OwnInv, Next, blame' = {}
  PROVE  /\ OwnInv' /\ ClosedByOthers = {}
         /\ table[0] = "program" => table'[0] = "program"
<1>1. blame = {}
  BY BlameStays
<1>2. ASSUME NEW c \in Files, FileStep(c)
      PROVE  /\ OwnInv' /\ ClosedByOthers = {}
             /\ table[0] = "program" => table'[0] = "program"
  <2>1. c \in Ctxs /\ Own(c)
    BY <1>1 DEF Ctxs, OwnInv
  <2>2. Own(c)' /\ Behaves(c) /\ Frame(c)
    BY <1>1, <1>2, <2>1, FileStepOwns, FileFrame
  <2> QED BY <1>1, <2>1, <2>2, OthersOwn, NobodyRobbed
<1>3. ASSUME NEW c \in Socks, SockStep(c)
      PROVE  /\ OwnInv' /\ ClosedByOthers = {}
             /\ table[0] = "program" => table'[0] = "program"
  <2>1. c \in Ctxs /\ Own(c)
    BY <1>1 DEF Ctxs, OwnInv
  <2>2. Own(c)' /\ Behaves(c) /\ Frame(c)
    BY <1>1, <1>3, <2>1, SockStepOwns, SockFrame
  <2> QED BY <1>1, <2>1, <2>2, OthersOwn, NobodyRobbed
<1>4. CASE Program
  BY <1>1, <1>4, ProgramOwns
<1> QED BY <1>2, <1>3, <1>4 DEF Next

\* So without blame each context has what it has stored, in every behaviour.
LEMMA OwnInvariance == Spec => [](Inv /\ OwnInv)
<1>1. Inv /\ OwnInv /\ [Next]_vars => OwnInv'
  <2> SUFFICES ASSUME Inv, OwnInv, [Next]_vars, blame' = {} PROVE OwnInv'
    BY DEF OwnInv
  <2>1. CASE Next
    BY <2>1, OwnStep
  <2>2. CASE UNCHANGED vars
    BY <2>2 DEF vars, OwnInv, Own, Owns, InField, InLocal
  <2> QED BY <2>1, <2>2
<1> QED BY <1>1, OwnInit, Invariance, PTL DEF Spec

\* For any number of contexts and descriptors: as long as none of the three
\* usages that the code gets wrong has happened, no step of a create, an accept
\* or a destroy, whichever of its calls fail, closes a descriptor of another
\* context or the standard input.
THEOREM OnlyOwnAreClosed == Spec => ClosesOwn
<1> DEFINE Spared == blame' = {} => /\ ClosedByOthers = {}
                                    /\ table[0] = "program" => table'[0] = "program"
<1>1. Inv /\ OwnInv /\ Next => Spared
  BY OwnStep
<1>2. UNCHANGED vars => [Spared]_vars
  OBVIOUS
<1> HIDE DEF Spared
<1>3. Inv /\ OwnInv /\ [Next]_vars => [Spared]_vars
  BY <1>1
<1>4. Spec => [][Spared]_vars
  BY <1>3, OwnInvariance, PTL DEF Spec
<1> QED BY <1>4 DEF Spared, ClosesOwn

\* Under the same conditions the numbers that a living context uses are its own:
\* no send, splice or close goes to something else through them.
THEOREM NumbersStayOwn == Spec => []StaysOwn
<1>1. Inv /\ OwnInv => StaysOwn
  <2> SUFFICES ASSUME Inv, OwnInv, blame = {}, NEW c \in Ctxs, pc[c] \in {"alive", "accepted"}
               PROVE  /\ table[num[c]["fd"]] = c
                      /\ c \in Files => table[num[c]["pipe0"]] = c /\ table[num[c]["pipe1"]] = c
    BY DEF StaysOwn
  <2>1. Own(c)
    BY DEF OwnInv
  <2>2. InField(c, "fd") /\ table[num[c]["fd"]] = c
    BY <2>1 DEF Own, Owns, InField, Fields
  <2>3. ASSUME c \in Files PROVE table[num[c]["pipe0"]] = c /\ table[num[c]["pipe1"]] = c
    <3>1. pc[c] = "alive"
      BY <2>3 DEF Inv, Labels, FileLabels
    <3>2. InField(c, "pipe0") /\ InField(c, "pipe1")
      BY <2>3, <3>1 DEF InField
    <3> QED BY <2>1, <3>1, <3>2 DEF Own, Owns, Fields
  <2> QED BY <2>2, <2>3
<1> QED BY <1>1, OwnInvariance, PTL
=============================================================================
