--------------------------- MODULE TransferProofs ---------------------------
(***************************************************************************)
(* Proofs about the three ways in which the sockets move data, and about   *)
(* Transfers, which composes them: for any number of messages, units,      *)
(* clients and sockets, and for any losses and failures.                   *)
(*                                                                         *)
(*   datagrams  An answer stands for one message that recv_data returned;  *)
(*              it is counted while it is on its way and when send_data    *)
(*              has taken it.  While nothing fails, a message that is not  *)
(*              acknowledged is in one of three places.                    *)
(*   streams    What was received and what is on its way are together      *)
(*              what was sent.                                             *)
(*   accept     The step that could give a descriptor another client's     *)
(*              data is in the kernel: a datagram goes to a socket that is *)
(*              bound and not yet connected.  There is at most one, that   *)
(*              of the accept under way, so that `mixed` tells whether its *)
(*              client was the sender; once it is connected the kernel     *)
(*              itself keeps others out.                                   *)
(***************************************************************************)
EXTENDS Transfers, SequenceTheorems, FiniteSetTheorems, TLAPS

-----------------------------------------------------------------------------
(* The acknowledged datagrams: UdpAck.                                     *)

\* There are two peers, each the other's.
LEMMA PeerIs ==
  ASSUME NEW p \in Peers
  PROVE  /\ Peer(p) \in Peers /\ Peer(p) # p /\ Peer(Peer(p)) = p
         /\ \A r \in Peers : r = p \/ r = Peer(p)
<1>1. \E r \in Peers : r # p /\ Peers = {p, r}
  BY UdpAssumption
<1> QED BY <1>1 DEF Peer

\* The numbers of messages, and the bounds.
LEMMA NumbersAre ==
  /\ Numbers \subseteq Nat \ {0}
  /\ MaxSends \in [Peers -> Nat] /\ MaxRecvs \in [Peers -> Nat] /\ MaxFaults \in Nat
BY UdpAssumption DEF Numbers

\* What is left of a sequence when its element i is taken out.
LEMMA RemoveAtIs ==
  ASSUME NEW S, NEW s \in Seq(S), NEW i \in 1 .. Len(s)
  PROVE  /\ RemoveAt(s, i) \in Seq(S) /\ Len(RemoveAt(s, i)) = Len(s) - 1
         /\ \A j \in 1 .. Len(s) - 1 : RemoveAt(s, i)[j] = s[IF j < i THEN j ELSE j + 1]
<1> DEFINE a == SubSeq(s, 1, i - 1)
           b == SubSeq(s, i + 1, Len(s))
<1>1. Len(s) \in Nat /\ i \in Nat /\ \A j \in 1 .. Len(s) : s[j] \in S
  BY LenProperties, ElementOfSeq
<1>2. /\ a \in Seq(S) /\ Len(a) = i - 1
      /\ \A j \in 1 .. i - 1 : a[j] = s[j]
  BY <1>1, SubSeqProperties
<1>3. /\ b \in Seq(S) /\ Len(b) = Len(s) - i
      /\ \A j \in 1 .. Len(s) - i : b[j] = s[i + j]
  BY <1>1, SubSeqProperties
<1> HIDE DEF a, b
<1>4. /\ a \o b \in Seq(S) /\ Len(a \o b) = Len(s) - 1
      /\ \A j \in 1 .. Len(s) - 1 :
           (a \o b)[j] = IF j <= i - 1 THEN a[j] ELSE b[j - (i - 1)]
  BY <1>1, <1>2, <1>3, ConcatProperties
<1>5. \A j \in 1 .. Len(s) - 1 : (a \o b)[j] = s[IF j < i THEN j ELSE j + 1]
  BY <1>1, <1>2, <1>3, <1>4
<1>6. RemoveAt(s, i) = a \o b
  BY DEF RemoveAt, a, b
<1> QED BY <1>4, <1>5, <1>6

-----------------------------------------------------------------------------
\* What recvfrom takes out, and what sendto puts in.
LEMMA TakeIs ==
  ASSUME net \in [Peers -> Seq(Datagrams)], NEW p \in Peers, NEW i \in DOMAIN net[p],
         TakeFor(p, i)
  PROVE  /\ net' \in [Peers -> Seq(Datagrams)]
         /\ \A q \in Peers : q # p => net'[q] = net[q]
         /\ net'[p] = RemoveAt(net[p], i)
         /\ i \in 1 .. Len(net[p]) /\ net[p][i] \in Datagrams
         /\ \A j \in 1 .. Len(net'[p]) :
              \E k \in 1 .. Len(net[p]) : /\ k = (IF j < i THEN j ELSE j + 1)
                                          /\ net'[p][j] = net[p][k]
<1>1. net[p] \in Seq(Datagrams) /\ i \in 1 .. Len(net[p]) /\ Len(net[p]) \in Nat
  BY LenProperties
<1>2. /\ RemoveAt(net[p], i) \in Seq(Datagrams)
      /\ Len(RemoveAt(net[p], i)) = Len(net[p]) - 1
      /\ \A j \in 1 .. Len(net[p]) - 1 :
           RemoveAt(net[p], i)[j] = net[p][IF j < i THEN j ELSE j + 1]
  BY <1>1, RemoveAtIs
<1>3. net' = [net EXCEPT ![p] = RemoveAt(net[p], i)]
  BY DEF TakeFor
<1>4. net[p][i] \in Datagrams
  BY <1>1, ElementOfSeq
<1>5. net'[p] = RemoveAt(net[p], i)
  BY <1>3
<1>6. \A j \in 1 .. Len(net'[p]) :
              \E k \in 1 .. Len(net[p]) : /\ k = (IF j < i THEN j ELSE j + 1)
                                          /\ net'[p][j] = net[p][k]
  BY <1>1, <1>2, <1>5
<1> QED BY <1>1, <1>2, <1>3, <1>4, <1>5, <1>6

\* A datagram that is put is the last one, and nothing else changes.
LEMMA PutIs ==
  ASSUME net \in [Peers -> Seq(Datagrams)], NEW p \in Peers, NEW d \in Datagrams, Put(p, d)
  PROVE  /\ net' \in [Peers -> Seq(Datagrams)]
         /\ \A q \in Peers : q # p => net'[q] = net[q]
         /\ net'[p] = Append(net[p], d)
         /\ Len(net[p]) \in Nat /\ Len(net'[p]) = Len(net[p]) + 1
         /\ \A j \in 1 .. Len(net[p]) : net'[p][j] = net[p][j]
         /\ net'[p][Len(net[p]) + 1] = d
<1>1. net[p] \in Seq(Datagrams)
  OBVIOUS
<1>2. /\ Append(net[p], d) \in Seq(Datagrams) /\ Len(net[p]) \in Nat
      /\ Len(Append(net[p], d)) = Len(net[p]) + 1
      /\ \A j \in 1 .. Len(net[p]) : Append(net[p], d)[j] = net[p][j]
      /\ Append(net[p], d)[Len(net[p]) + 1] = d
  BY <1>1, AppendProperties, LenProperties
<1>3. net' = [net EXCEPT ![p] = Append(net[p], d)]
  BY DEF Put
<1> QED BY <1>2, <1>3

-----------------------------------------------------------------------------
Counted == sends \in [Peers -> Nat] /\ recvs \in [Peers -> Nat]

\* errno of a thread that is about to answer was tested when the data came.
AnswersClean == \A p \in Peers : pc[p] = "ack" => ~ Stale(p)

\* Who waits for an answer has sent something.
Asked == \A p \in Peers : pc[p] = "getAck" => last[p] \in Numbers

TypeInv == TypeOK /\ Counted /\ AnswersClean /\ Asked

\* At first nothing is sent.
LEMMA UdpInitType == Init => TypeInv
<1> SUFFICES ASSUME Init PROVE TypeInv
  OBVIOUS
<1> USE NumbersAre DEF Init
<1>1. family \in Families /\ net \in [Peers -> Seq(Datagrams)]
  OBVIOUS
<1>2. /\ pc \in [Peers -> {"idle", "getAck", "getData", "ack"}]
      /\ errno \in [Peers -> Errors \cup {"0"}]
  OBVIOUS
<1>3. last \in [Peers -> Numbers \cup {0}]
  OBVIOUS
<1>4. /\ buf \in [Peers -> {<<>>} \cup {<<d>> : d \in Datagrams}]
      /\ \A p \in Peers : buf[p] # <<>> <=> pc[p] = "ack"
  OBVIOUS
<1>5. \A p \in Peers : sends[p] \in 0 .. MaxSends[p] /\ recvs[p] \in 0 .. MaxRecvs[p]
  OBVIOUS
<1>6. ok \in [Peers -> Seq(Numbers)] /\ got \in [Peers -> Seq(Datagrams)]
  OBVIOUS
<1>7. failed \in BOOLEAN
  BY Zenon
<1>8. losses \in 0 .. MaxFaults /\ copies \in 0 .. MaxFaults
  OBVIOUS
<1>9. Counted /\ AnswersClean /\ Asked
  BY DEF Counted, AnswersClean, Asked
<1> QED BY <1>1, <1>2, <1>3, <1>4, <1>5, <1>6, <1>7, <1>8, <1>9 DEF TypeInv, TypeOK

\* A send that the bound admits is counted.
LEMMA OneMoreSend ==
  ASSUME TypeInv, NEW p \in Peers, sends[p] < MaxSends[p],
         sends' = [sends EXCEPT ![p] = @ + 1], UNCHANGED recvs
  PROVE  /\ Counted'
         /\ \A q \in Peers : sends'[q] \in 0 .. MaxSends[q] /\ recvs'[q] \in 0 .. MaxRecvs[q]
<1> USE NumbersAre DEF TypeInv, TypeOK, Counted
<1>1. sends' \in [Peers -> Nat] /\ sends'[p] = sends[p] + 1
  OBVIOUS
<1>2. sends'[p] \in 0 .. MaxSends[p]
  BY <1>1
<1>3. \A q \in Peers : q # p => sends'[q] = sends[q]
  OBVIOUS
<1> QED BY <1>1, <1>2, <1>3

\* A failure of a system call.
LEMMA SyscallFailsKeepsType ==
  ASSUME TypeInv, NEW p \in Peers, SyscallFails(p), UNCHANGED family,
         Counted', \A q \in Peers : sends'[q] \in 0 .. MaxSends[q] /\ recvs'[q] \in 0 .. MaxRecvs[q],
         IF pc[p] = "ack" THEN buf' = [buf EXCEPT ![p] = <<>>] ELSE UNCHANGED buf
  PROVE  TypeInv'
<1> USE DEF TypeInv, TypeOK, SyscallFails, Goto
<1>1. errno' \in [Peers -> Errors \cup {"0"}]
  OBVIOUS
<1>2. pc' \in [Peers -> {"idle", "getAck", "getData", "ack"}]
  OBVIOUS
<1>3. /\ buf' \in [Peers -> {<<>>} \cup {<<d>> : d \in Datagrams}]
      /\ \A q \in Peers : buf'[q] # <<>> <=> pc'[q] = "ack"
  OBVIOUS
<1>4. failed' \in BOOLEAN
  BY Zenon
<1>5. AnswersClean' /\ Asked'
  BY DEF AnswersClean, Stale, Asked
<1> QED BY <1>1, <1>2, <1>3, <1>4, <1>5

\* Calls that fail.
LEMMA FailingKeepsType ==
  ASSUME TypeInv, NEW p \in Peers, SendFails(p) \/ RecvfromFails(p) \/ AckFails(p)
  PROVE  TypeInv'
<1>1. CASE SendFails(p)
  <2>1. Counted' /\ \A q \in Peers : sends'[q] \in 0 .. MaxSends[q] /\ recvs'[q] \in 0 .. MaxRecvs[q]
    BY <1>1, OneMoreSend DEF SendFails
  <2> QED BY <1>1, <2>1, SyscallFailsKeepsType DEF SendFails
<1>2. CASE RecvfromFails(p)
  <2>1. Counted' /\ \A q \in Peers : sends'[q] \in 0 .. MaxSends[q] /\ recvs'[q] \in 0 .. MaxRecvs[q]
    BY <1>2 DEF RecvfromFails, TypeInv, TypeOK, Counted, counts
  <2> QED BY <1>2, <2>1, SyscallFailsKeepsType DEF RecvfromFails, counts
<1>3. CASE AckFails(p)
  <2>1. Counted' /\ \A q \in Peers : sends'[q] \in 0 .. MaxSends[q] /\ recvs'[q] \in 0 .. MaxRecvs[q]
    BY <1>3 DEF AckFails, TypeInv, TypeOK, Counted, counts
  <2> QED BY <1>3, <2>1, SyscallFailsKeepsType DEF AckFails, counts
<1> QED BY <1>1, <1>2, <1>3

\* send_data: sendto.
LEMMA SendKeepsType ==
  ASSUME TypeInv, NEW p \in Peers, NEW n \in Numbers, Send(p, n)
  PROVE  TypeInv'
<1> USE DEF TypeInv, TypeOK
<1>1. net' \in [Peers -> Seq(Datagrams)]
  <2>1. Data(n) \in Datagrams
    BY DEF Data, Datagrams
  <2> QED BY <2>1, PeerIs, PutIs DEF Send
<1>2. Counted' /\ \A q \in Peers : sends'[q] \in 0 .. MaxSends[q] /\ recvs'[q] \in 0 .. MaxRecvs[q]
  BY OneMoreSend DEF Send
<1>3. last' \in [Peers -> Numbers \cup {0}]
  BY DEF Send
<1>4. /\ pc' \in [Peers -> {"idle", "getAck", "getData", "ack"}]
      /\ \A q \in Peers : pc'[q] = "ack" <=> pc[q] = "ack"
  BY DEF Send, Goto
<1>5. failed' \in BOOLEAN
  BY Zenon DEF Send
<1>6. AnswersClean' /\ Asked'
  BY <1>4 DEF Send, Goto, AnswersClean, Stale, Asked
<1> QED BY <1>1, <1>2, <1>3, <1>4, <1>5, <1>6 DEF Send

\* send_data: recvfrom of the answer.
LEMMA GetAckKeepsType ==
  ASSUME TypeInv, NEW p \in Peers, GetAck(p)
  PROVE  TypeInv'
<1> USE DEF TypeInv, TypeOK
<1>1. PICK i \in Arriving(p) :
       /\ TakeFor(p, i)
       /\ IF ~ Stale(p) /\ net[p][i].kind = "verifier"
            THEN ok' = [ok EXCEPT ![p] = Append(@, last[p])] /\ UNCHANGED failed
            ELSE failed' = TRUE /\ UNCHANGED ok
  BY DEF GetAck
<1>2. net' \in [Peers -> Seq(Datagrams)]
  BY <1>1, TakeIs DEF Arriving
<1>3. /\ pc' \in [Peers -> {"idle", "getAck", "getData", "ack"}]
      /\ \A q \in Peers : pc'[q] = "ack" <=> pc[q] = "ack"
  BY DEF GetAck, Goto
<1>4. failed' \in BOOLEAN
  BY <1>1, Zenon
<1>5. ok' \in [Peers -> Seq(Numbers)]
  <2>1. last[p] \in Numbers
    BY DEF GetAck, Asked
  <2>2. Append(ok[p], last[p]) \in Seq(Numbers)
    BY <2>1
  <2> QED BY <1>1, <2>2
<1>6. AnswersClean' /\ Asked'
  BY <1>3 DEF GetAck, Goto, AnswersClean, Stale, Asked
<1> QED BY <1>2, <1>3, <1>4, <1>5, <1>6 DEF GetAck, counts, Counted
\* recv_data is called.
LEMMA RecvKeepsType ==
  ASSUME TypeInv, NEW p \in Peers, Recv(p)
  PROVE  TypeInv'
<1> USE NumbersAre DEF TypeInv, TypeOK
<1>1. recvs' \in [Peers -> Nat] /\ recvs'[p] = recvs[p] + 1
  BY DEF Recv, Counted
<1>2. recvs'[p] \in 0 .. MaxRecvs[p] /\ \A q \in Peers : q # p => recvs'[q] = recvs[q]
  BY <1>1 DEF Recv, Counted
<1>3. /\ pc' \in [Peers -> {"idle", "getAck", "getData", "ack"}]
      /\ \A q \in Peers : (pc'[q] = "ack" <=> pc[q] = "ack") /\ (pc'[q] = "getAck" <=> pc[q] = "getAck")
  BY DEF Recv, Goto
<1>4. AnswersClean' /\ Asked'
  BY <1>3 DEF Recv, AnswersClean, Stale, Asked
<1>5. Counted' /\ \A q \in Peers : sends'[q] \in 0 .. MaxSends[q] /\ recvs'[q] \in 0 .. MaxRecvs[q]
  BY <1>1, <1>2 DEF Recv, Counted
<1> QED BY <1>3, <1>4, <1>5 DEF Recv, history

\* recv_data: recvfrom.
LEMMA GetDataKeepsType ==
  ASSUME TypeInv, NEW p \in Peers, GetData(p)
  PROVE  TypeInv'
<1> USE DEF TypeInv, TypeOK
<1>1. PICK i \in Arriving(p) :
       /\ TakeFor(p, i)
       /\ IF Stale(p)
            THEN failed' = TRUE /\ Goto(p, "idle") /\ UNCHANGED buf
            ELSE Goto(p, "ack") /\ buf' = [buf EXCEPT ![p] = <<net[p][i]>>] /\ UNCHANGED failed
  BY DEF GetData
<1>2. net' \in [Peers -> Seq(Datagrams)] /\ net[p][i] \in Datagrams
  BY <1>1, TakeIs DEF Arriving
<1>3. /\ pc' \in [Peers -> {"idle", "getAck", "getData", "ack"}]
      /\ \A q \in Peers : pc'[q] = "getAck" => pc[q] = "getAck"
      /\ \A q \in Peers : pc'[q] = "ack" => pc[q] = "ack" \/ (q = p /\ ~ Stale(p))
  BY <1>1 DEF Goto
<1>4. failed' \in BOOLEAN
  BY <1>1, Zenon
<1>5. /\ buf' \in [Peers -> {<<>>} \cup {<<d>> : d \in Datagrams}]
      /\ \A q \in Peers : buf'[q] # <<>> <=> pc'[q] = "ack"
  <2>1. CASE Stale(p)
    BY <1>1, <2>1 DEF Goto, GetData
  <2>2. CASE ~ Stale(p)
    <3>1. <<net[p][i]>> # <<>> /\ <<net[p][i]>> \in {<<d>> : d \in Datagrams}
      BY <1>2
    <3> QED BY <1>1, <2>2, <3>1 DEF Goto, GetData
  <2> QED BY <2>1, <2>2
<1>6. AnswersClean' /\ Asked'
  BY <1>3 DEF GetData, AnswersClean, Stale, Asked
<1> QED BY <1>2, <1>3, <1>4, <1>5, <1>6 DEF GetData, counts, Counted

\* An answer is made from the datagram in the buffer.
LEMMA BufIs ==
  ASSUME TypeInv, NEW p \in Peers, pc[p] = "ack"
  PROVE  /\ buf[p] = <<buf[p][1]>> /\ buf[p][1] \in Datagrams
         /\ buf[p][1].n \in Numbers /\ Verifier(buf[p][1].n) \in Datagrams
<1>1. PICK d \in Datagrams : buf[p] = <<d>>
  BY DEF TypeInv, TypeOK
<1> QED BY <1>1 DEF Datagrams, Verifier

\* recv_data: sendto of the answer.
LEMMA AckKeepsType ==
  ASSUME TypeInv, NEW p \in Peers, Ack(p)
  PROVE  TypeInv'
<1> USE DEF TypeInv, TypeOK
<1>1. net' \in [Peers -> Seq(Datagrams)]
  BY BufIs, PeerIs, PutIs DEF Ack
<1>2. /\ pc' \in [Peers -> {"idle", "getAck", "getData", "ack"}]
      /\ \A q \in Peers : pc'[q] = "getAck" => pc[q] = "getAck"
      /\ \A q \in Peers : pc'[q] = "ack" => pc[q] = "ack"
  BY DEF Ack, Returned, Goto
<1>3. /\ buf' \in [Peers -> {<<>>} \cup {<<d>> : d \in Datagrams}]
      /\ \A q \in Peers : buf'[q] # <<>> <=> pc'[q] = "ack"
  BY DEF Ack, Returned, Goto
<1>4. failed' \in BOOLEAN
  BY Zenon DEF Ack
<1>5. got' \in [Peers -> Seq(Datagrams)]
  <2>1. Append(got[p], buf[p][1]) \in Seq(Datagrams)
    BY BufIs DEF Ack
  <2> QED BY <2>1 DEF Ack
<1>6. AnswersClean' /\ Asked'
  BY <1>2 DEF Ack, AnswersClean, Stale, Asked
<1> QED BY <1>1, <1>2, <1>3, <1>4, <1>5, <1>6 DEF Ack, counts, Counted

\* The network loses or doubles, and errno is set elsewhere.
LEMMA NetworkKeepsType ==
  ASSUME TypeInv, Lose \/ Duplicate \/ \E p \in Peers : SetErrno(p)
  PROVE  TypeInv'
<1> USE NumbersAre DEF TypeInv, TypeOK
<1>1. CASE Lose
  <2>1. PICK p \in Peers : \E i \in DOMAIN net[p] : TakeFor(p, i)
    BY <1>1 DEF Lose
  <2>2. net' \in [Peers -> Seq(Datagrams)]
    BY <2>1, TakeIs
  <2>3. losses' \in 0 .. MaxFaults
    <3>1. /\ losses \in Nat /\ copies \in Nat /\ MaxFaults \in Nat
          /\ losses + copies < MaxFaults /\ losses' = losses + 1
      BY <1>1 DEF Lose
    <3> QED BY <3>1
  <2>4. AnswersClean' /\ Asked' /\ Counted'
    BY <1>1 DEF Lose, AnswersClean, Stale, Asked, Counted, counts
  <2> QED BY <1>1, <2>2, <2>3, <2>4 DEF Lose, counts
<1>2. CASE Duplicate
  <2> PICK p \in Peers : \E i \in DOMAIN net[p] : Put(p, net[p][i])
    BY <1>2 DEF Duplicate
  <2>1. PICK i \in DOMAIN net[p] : Put(p, net[p][i])
    OBVIOUS
  <2>2. net[p][i] \in Datagrams
    BY LenProperties, ElementOfSeq
  <2>3. net' \in [Peers -> Seq(Datagrams)]
    BY <2>1, <2>2, PutIs
  <2>4. copies' \in 0 .. MaxFaults
    BY <1>2 DEF Duplicate
  <2>5. AnswersClean' /\ Asked' /\ Counted'
    BY <1>2 DEF Duplicate, AnswersClean, Stale, Asked, Counted, counts
  <2> QED BY <1>2, <2>3, <2>4, <2>5 DEF Duplicate, counts
<1>3. ASSUME NEW p \in Peers, SetErrno(p)
      PROVE  TypeInv'
  <2>1. errno' \in [Peers -> Errors \cup {"0"}]
    BY <1>3 DEF SetErrno
  <2>2. AnswersClean' /\ Asked' /\ Counted'
    BY <1>3 DEF SetErrno, AnswersClean, Stale, Asked, Counted, counts
  <2> QED BY <1>3, <2>1, <2>2 DEF SetErrno, counts, history
<1> QED BY <1>1, <1>2, <1>3

\* What every step is: a call or an answer of one of the peers, or the network's.
LEMMA UdpSteps ==
  ASSUME Next
  PROVE  \/ \E p \in Peers : \/ \E n \in Numbers : Send(p, n)
                             \/ GetAck(p) \/ Recv(p) \/ GetData(p) \/ Ack(p)
                             \/ SendFails(p) \/ RecvfromFails(p) \/ AckFails(p) \/ SetErrno(p)
         \/ Lose \/ Duplicate
BY DEF Next, UdpSendData, UdpRecvData, UnixSendData, UnixRecvData, VsockSendData, VsockRecvData,
       SendData, RecvData

\* Every step keeps the types.
LEMMA UdpKeepsType ==
  ASSUME TypeInv, [Next]_vars
  PROVE  TypeInv'
<1>1. CASE Next
  BY <1>1, UdpSteps, SendKeepsType, GetAckKeepsType, RecvKeepsType, GetDataKeepsType,
     AckKeepsType, FailingKeepsType, NetworkKeepsType
<1>2. CASE UNCHANGED vars
  BY <1>2 DEF vars, counts, history, TypeInv, TypeOK, AnswersClean, Stale, Asked, Counted
<1> QED BY <1>1, <1>2

-----------------------------------------------------------------------------
\* How many of the datagrams on their way are answers.
Answers(s) == Cardinality({i \in 1 .. Len(s) : s[i].kind = "verifier"})

\* The answers in a queue can be counted.
LEMMA AnswersAre ==
  ASSUME NEW s \in Seq(Datagrams)
  PROVE  IsFiniteSet({i \in 1 .. Len(s) : s[i].kind = "verifier"}) /\ Answers(s) \in Nat
<1>1. IsFiniteSet(1 .. Len(s))
  BY FS_Interval, LenProperties
<1>2. IsFiniteSet({i \in 1 .. Len(s) : s[i].kind = "verifier"})
  BY <1>1, FS_Subset
<1> QED BY <1>2, FS_CardinalityType DEF Answers

\* A datagram that is appended counts if it is an answer.
LEMMA AnswersPut ==
  ASSUME NEW s \in Seq(Datagrams), NEW d \in Datagrams
  PROVE  Answers(Append(s, d)) = Answers(s) + (IF d.kind = "verifier" THEN 1 ELSE 0)
<1> DEFINE V(t) == {i \in 1 .. Len(t) : t[i].kind = "verifier"}
           n == Len(s) + 1
<1>1. /\ Len(s) \in Nat /\ Len(Append(s, d)) = n
      /\ \A i \in 1 .. Len(s) : Append(s, d)[i] = s[i]
      /\ Append(s, d)[n] = d
  BY AppendProperties, LenProperties
<1>2. IsFiniteSet(V(s)) /\ n \notin V(s) /\ Cardinality(V(s)) \in Nat
  <2>1. IsFiniteSet(V(s))
    BY AnswersAre
  <2>2. n \notin V(s)
    BY <1>1
  <2> HIDE DEF V
  <2> QED BY <2>1, <2>2, FS_CardinalityType
<1> HIDE DEF n
<1>3. CASE d.kind = "verifier"
  <2>1. V(Append(s, d)) = V(s) \cup {n}
    BY <1>1, <1>3 DEF n
  <2> HIDE DEF V
  <2>2. Cardinality(V(s) \cup {n}) = Cardinality(V(s)) + 1
    BY <1>2, FS_AddElement
  <2> QED BY <1>3, <2>1, <2>2 DEF Answers, V
<1>4. CASE d.kind # "verifier"
  <2>1. V(Append(s, d)) = V(s)
    BY <1>1, <1>4 DEF n
  <2> HIDE DEF V
  <2>2. Answers(s) = Cardinality(V(s)) /\ Answers(Append(s, d)) = Cardinality(V(Append(s, d)))
    BY DEF Answers, V
  <2> QED BY <1>2, <1>4, <2>1, <2>2
<1> QED BY <1>3, <1>4

\* One that is taken does not count any more.
LEMMA AnswersTaken ==
  ASSUME NEW s \in Seq(Datagrams), NEW i \in 1 .. Len(s)
  PROVE  Answers(RemoveAt(s, i)) <= Answers(s) - (IF s[i].kind = "verifier" THEN 1 ELSE 0)
<1> DEFINE V(t) == {j \in 1 .. Len(t) : t[j].kind = "verifier"}
           r == RemoveAt(s, i)
           f == [j \in V(r) |-> IF j < i THEN j ELSE j + 1]
<1>1. /\ r \in Seq(Datagrams) /\ Len(r) = Len(s) - 1 /\ Len(s) \in Nat
      /\ \A j \in 1 .. Len(s) - 1 : r[j] = s[IF j < i THEN j ELSE j + 1]
  BY RemoveAtIs, LenProperties
<1> HIDE DEF r
<1>2. f \in [V(r) -> V(s) \ {i}]
  BY <1>1
<1>3. \A j, k \in V(r) : f[j] = f[k] => j = k
  BY <1>1
<1>4. f \in Injection(V(r), V(s) \ {i})
  BY <1>2, <1>3 DEF Injection, IsInjective
<1>5. /\ IsFiniteSet(V(s)) /\ Cardinality(V(s)) \in Nat
      /\ IsFiniteSet(V(r)) /\ Cardinality(V(r)) \in Nat
  BY <1>1, AnswersAre, FS_CardinalityType
<1>6. i \in V(s) <=> s[i].kind = "verifier"
  OBVIOUS
<1> HIDE DEF V, f
<1>7. /\ IsFiniteSet(V(s) \ {i})
      /\ Cardinality(V(s) \ {i}) = IF i \in V(s) THEN Cardinality(V(s)) - 1 ELSE Cardinality(V(s))
  BY <1>5, FS_RemoveElement
<1>8. Cardinality(V(r)) <= Cardinality(V(s) \ {i})
  BY <1>4, <1>7, FS_Injection
<1>9. Answers(s) = Cardinality(V(s)) /\ Answers(RemoveAt(s, i)) = Cardinality(V(r))
  BY DEF Answers, V, r
<1> QED BY <1>5, <1>6, <1>7, <1>8, <1>9

\* Every answer on its way, and every one that send_data has taken, stands for
\* something that recv_data has returned.
Ledger == copies = 0 => \A p \in Peers : Answers(net[p]) + Len(ok[p]) <= Len(got[Peer(p)])

\* The types of what the ledger counts.
LEMMA LedgerTypes ==
  ASSUME TypeInv, NEW p \in Peers
  PROVE  /\ net[p] \in Seq(Datagrams) /\ Answers(net[p]) \in Nat
         /\ ok[p] \in Seq(Numbers) /\ Len(ok[p]) \in Nat
         /\ got[p] \in Seq(Datagrams) /\ Len(got[p]) \in Nat
         /\ copies \in Nat
<1>1. net[p] \in Seq(Datagrams) /\ ok[p] \in Seq(Numbers) /\ got[p] \in Seq(Datagrams)
  BY DEF TypeInv, TypeOK
<1>2. copies \in Nat
  BY NumbersAre DEF TypeInv, TypeOK
<1> QED BY <1>1, <1>2, AnswersAre, LenProperties

\* A step that takes a datagram from its queue, if not an answer that counts.
LEMMA TakingKeepsLedger ==
  ASSUME TypeInv, Ledger, NEW p \in Peers, NEW i \in DOMAIN net[p], TakeFor(p, i),
         UNCHANGED <<got, copies>>,
         \/ UNCHANGED ok
         \/ net[p][i].kind = "verifier" /\ last[p] \in Numbers
            /\ ok' = [ok EXCEPT ![p] = Append(@, last[p])]
  PROVE  Ledger'
<1> SUFFICES ASSUME copies = 0, NEW q \in Peers
             PROVE  Answers(net'[q]) + Len(ok'[q]) <= Len(got[Peer(q)])
  BY DEF Ledger
<1>1. /\ \A r \in Peers : r # p => net'[r] = net[r]
      /\ net'[p] = RemoveAt(net[p], i) /\ i \in 1 .. Len(net[p])
      /\ net' \in [Peers -> Seq(Datagrams)]
  BY TakeIs DEF TypeInv, TypeOK
<1>2. Answers(net[q]) + Len(ok[q]) <= Len(got[Peer(q)])
  BY DEF Ledger
<1>3. CASE q # p
  <2>1. ok'[q] = ok[q]
    BY <1>3 DEF TypeInv, TypeOK
  <2> QED BY <1>1, <1>2, <1>3, <2>1
<1>4. CASE q = p
  <2> DEFINE one == IF net[p][i].kind = "verifier" THEN 1 ELSE 0
  <2>1. Answers(net'[p]) <= Answers(net[p]) - one
    BY <1>1, AnswersTaken, LedgerTypes
  <2>4. one \in {0, 1} /\ (net[p][i].kind = "verifier" => one = 1)
    OBVIOUS
  <2> HIDE DEF one
  <2>2. /\ ok'[p] \in Seq(Numbers)
        /\ Len(ok'[p]) <= Len(ok[p]) + one
    <3>1. CASE UNCHANGED ok
      <4>1. ok'[p] = ok[p] /\ ok[p] \in Seq(Numbers) /\ Len(ok[p]) \in Nat
        BY <3>1, LedgerTypes
      <4> QED BY <2>4, <4>1
    <3>2. CASE net[p][i].kind = "verifier" /\ last[p] \in Numbers
               /\ ok' = [ok EXCEPT ![p] = Append(@, last[p])]
      <4>1. /\ Append(ok[p], last[p]) \in Seq(Numbers) /\ Len(ok[p]) \in Nat
            /\ Len(Append(ok[p], last[p])) = Len(ok[p]) + 1
        BY <3>2, LedgerTypes, AppendProperties
      <4>2. ok'[p] = Append(ok[p], last[p])
        BY <3>2 DEF TypeInv, TypeOK
      <4> QED BY <2>4, <3>2, <4>1, <4>2
    <3> QED BY <3>1, <3>2
  <2>3. /\ Answers(net'[p]) \in Nat /\ Len(ok'[p]) \in Nat /\ Len(got[Peer(p)]) \in Nat
        /\ Answers(net[p]) \in Nat /\ Len(ok[p]) \in Nat
    <3>1. net'[p] \in Seq(Datagrams)
      BY <1>1
    <3> QED BY <2>2, <3>1, LedgerTypes, AnswersAre, PeerIs, LenProperties
  <2> QED BY <1>2, <1>4, <2>1, <2>2, <2>3, <2>4
<1> QED BY <1>3, <1>4

\* sendto of a message.
LEMMA SendKeepsLedger ==
  ASSUME TypeInv, Ledger, NEW p \in Peers, NEW n \in Numbers, Send(p, n)
  PROVE  Ledger'
<1>1. Data(n) \in Datagrams /\ Data(n).kind = "data"
  BY DEF Data, Datagrams
<1>2. /\ \A r \in Peers : r # Peer(p) => net'[r] = net[r]
      /\ net'[Peer(p)] = Append(net[Peer(p)], Data(n))
  BY <1>1, PeerIs, PutIs DEF Send, TypeInv, TypeOK
<1>3. Answers(Append(net[Peer(p)], Data(n))) = Answers(net[Peer(p)])
  BY <1>1, PeerIs, LedgerTypes, AnswersPut
<1>4. \A r \in Peers : Answers(net'[r]) = Answers(net[r])
  BY <1>2, <1>3
<1> QED BY <1>4 DEF Send, Ledger

\* sendto of an answer: recv_data has returned what it stands for.
LEMMA AckKeepsLedger ==
  ASSUME TypeInv, Ledger, NEW p \in Peers, Ack(p)
  PROVE  Ledger'
<1> DEFINE d == Verifier(buf[p][1].n)
<1>1. ~ Stale(p) /\ pc[p] = "ack"
  BY DEF Ack, TypeInv, AnswersClean
<1>2. d \in Datagrams /\ d.kind = "verifier" /\ buf[p][1] \in Datagrams
  BY <1>1, BufIs DEF Verifier
<1>3. Put(Peer(p), d) /\ got' = [got EXCEPT ![p] = Append(@, buf[p][1])]
  BY <1>1 DEF Ack
<1> HIDE DEF d
<1>4. /\ \A r \in Peers : r # Peer(p) => net'[r] = net[r]
      /\ net'[Peer(p)] = Append(net[Peer(p)], d)
  BY <1>2, <1>3, PeerIs, PutIs DEF TypeInv, TypeOK
<1>5. Answers(Append(net[Peer(p)], d)) = Answers(net[Peer(p)]) + 1
  BY <1>2, PeerIs, LedgerTypes, AnswersPut
<1>6. /\ Len(got'[p]) = Len(got[p]) + 1
      /\ \A r \in Peers : r # p => got'[r] = got[r]
  BY <1>2, <1>3, LedgerTypes, AppendProperties DEF TypeInv, TypeOK
<1>7. UNCHANGED <<ok, copies>>
  BY DEF Ack
<1> SUFFICES ASSUME copies = 0, NEW q \in Peers
             PROVE  Answers(net'[q]) + Len(ok[q]) <= Len(got'[Peer(q)])
  BY <1>7 DEF Ledger
<1>8. Answers(net[q]) + Len(ok[q]) <= Len(got[Peer(q)])
  BY DEF Ledger
<1>9. CASE q = Peer(p)
  <2>1. Peer(q) = p /\ Answers(net'[q]) = Answers(net[q]) + 1
    BY <1>4, <1>5, <1>9, PeerIs
  <2> QED BY <1>6, <1>8, <2>1, PeerIs, LedgerTypes
<1>10. CASE q = p
  <2>1. Peer(q) # p /\ Peer(q) \in Peers /\ net'[q] = net[q]
    BY <1>4, <1>10, PeerIs
  <2> QED BY <1>6, <1>8, <2>1
<1> QED BY <1>9, <1>10, PeerIs

\* Every step keeps the ledger.
LEMMA UdpKeepsLedger ==
  ASSUME TypeInv, TypeInv', Ledger, [Next]_vars
  PROVE  Ledger'
<1>1. ASSUME NEW p \in Peers, GetAck(p)
      PROVE  Ledger'
  <2>1. last[p] \in Numbers
    BY <1>1 DEF GetAck, TypeInv, Asked
  <2>2. PICK i \in DOMAIN net[p] :
           /\ TakeFor(p, i)
           /\ \/ UNCHANGED ok
              \/ /\ net[p][i].kind = "verifier"
                 /\ ok' = [ok EXCEPT ![p] = Append(@, last[p])]
    BY <1>1 DEF GetAck, Arriving
  <2> QED BY <1>1, <2>1, <2>2, TakingKeepsLedger DEF GetAck
<1>2. ASSUME NEW p \in Peers, GetData(p)
      PROVE  Ledger'
  <2>1. PICK i \in DOMAIN net[p] : TakeFor(p, i)
    BY <1>2 DEF GetData, Arriving
  <2> QED BY <1>2, <2>1, TakingKeepsLedger DEF GetData
<1>3. CASE Lose
  <2>1. PICK p \in Peers : \E i \in DOMAIN net[p] : TakeFor(p, i)
    BY <1>3 DEF Lose
  <2> QED BY <1>3, <2>1, TakingKeepsLedger DEF Lose
<1>4. CASE Duplicate
  <2>1. copies' # 0
    BY <1>4, LedgerTypes, PeerIs, UdpAssumption DEF Duplicate, TypeInv, TypeOK
  <2> QED BY <2>1 DEF Ledger
<1>5. ASSUME NEW p \in Peers,
             Recv(p) \/ SendFails(p) \/ RecvfromFails(p) \/ AckFails(p) \/ SetErrno(p)
      PROVE  Ledger'
  <2>1. UNCHANGED <<net, ok, got, copies>>
    BY <1>5 DEF Recv, SendFails, RecvfromFails, AckFails, SetErrno, SyscallFails, history
  <2> QED BY <2>1 DEF Ledger
<1>6. CASE UNCHANGED vars
  BY <1>6 DEF vars, history, Ledger
<1> QED BY <1>1, <1>2, <1>3, <1>4, <1>5, <1>6, UdpSteps, SendKeepsLedger, AckKeepsLedger

\* At first there is nothing to count.
LEMMA InitLedger == Init => Ledger
<1> SUFFICES ASSUME Init, NEW p \in Peers
             PROVE  Answers(net[p]) + Len(ok[p]) <= Len(got[Peer(p)])
  BY DEF Ledger
<1>1. net[p] = <<>> /\ ok[p] = <<>> /\ got[Peer(p)] = <<>>
  BY PeerIs DEF Init
<1>2. {i \in 1 .. Len(<<>>) : <<>>[i].kind = "verifier"} = {}
  OBVIOUS
<1>3. Answers(<<>>) = 0
  BY <1>2, FS_EmptySet DEF Answers
<1> QED BY <1>1, <1>3

\* Every answer that send_data took is covered.
LEMMA LedgerCovers == TypeInv /\ Ledger => AcksCovered
BY LedgerTypes, PeerIs DEF Ledger, AcksCovered

-----------------------------------------------------------------------------
\* The exchange of messages from p to its peer, while nothing has failed and nothing
\* was duplicated.  A message that is not acknowledged is in one of three places: on
\* its way, in the buffer of recv_data, or behind an answer.
Numbered(p) ==
  /\ errno[p] = "0"
  /\ \A i \in 1 .. Len(ok[p]) : ok[p][i] = i
  /\ \A i \in 1 .. Len(got[Peer(p)]) : got[Peer(p)][i] = Data(i)
  /\ pc[p] = "getAck" => /\ last[p] = Len(ok[p]) + 1
                         /\ Len(got[Peer(p)]) - Len(ok[p]) \in {0, 1}
  /\ pc[p] # "getAck" => last[p] = Len(ok[p]) /\ Len(got[Peer(p)]) = Len(ok[p])

Unanswered(p) == pc[p] = "getAck" /\ Len(got[Peer(p)]) = Len(ok[p])

OnItsWay(p) ==
  /\ \A i \in 1 .. Len(net[Peer(p)]) : net[Peer(p)][i].kind = "data" =>
       Unanswered(p) /\ buf[Peer(p)] = <<>> /\ net[Peer(p)][i] = Data(last[p])
  /\ \A i, j \in 1 .. Len(net[Peer(p)]) :
       net[Peer(p)][i].kind = "data" /\ net[Peer(p)][j].kind = "data" => i = j

InHand(p) == buf[Peer(p)] # <<>> => Unanswered(p) /\ buf[Peer(p)] = <<Data(last[p])>>

AnswerOnItsWay(p) ==
  /\ \A i \in 1 .. Len(net[p]) : net[p][i].kind = "verifier" =>
       pc[p] = "getAck" /\ Len(got[Peer(p)]) = Len(ok[p]) + 1
  /\ \A i, j \in 1 .. Len(net[p]) :
       net[p][i].kind = "verifier" /\ net[p][j].kind = "verifier" => i = j

Exchange(p) == Numbered(p) /\ OnItsWay(p) /\ InHand(p) /\ AnswerOnItsWay(p)

ExchangeInv == ~ failed /\ copies = 0 => \A p \in Peers : Exchange(p)

\* Peers in exchange are in step.
LEMMA ExchangeInStep == TypeInv /\ ExchangeInv => InStep
<1> SUFFICES ASSUME TypeInv, ExchangeInv, ~ failed, copies = 0, NEW p \in Peers
             PROVE  /\ \A i \in DOMAIN got[Peer(p)] : got[Peer(p)][i] = Data(i)
                    /\ Len(got[Peer(p)]) - Len(ok[p]) \in {0, 1}
  BY DEF InStep
<1>1. Numbered(p)
  BY DEF ExchangeInv, Exchange
<1>2. DOMAIN got[Peer(p)] = 1 .. Len(got[Peer(p)]) /\ Len(got[Peer(p)]) \in Nat /\ Len(ok[p]) \in Nat
  BY LedgerTypes, PeerIs, LenProperties
<1> QED BY <1>1, <1>2 DEF Numbered

\* At first no message is on its way.
LEMMA InitExchange == Init => ExchangeInv
<1> SUFFICES ASSUME Init, NEW p \in Peers
             PROVE  Exchange(p)
  BY DEF ExchangeInv
<1>1. /\ net[p] = <<>> /\ net[Peer(p)] = <<>> /\ buf[Peer(p)] = <<>>
      /\ ok[p] = <<>> /\ got[Peer(p)] = <<>> /\ pc[p] = "idle" /\ last[p] = 0 /\ errno[p] = "0"
  BY PeerIs DEF Init
<1> QED BY <1>1 DEF Exchange, Numbered, OnItsWay, InHand, AnswerOnItsWay

\* Nothing is said once a call has failed or a datagram was duplicated.
LEMMA ExchangeIs ==
  ASSUME TypeInv, ExchangeInv, failed' = failed, copies' = copies,
         ~ failed /\ copies = 0 /\ (\A p \in Peers : Exchange(p)) => \A p \in Peers : Exchange(p)'
  PROVE  ExchangeInv'
BY DEF ExchangeInv

\* What is left in a queue when a datagram is taken was there before, and is not it.
LEMMA TakingLeaves ==
  ASSUME TypeInv, NEW p \in Peers, NEW i \in DOMAIN net[p], TakeFor(p, i)
  PROVE  /\ \A q \in Peers : q # p => net'[q] = net[q]
         /\ i \in 1 .. Len(net[p]) /\ Len(net[p]) \in Nat /\ Len(net'[p]) \in Nat
         /\ \A j \in 1 .. Len(net'[p]) :
              \E k \in 1 .. Len(net[p]) : /\ k = (IF j < i THEN j ELSE j + 1)
                                          /\ net'[p][j] = net[p][k]
<1>1. net \in [Peers -> Seq(Datagrams)]
  BY DEF TypeInv, TypeOK
<1>2. Len(net[p]) \in Nat
  BY <1>1, LenProperties
<1> QED BY <1>1, <1>2, TakeIs

\* What is in a queue after a datagram was taken was in it before.
LEMMA LeftWasThere ==
  ASSUME TypeInv, NEW p \in Peers, NEW i \in DOMAIN net[p], TakeFor(p, i),
         NEW j \in 1 .. Len(net'[p])
  PROVE  \E k \in 1 .. Len(net[p]) : k # i /\ net'[p][j] = net[p][k]
<1>1. PICK k \in 1 .. Len(net[p]) : k = (IF j < i THEN j ELSE j + 1) /\ net'[p][j] = net[p][k]
  BY TakingLeaves
<1>2. k # i
  BY <1>1, TakingLeaves
<1> QED BY <1>1, <1>2

\* If there was one of a kind, there is at most one.
LEMMA LeftIsSingle ==
  ASSUME TypeInv, NEW p \in Peers, NEW i \in DOMAIN net[p], TakeFor(p, i), NEW kind,
         \A j, m \in 1 .. Len(net[p]) : net[p][j].kind = kind /\ net[p][m].kind = kind => j = m
  PROVE  \A j, m \in 1 .. Len(net'[p]) :
           net'[p][j].kind = kind /\ net'[p][m].kind = kind => j = m
<1> SUFFICES ASSUME NEW j \in 1 .. Len(net'[p]), NEW m \in 1 .. Len(net'[p]),
                    net'[p][j].kind = kind, net'[p][m].kind = kind
             PROVE  j = m
  OBVIOUS
<1>1. PICK k \in 1 .. Len(net[p]) : k = (IF j < i THEN j ELSE j + 1) /\ net'[p][j] = net[p][k]
  BY TakingLeaves
<1>2. PICK l \in 1 .. Len(net[p]) : l = (IF m < i THEN m ELSE m + 1) /\ net'[p][m] = net[p][l]
  BY TakingLeaves
<1>3. k = l
  BY <1>1, <1>2
<1> QED BY <1>1, <1>2, <1>3, TakingLeaves

\* A datagram is taken from the queue of one end or the other: what is said of the
\* messages on their way to it, and of the answers, stays true.
LEMMA TakenOnItsWay ==
  ASSUME TypeInv, NEW p \in Peers, NEW i \in DOMAIN net[p], TakeFor(p, i),
         NEW r \in Peers, OnItsWay(r), Unanswered(r)' = Unanswered(r),
         UNCHANGED <<last, buf>>
  PROVE  OnItsWay(r)'
<1> DEFINE q == Peer(r)
<1>1. q \in Peers
  BY PeerIs
<1>2. CASE q # p
  BY <1>1, <1>2, TakingLeaves DEF OnItsWay
<1>3. CASE q = p
  <2>1. ASSUME NEW j \in 1 .. Len(net'[q]), net'[q][j].kind = "data"
        PROVE  Unanswered(r) /\ buf[q] = <<>> /\ net'[q][j] = Data(last[r])
    <3>1. PICK k \in 1 .. Len(net[q]) : net'[q][j] = net[q][k]
      BY <1>3, LeftWasThere
    <3> QED BY <2>1, <3>1 DEF OnItsWay
  <2>2. \A j, m \in 1 .. Len(net'[p]) :
          net'[p][j].kind = "data" /\ net'[p][m].kind = "data" => j = m
    <3>1. \A j, m \in 1 .. Len(net[p]) :
            net[p][j].kind = "data" /\ net[p][m].kind = "data" => j = m
      BY <1>3 DEF OnItsWay
    <3> QED BY <3>1, LeftIsSingle
  <2> QED BY <1>3, <2>1, <2>2 DEF OnItsWay
<1> QED BY <1>2, <1>3

\* Taking a datagram keeps what is known of the answers that stay.
LEMMA TakenAnswers ==
  ASSUME TypeInv, NEW p \in Peers, NEW i \in DOMAIN net[p], TakeFor(p, i),
         NEW r \in Peers, AnswerOnItsWay(r), UNCHANGED <<pc, ok, got>>
  PROVE  AnswerOnItsWay(r)'
<1>1. CASE r # p
  BY <1>1, TakingLeaves DEF AnswerOnItsWay
<1>2. CASE r = p
  <2>1. ASSUME NEW j \in 1 .. Len(net'[r]), net'[r][j].kind = "verifier"
        PROVE  pc[r] = "getAck" /\ Len(got[Peer(r)]) = Len(ok[r]) + 1
    <3>1. PICK k \in 1 .. Len(net[r]) : net'[r][j] = net[r][k]
      BY <1>2, LeftWasThere
    <3> QED BY <2>1, <3>1 DEF AnswerOnItsWay
  <2>2. \A j, m \in 1 .. Len(net'[p]) :
          net'[p][j].kind = "verifier" /\ net'[p][m].kind = "verifier" => j = m
    <3>1. \A j, m \in 1 .. Len(net[p]) :
            net[p][j].kind = "verifier" /\ net[p][m].kind = "verifier" => j = m
      BY <1>2 DEF AnswerOnItsWay
    <3> QED BY <3>1, LeftIsSingle
  <2> QED BY <1>2, <2>1, <2>2 DEF AnswerOnItsWay
<1> QED BY <1>1, <1>2

\* A loss.
LEMMA LoseKeepsExchange ==
  ASSUME TypeInv, ExchangeInv, Lose
  PROVE  ExchangeInv'
<1>1. PICK p \in Peers : \E i \in DOMAIN net[p] : TakeFor(p, i)
  BY DEF Lose
<1>2. PICK i \in DOMAIN net[p] : TakeFor(p, i)
  BY <1>1
<1>3. UNCHANGED <<pc, errno, last, buf, ok, got, failed, copies>>
  BY DEF Lose
<1>4. ASSUME NEW r \in Peers, Exchange(r)
      PROVE  Exchange(r)'
  <2>1. OnItsWay(r)' /\ AnswerOnItsWay(r)'
    <3>1. Unanswered(r)' = Unanswered(r)
      BY <1>3 DEF Unanswered
    <3> QED BY <1>2, <1>3, <1>4, <3>1, TakenOnItsWay, TakenAnswers DEF Exchange
  <2>2. Numbered(r)' /\ InHand(r)'
    BY <1>3, <1>4 DEF Exchange, Numbered, InHand, Unanswered
  <2> QED BY <2>1, <2>2 DEF Exchange
<1> QED BY <1>3, <1>4, ExchangeIs

\* The message sent is a new one.
LEMMA NewIsSent ==
  ASSUME TypeInv, NEW p \in Peers, Exchange(p), NEW n \in Numbers, Send(p, n)
  PROVE  n = Len(ok[p]) + 1 /\ ~ Stale(p)
<1>1. ~ Stale(p)
  BY DEF Exchange, Numbered, Stale, Errors
<1>2. last[p] = Len(ok[p]) /\ Len(ok[p]) \in Nat /\ n \in Nat \ {0}
  BY LedgerTypes, NumbersAre DEF Exchange, Numbered, Send
<1>3. n \in {last[p], last[p] + 1} /\ \A i \in 1 .. Len(ok[p]) : ok[p][i] # n
  BY LedgerTypes, LenProperties DEF Send, ToSend
<1>4. n # last[p]
  BY <1>2, <1>3 DEF Exchange, Numbered
<1> QED BY <1>1, <1>2, <1>3, <1>4

\* sendto of a message.
LEMMA SendKeepsExchange ==
  ASSUME TypeInv, ExchangeInv, NEW p \in Peers, NEW n \in Numbers, Send(p, n)
  PROVE  ExchangeInv'
<1> SUFFICES ASSUME ~ failed', copies' = 0
             PROVE  \A r \in Peers : Exchange(r)'
  BY DEF ExchangeInv
<1> DEFINE q == Peer(p)
<1>1. ~ failed /\ copies = 0
  BY DEF Send
<1>2. \A r \in Peers : Exchange(r)
  BY <1>1 DEF ExchangeInv
<1>3. n = Len(ok[p]) + 1 /\ ~ Stale(p)
  BY <1>2, NewIsSent
<1>4. q \in Peers /\ q # p /\ Peer(q) = p
  BY PeerIs
<1> HIDE DEF q
<1>5. /\ \A r \in Peers : r # q => net'[r] = net[r]
      /\ Len(net[q]) \in Nat /\ Len(net'[q]) = Len(net[q]) + 1
      /\ \A j \in 1 .. Len(net[q]) : net'[q][j] = net[q][j]
      /\ net'[q][Len(net[q]) + 1] = Data(n)
  <2>1. Data(n) \in Datagrams /\ net \in [Peers -> Seq(Datagrams)] /\ Put(q, Data(n))
    BY DEF Data, Datagrams, TypeInv, TypeOK, Send, q
  <2> QED BY <1>4, <2>1, PutIs
<1>6. /\ pc[p] = "idle" /\ pc'[p] = "getAck" /\ pc'[q] = pc[q]
      /\ last'[p] = n /\ last'[q] = last[q]
      /\ UNCHANGED <<errno, buf, ok, got>>
  BY <1>3, <1>4 DEF Send, Goto, TypeInv, TypeOK
<1>7. Exchange(p)'
  <2>1. /\ Numbered(p)'
        /\ Unanswered(p)'
    BY <1>2, <1>3, <1>6, LedgerTypes DEF Exchange, Numbered, Unanswered
  <2>2. /\ buf[q] = <<>>
        /\ \A i \in 1 .. Len(net[q]) : net[q][i].kind # "data"
        /\ \A i \in 1 .. Len(net[p]) : net[p][i].kind # "verifier"
    BY <1>2, <1>6 DEF Exchange, InHand, OnItsWay, Unanswered, AnswerOnItsWay, q
  <2>3. OnItsWay(p)'
    <3>1. \A j \in 1 .. Len(net'[q]) : j = Len(net[q]) + 1 \/ j \in 1 .. Len(net[q])
      BY <1>5
    <3>2. \A j \in 1 .. Len(net'[q]) :
            net'[q][j].kind = "data" => j = Len(net[q]) + 1 /\ net'[q][j] = Data(n)
      BY <1>5, <2>2, <3>1
    <3> QED BY <1>6, <2>1, <2>2, <3>2 DEF OnItsWay, q
  <2>4. InHand(p)' /\ AnswerOnItsWay(p)'
    BY <1>4, <1>5, <1>6, <2>2 DEF InHand, AnswerOnItsWay, q
  <2> QED BY <2>1, <2>3, <2>4 DEF Exchange
<1>8. Exchange(q)'
  <2>1. Numbered(q)' /\ InHand(q)'
    BY <1>2, <1>4, <1>6 DEF Exchange, Numbered, InHand, Unanswered
  <2>2. OnItsWay(q)'
    BY <1>2, <1>4, <1>5, <1>6 DEF Exchange, OnItsWay, Unanswered
  <2>3. Data(n).kind # "verifier"
    BY DEF Data
  <2>4. \A j \in 1 .. Len(net'[q]) : j = Len(net[q]) + 1 \/ j \in 1 .. Len(net[q])
    BY <1>5
  <2>5. AnswerOnItsWay(q)'
    BY <1>2, <1>4, <1>5, <1>6, <2>3, <2>4 DEF Exchange, AnswerOnItsWay
  <2> QED BY <2>1, <2>2, <2>5 DEF Exchange
<1> QED BY <1>7, <1>8, PeerIs DEF q

\* recvfrom of an answer, or of whatever came instead.
LEMMA GetAckKeepsExchange ==
  ASSUME TypeInv, ExchangeInv, NEW p \in Peers, GetAck(p)
  PROVE  ExchangeInv'
<1> SUFFICES ASSUME ~ failed', copies' = 0
             PROVE  \A r \in Peers : Exchange(r)'
  BY DEF ExchangeInv
<1> DEFINE q == Peer(p)
<1>1. PICK i \in DOMAIN net[p] :
        /\ TakeFor(p, i) /\ net[p][i].kind = "verifier"
        /\ ok' = [ok EXCEPT ![p] = Append(@, last[p])] /\ UNCHANGED failed
  BY DEF GetAck, Arriving
<1>2. UNCHANGED <<errno, last, buf, got, copies>>
  BY DEF GetAck
<1>3. \A r \in Peers : Exchange(r)
  BY <1>1, <1>2 DEF ExchangeInv
<1>4. q \in Peers /\ q # p /\ Peer(q) = p
  BY PeerIs
<1> HIDE DEF q
<1>5. i \in 1 .. Len(net[p])
  BY TakeIs, <1>1 DEF TypeInv, TypeOK
<1>6. /\ pc[p] = "getAck" /\ pc'[p] = "idle" /\ pc'[q] = pc[q]
      /\ ok'[q] = ok[q] /\ ok'[p] = Append(ok[p], last[p])
  BY <1>1, <1>4 DEF GetAck, Goto, TypeInv, TypeOK
<1>7. Len(got[q]) = Len(ok[p]) + 1 /\ Len(ok[p]) \in Nat
  BY <1>1, <1>3, <1>5, LedgerTypes DEF Exchange, AnswerOnItsWay, q
<1>8. /\ Len(ok'[p]) = Len(ok[p]) + 1
      /\ \A j \in 1 .. Len(ok[p]) : ok'[p][j] = ok[p][j]
      /\ ok'[p][Len(ok[p]) + 1] = last[p]
  BY <1>6, LedgerTypes, AppendProperties DEF GetAck, TypeInv, Asked
<1>9. Exchange(p)'
  <2>1. \A j \in 1 .. Len(ok'[p]) : ok'[p][j] = j
    BY <1>3, <1>6, <1>7, <1>8 DEF Exchange, Numbered
  <2>2. Numbered(p)'
    BY <1>2, <1>3, <1>6, <1>7, <1>8, <2>1 DEF Exchange, Numbered, q
  <2>3. ~ Unanswered(p)
    BY <1>7 DEF Unanswered, q
  <2>4. /\ buf[q] = <<>>
        /\ \A j \in 1 .. Len(net[q]) : net[q][j].kind # "data"
    BY <1>3, <2>3 DEF Exchange, InHand, OnItsWay, q
  <2>5. OnItsWay(p)' /\ InHand(p)'
    BY <1>1, <1>2, <1>4, <2>4, TakingLeaves DEF OnItsWay, InHand, q
  <2>6. \A j \in 1 .. Len(net'[p]) : net'[p][j].kind # "verifier"
    <3> SUFFICES ASSUME NEW j \in 1 .. Len(net'[p]) PROVE net'[p][j].kind # "verifier"
      OBVIOUS
    <3>1. PICK k \in 1 .. Len(net[p]) : k # i /\ net'[p][j] = net[p][k]
      BY <1>1, LeftWasThere
    <3> QED BY <1>1, <1>3, <1>5, <3>1 DEF Exchange, AnswerOnItsWay
  <2>7. AnswerOnItsWay(p)'
    BY <2>6 DEF AnswerOnItsWay
  <2> QED BY <2>2, <2>5, <2>7 DEF Exchange
<1>10. Exchange(q)'
  <2>1. Numbered(q)' /\ InHand(q)'
    BY <1>2, <1>3, <1>4, <1>6 DEF Exchange, Numbered, InHand, Unanswered
  <2>2. Unanswered(q)' = Unanswered(q)
    BY <1>2, <1>6 DEF Unanswered
  <2>3. OnItsWay(q)'
    BY <1>1, <1>2, <1>3, <1>4, <2>2, TakenOnItsWay DEF Exchange
  <2>4. AnswerOnItsWay(q)'
    BY <1>1, <1>2, <1>3, <1>4, <1>6, TakingLeaves DEF Exchange, AnswerOnItsWay
  <2> QED BY <2>1, <2>3, <2>4 DEF Exchange
<1> QED BY <1>9, <1>10, PeerIs DEF q

\* recvfrom of a message, or of whatever came instead.
LEMMA GetDataKeepsExchange ==
  ASSUME TypeInv, ExchangeInv, NEW p \in Peers, GetData(p)
  PROVE  ExchangeInv'
<1> SUFFICES ASSUME ~ failed', copies' = 0
             PROVE  \A r \in Peers : Exchange(r)'
  BY DEF ExchangeInv
<1> DEFINE q == Peer(p)
<1>1. PICK i \in DOMAIN net[p] :
        /\ TakeFor(p, i) /\ Goto(p, "ack")
        /\ buf' = [buf EXCEPT ![p] = <<net[p][i]>>] /\ UNCHANGED failed
  BY DEF GetData, Arriving
<1>2. UNCHANGED <<errno, last, ok, got, copies>>
  BY DEF GetData
<1>3. \A r \in Peers : Exchange(r)
  BY <1>1, <1>2 DEF ExchangeInv
<1>4. q \in Peers /\ q # p /\ Peer(q) = p
  BY PeerIs
<1> HIDE DEF q
<1>5. /\ pc[p] = "getData" /\ pc'[p] = "ack" /\ pc'[q] = pc[q]
      /\ buf'[p] = <<net[p][i]>> /\ buf'[q] = buf[q]
  BY <1>1, <1>4 DEF GetData, Goto, TypeInv, TypeOK
<1>6. /\ i \in 1 .. Len(net[p]) /\ net[p][i].kind \in {"data", "verifier"}
  <2>1. net[p][i] \in Datagrams
    BY <1>1, TakeIs DEF TypeInv, TypeOK
  <2> QED BY <1>1, <2>1, TakingLeaves DEF Datagrams
<1>7. net[p][i].kind = "data"
  BY <1>3, <1>5, <1>6 DEF Exchange, AnswerOnItsWay
<1>8. Unanswered(q) /\ net[p][i] = Data(last[q])
  BY <1>3, <1>4, <1>6, <1>7 DEF Exchange, OnItsWay
<1>9. \A r \in Peers : Unanswered(r)' = Unanswered(r) /\ (pc'[r] = "getAck" <=> pc[r] = "getAck")
  BY <1>2, <1>4, <1>5, PeerIs DEF Unanswered, q
<1>10. \A r \in Peers : Numbered(r)'
  BY <1>2, <1>3, <1>9 DEF Exchange, Numbered
<1>11. Exchange(q)'
  <2>1. InHand(q)'
    BY <1>2, <1>4, <1>5, <1>8, <1>9 DEF InHand
  <2>2. \A j \in 1 .. Len(net'[p]) : net'[p][j].kind # "data"
    <3> SUFFICES ASSUME NEW j \in 1 .. Len(net'[p]) PROVE net'[p][j].kind # "data"
      OBVIOUS
    <3>1. PICK k \in 1 .. Len(net[p]) : k # i /\ net'[p][j] = net[p][k]
      BY <1>1, LeftWasThere
    <3> QED BY <1>3, <1>4, <1>6, <1>7, <3>1 DEF Exchange, OnItsWay
  <2>3. OnItsWay(q)'
    BY <1>4, <2>2 DEF OnItsWay
  <2>4. AnswerOnItsWay(q)'
    BY <1>1, <1>2, <1>3, <1>4, <1>9, TakingLeaves DEF Exchange, AnswerOnItsWay
  <2> QED BY <1>4, <1>10, <2>1, <2>3, <2>4 DEF Exchange
<1>12. Exchange(p)'
  <2>1. InHand(p)'
    BY <1>2, <1>3, <1>5, <1>9 DEF Exchange, InHand, q
  <2>2. OnItsWay(p)'
    <3>1. OnItsWay(p) /\ net'[q] = net[q] /\ buf'[q] = buf[q]
      BY <1>1, <1>3, <1>4, <1>5, TakingLeaves DEF Exchange
    <3> QED BY <1>2, <1>9, <3>1 DEF OnItsWay, q
  <2>3. \A j \in 1 .. Len(net'[p]) : net'[p][j].kind # "verifier"
    <3> SUFFICES ASSUME NEW j \in 1 .. Len(net'[p]) PROVE net'[p][j].kind # "verifier"
      OBVIOUS
    <3>1. PICK k \in 1 .. Len(net[p]) : k # i /\ net'[p][j] = net[p][k]
      BY <1>1, LeftWasThere
    <3> QED BY <1>3, <1>5, <3>1 DEF Exchange, AnswerOnItsWay
  <2>4. AnswerOnItsWay(p)'
    BY <2>3 DEF AnswerOnItsWay
  <2> QED BY <1>10, <2>1, <2>2, <2>4 DEF Exchange
<1> QED BY <1>11, <1>12, PeerIs DEF q

\* sendto of an answer.
LEMMA AckKeepsExchange ==
  ASSUME TypeInv, ExchangeInv, NEW p \in Peers, Ack(p)
  PROVE  ExchangeInv'
<1> SUFFICES ASSUME ~ failed', copies' = 0
             PROVE  \A r \in Peers : Exchange(r)'
  BY DEF ExchangeInv
<1> DEFINE q == Peer(p)
           d == buf[p][1]
<1>1. /\ Put(q, Verifier(d.n)) /\ Returned(p) /\ pc[p] = "ack"
      /\ got' = [got EXCEPT ![p] = Append(@, d)] /\ UNCHANGED failed
  BY DEF Ack
<1>2. UNCHANGED <<errno, last, ok, copies>>
  BY DEF Ack
<1>3. \A r \in Peers : Exchange(r)
  BY <1>1, <1>2 DEF ExchangeInv
<1>4. q \in Peers /\ q # p /\ Peer(q) = p
  BY PeerIs
<1>5. buf[p] = <<d>> /\ d \in Datagrams /\ Verifier(d.n) \in Datagrams
  BY <1>1, BufIs
<1> HIDE DEF q, d
<1>6. Unanswered(q) /\ d = Data(last[q])
  <2>1. <<d>> # <<>>
    OBVIOUS
  <2>2. Unanswered(q) /\ <<d>> = <<Data(last[q])>>
    BY <1>3, <1>4, <1>5, <2>1 DEF Exchange, InHand
  <2> QED BY <2>2
<1>7. /\ \A r \in Peers : r # q => net'[r] = net[r]
      /\ Len(net[q]) \in Nat /\ Len(net'[q]) = Len(net[q]) + 1
      /\ \A j \in 1 .. Len(net[q]) : net'[q][j] = net[q][j]
      /\ net'[q][Len(net[q]) + 1] = Verifier(d.n)
  BY <1>1, <1>4, <1>5, PutIs DEF TypeInv, TypeOK
<1>8. \A j \in 1 .. Len(net'[q]) : j = Len(net[q]) + 1 \/ j \in 1 .. Len(net[q])
  BY <1>7
<1>9. /\ pc'[p] = "idle" /\ pc'[q] = pc[q] /\ buf'[p] = <<>> /\ buf'[q] = buf[q]
      /\ got'[q] = got[q] /\ got'[p] = Append(got[p], d)
  BY <1>1, <1>4 DEF Returned, Goto, TypeInv, TypeOK
<1>10. /\ Len(got[p]) \in Nat /\ Len(got'[p]) = Len(got[p]) + 1
       /\ \A j \in 1 .. Len(got[p]) : got'[p][j] = got[p][j]
       /\ got'[p][Len(got[p]) + 1] = d
  BY <1>5, <1>9, LedgerTypes, AppendProperties
<1>11. pc[q] = "getAck" /\ Len(got[p]) = Len(ok[q]) /\ last[q] = Len(ok[q]) + 1
  BY <1>3, <1>4, <1>6 DEF Exchange, Numbered, Unanswered
<1>12. Exchange(q)'
  <2>1. \A j \in 1 .. Len(got'[p]) : got'[p][j] = Data(j)
    BY <1>3, <1>4, <1>6, <1>10, <1>11 DEF Exchange, Numbered
  <2>2. Numbered(q)'
    BY <1>2, <1>3, <1>4, <1>9, <1>10, <1>11, <2>1 DEF Exchange, Numbered
  <2>3. InHand(q)'
    BY <1>4, <1>9 DEF InHand
  <2>4. \A j \in 1 .. Len(net[p]) : net[p][j].kind # "data"
    <3>1. OnItsWay(q)
      BY <1>3, <1>4 DEF Exchange
    <3>2. buf[p] # <<>>
      BY <1>5
    <3> QED BY <1>4, <3>1, <3>2 DEF OnItsWay
  <2>5. OnItsWay(q)'
    BY <1>4, <1>7, <2>4 DEF OnItsWay
  <2>6. \A j \in 1 .. Len(net[q]) : net[q][j].kind # "verifier"
    BY <1>3, <1>4, <1>10, <1>11 DEF Exchange, AnswerOnItsWay
  <2>7. \A j \in 1 .. Len(net'[q]) : net'[q][j].kind = "verifier" => j = Len(net[q]) + 1
    BY <1>7, <1>8, <2>6
  <2>8. pc'[q] = "getAck" /\ Len(got'[p]) = Len(ok'[q]) + 1
    BY <1>2, <1>9, <1>10, <1>11
  <2>9. AnswerOnItsWay(q)'
    BY <1>4, <2>7, <2>8 DEF AnswerOnItsWay
  <2> QED BY <2>2, <2>3, <2>5, <2>9 DEF Exchange
<1>13. Exchange(p)'
  <2>1. pc'[p] # "getAck" /\ pc[p] # "getAck"
    BY <1>1, <1>9
  <2>2. Numbered(p)'
    BY <1>2, <1>3, <1>9, <2>1 DEF Exchange, Numbered, q
  <2>3. /\ \A j \in 1 .. Len(net[p]) : net[p][j].kind # "verifier"
        /\ \A j \in 1 .. Len(net[q]) : net[q][j].kind # "data"
        /\ buf[q] = <<>>
    BY <1>3, <2>1 DEF Exchange, AnswerOnItsWay, OnItsWay, InHand, Unanswered, q
  <2>4. AnswerOnItsWay(p)' /\ InHand(p)'
    BY <1>4, <1>7, <1>9, <2>3 DEF AnswerOnItsWay, InHand, q
  <2>5. Verifier(d.n).kind # "data"
    BY DEF Verifier
  <2>6. \A j \in 1 .. Len(net'[q]) : net'[q][j].kind # "data"
    BY <1>7, <1>8, <2>3, <2>5
  <2>7. OnItsWay(p)'
    BY <2>6 DEF OnItsWay, q
  <2> QED BY <2>2, <2>4, <2>7 DEF Exchange
<1> QED BY <1>12, <1>13, PeerIs DEF q

\* A call that begins, and errno between two calls.
LEMMA RecvKeepsExchange ==
  ASSUME TypeInv, ExchangeInv, NEW p \in Peers, Recv(p) \/ SetErrno(p)
  PROVE  ExchangeInv'
<1>1. /\ UNCHANGED <<net, last, buf, ok, got, failed, copies>>
      /\ \A r \in Peers : pc'[r] = "getAck" <=> pc[r] = "getAck"
      /\ \A r \in Peers : errno'[r] = errno[r] \/ errno'[r] = "0"
  BY DEF Recv, SetErrno, Goto, history, TypeInv, TypeOK
<1>2. ASSUME NEW r \in Peers, Exchange(r)
      PROVE  Exchange(r)'
  <2>1. Numbered(r)'
    BY <1>1, <1>2 DEF Exchange, Numbered
  <2>2. OnItsWay(r)' /\ InHand(r)' /\ AnswerOnItsWay(r)'
    BY <1>1, <1>2 DEF Exchange, OnItsWay, InHand, AnswerOnItsWay, Unanswered
  <2> QED BY <2>1, <2>2 DEF Exchange
<1> QED BY <1>1, <1>2, ExchangeIs

\* Every step keeps the exchange.
LEMMA UdpKeepsExchange ==
  ASSUME TypeInv, ExchangeInv, [Next]_vars
  PROVE  ExchangeInv'
<1>1. CASE Duplicate
  <2>1. copies' # 0
    BY <1>1, LedgerTypes, PeerIs, UdpAssumption DEF Duplicate
  <2> QED BY <2>1 DEF ExchangeInv
<1>2. ASSUME NEW p \in Peers, SendFails(p) \/ RecvfromFails(p) \/ AckFails(p)
      PROVE  ExchangeInv'
  BY <1>2 DEF SendFails, RecvfromFails, AckFails, SyscallFails, ExchangeInv
<1>3. CASE UNCHANGED vars
  <2>1. ASSUME NEW r \in Peers, Exchange(r)
        PROVE  Exchange(r)'
    BY <1>3, <2>1 DEF vars, history, Exchange, Numbered, OnItsWay, InHand, AnswerOnItsWay, Unanswered
  <2> QED BY <1>3, <2>1, ExchangeIs DEF vars, history
<1> QED BY <1>1, <1>2, <1>3, UdpSteps, SendKeepsExchange, GetAckKeepsExchange,
           GetDataKeepsExchange, AckKeepsExchange, RecvKeepsExchange, LoseKeepsExchange

UdpInv == TypeInv /\ Ledger /\ ExchangeInv

\* At first types, ledger and exchange hold.
LEMMA UdpInvInit == Init => UdpInv
BY UdpInitType, InitLedger, InitExchange DEF UdpInv

\* Every step keeps them.
LEMMA UdpInvKept == UdpInv /\ [Next]_vars => UdpInv'
BY UdpKeepsType, UdpKeepsLedger, UdpKeepsExchange DEF UdpInv

\* So in every behaviour.
LEMMA UdpInvariance == Spec => []UdpInv
BY UdpInvInit, UdpInvKept, PTL DEF Spec

-----------------------------------------------------------------------------
(* The streams and the CAN frames: Streams.                                *)

\* The end is told when the sender is gone and nothing is left; only a stream ends.
EndInv == /\ ended => link = "closed" /\ wire = <<>>
          /\ sort = "can" => link = "up"

StreamsInv == StreamsTypeOK /\ EndInv /\ Conveyed

\* The bounds.
LEMMA StreamsNumbers ==
  /\ Total \in Nat \ {0} /\ MaxCall \in Nat \ {0} /\ Room \in Nat \ {0} /\ MaxMoved \in Nat \ {0}
  /\ MaxFails \in Nat
BY StreamsAssumption

\* The first n units, in order.
LEMMA WholeIs ==
  ASSUME NEW n \in 0 .. Total
  PROVE  /\ Whole(n) \in Seq(Units) /\ Len(Whole(n)) = n
         /\ \A i \in 1 .. n : Whole(n)[i] = i
BY StreamsNumbers DEF Whole, Units

\* At first nothing is sent.
LEMMA StreamsInitInv == StreamsInit => StreamsInv
<1> SUFFICES ASSUME StreamsInit PROVE StreamsInv
  OBVIOUS
<1> USE StreamsNumbers
<1>1. /\ sort \in Sockets /\ link \in {"new", "pending", "up", "closed"}
      /\ sent \in 0 .. Total /\ fails \in 0 .. MaxFails
  BY DEF StreamsInit
<1>2. told \in BOOLEAN /\ ended \in BOOLEAN /\ dropped \in BOOLEAN
  BY Zenon DEF StreamsInit
<1>3. wire \in Seq(Units) /\ Len(wire) <= Room /\ taken \in Seq(Units)
  BY DEF StreamsInit
<1>4. stale \in [Ends -> BOOLEAN] /\ lied \subseteq Ends
  BY Zenon DEF StreamsInit
<1>5. EndInv
  BY DEF StreamsInit, EndInv
<1>6. Whole(0) = <<>>
  BY DEF Whole
<1>7. taken \o wire = <<>> /\ 1 .. sent = {}
  BY DEF StreamsInit
<1>8. Conveyed
  BY <1>6, <1>7 DEF StreamsInit, Conveyed
<1> QED BY <1>1, <1>2, <1>3, <1>4, <1>5, <1>8 DEF StreamsInv, StreamsTypeOK

\* Steps that move nothing.
LEMMA StillKeepsConveyed ==
  ASSUME StreamsInv, UNCHANGED <<sent, wire, taken, ended, lied, dropped>>
  PROVE  Conveyed'
BY DEF StreamsInv, Conveyed

\* A failure is counted, and errno is left as it may be.
LEMMA FailsIs ==
  ASSUME StreamsInv, NEW e \in Ends, Fails(e)
  PROVE  fails' \in 0 .. MaxFails /\ stale' \in [Ends -> BOOLEAN]
<1>1. fails' \in 0 .. MaxFails
  BY StreamsNumbers DEF StreamsInv, StreamsTypeOK, Fails
<1>2. PICK b \in BOOLEAN : stale' = [stale EXCEPT ![e] = b]
  BY DEF Fails
<1>3. stale' \in [Ends -> BOOLEAN]
  BY <1>2, Zenon DEF StreamsInv, StreamsTypeOK
<1> QED BY <1>1, <1>3

\* The two ends.
LEMMA EndsAre == "sender" \in Ends /\ "receiver" \in Ends
BY DEF Ends

\* A call that fails and moves nothing.
LEMMA FailKeepsStreams ==
  ASSUME StreamsInv, NEW e \in Ends, Fails(e),
         UNCHANGED <<sort, link, told, sent, wire, taken, ended, lied, dropped>>
  PROVE  StreamsInv'
<1>1. Conveyed'
  BY StillKeepsConveyed
<1>2. StreamsTypeOK' /\ EndInv'
  BY FailsIs DEF StreamsInv, StreamsTypeOK, EndInv
<1> QED BY <1>1, <1>2 DEF StreamsInv

\* client_connect.
LEMMA ConnectKeeps ==
  ASSUME StreamsInv, Connect, sort # "can"
  PROVE  StreamsInv'
<1>1. Conveyed'
  BY StillKeepsConveyed DEF Connect
<1> USE DEF StreamsInv, StreamsTypeOK, EndInv
<1>2. CASE link = "new" /\ link' = "up" /\ told' = TRUE /\ UNCHANGED <<stale, fails>>
  <2>1. told' \in BOOLEAN
    BY <1>2, Zenon
  <2> QED BY <1>1, <1>2, <2>1 DEF Connect
<1>3. CASE link = "new" /\ Fails("sender") /\ UNCHANGED <<link, told>>
  BY <1>3, EndsAre, FailKeepsStreams DEF Connect
<1>4. CASE /\ link \in {"new", "pending", "up"} /\ link' \in {"pending", "up"}
           /\ fails < MaxFails /\ fails' = fails + 1 /\ UNCHANGED told
           /\ \E b \in BOOLEAN : stale' = [stale EXCEPT !["sender"] = b]
  <2>1. Fails("sender")
    BY <1>4 DEF Fails
  <2>2. fails' \in 0 .. MaxFails /\ stale' \in [Ends -> BOOLEAN]
    BY <2>1, EndsAre, FailsIs
  <2>3. ~ ended
    BY <1>4
  <2> QED BY <1>1, <1>4, <2>2, <2>3 DEF Connect
<1>5. \/ sort = "tcp" /\ link = "new" /\ link' = "pending"
         /\ fails < MaxFails /\ fails' = fails + 1
         /\ stale' = [stale EXCEPT !["sender"] = TRUE] /\ UNCHANGED told
      \/ link \in {"pending", "up"} /\ fails < MaxFails /\ fails' = fails + 1
         /\ stale' = [stale EXCEPT !["sender"] = FALSE] /\ UNCHANGED <<link, told>>
      \/ link = "new" /\ link' = "up" /\ told' = TRUE /\ UNCHANGED <<stale, fails>>
      \/ link = "new" /\ Fails("sender") /\ UNCHANGED <<link, told>>
  BY Zenon DEF Connect
<1>6. \E b \in BOOLEAN : stale' = [stale EXCEPT !["sender"] = TRUE] => stale' = [stale EXCEPT !["sender"] = b]
  OBVIOUS
<1>7. ASSUME NEW x \in BOOLEAN, stale' = [stale EXCEPT !["sender"] = x]
      PROVE  \E b \in BOOLEAN : stale' = [stale EXCEPT !["sender"] = b]
  BY <1>7
<1>8. TRUE \in BOOLEAN /\ FALSE \in BOOLEAN
  OBVIOUS
<1> QED BY <1>2, <1>3, <1>4, <1>5, <1>7, <1>8

\* The kernel completes or closes a connection, and errno is set elsewhere.
LEMMA StepsOfTheOthers ==
  ASSUME StreamsInv, Established \/ Close \/ ErrnoSet
  PROVE  StreamsInv'
<1>1. Conveyed'
  BY StillKeepsConveyed DEF Established, Close, ErrnoSet
<1> USE DEF StreamsInv, StreamsTypeOK, EndInv
<1>2. CASE Established
  BY <1>1, <1>2 DEF Established
<1>3. CASE Close
  BY <1>1, <1>3 DEF Close
<1>4. CASE ErrnoSet
  <2>1. PICK e \in Ends : stale' = [stale EXCEPT ![e] = FALSE]
    BY <1>4 DEF ErrnoSet
  <2>2. stale' \in [Ends -> BOOLEAN]
    BY <2>1, Zenon
  <2> QED BY <1>1, <1>4, <2>2 DEF ErrnoSet
<1> QED BY <1>2, <1>3, <1>4

-----------------------------------------------------------------------------
\* The units that are sent next continue those sent before.
LEMMA NextUnitsAre ==
  ASSUME StreamsTypeOK, NEW n \in Nat, n <= Total - sent
  PROVE  /\ NextUnits(n) \in Seq(Units) /\ Len(NextUnits(n)) = n
         /\ \A i \in 1 .. n : NextUnits(n)[i] = sent + i
         /\ sent \in Nat /\ sent + n \in 0 .. Total
<1>1. sent \in Nat /\ sent + n \in 0 .. Total
  BY StreamsNumbers DEF StreamsTypeOK
<1>2. \A i \in 1 .. n : sent + i \in Units
  BY <1>1, StreamsNumbers DEF Units
<1> QED BY <1>1, <1>2 DEF NextUnits

\* What is sent next continues what was sent.
LEMMA WholeGrows ==
  ASSUME StreamsTypeOK, NEW n \in Nat, n <= Total - sent
  PROVE  Whole(sent) \o NextUnits(n) = Whole(sent + n)
<1>1. /\ NextUnits(n) \in Seq(Units) /\ Len(NextUnits(n)) = n
      /\ \A i \in 1 .. n : NextUnits(n)[i] = sent + i
      /\ sent \in Nat /\ sent + n \in 0 .. Total /\ sent \in 0 .. Total
  BY NextUnitsAre DEF StreamsTypeOK
<1> DEFINE a == Whole(sent)
           b == NextUnits(n)
           c == Whole(sent + n)
<1>2. /\ a \in Seq(Units) /\ Len(a) = sent /\ \A i \in 1 .. sent : a[i] = i
      /\ c \in Seq(Units) /\ Len(c) = sent + n /\ \A i \in 1 .. sent + n : c[i] = i
  BY <1>1, WholeIs
<1>3. b \in Seq(Units) /\ Len(b) = n /\ \A i \in 1 .. n : b[i] = sent + i
  BY <1>1
<1> HIDE DEF a, b, c
<1>4. /\ a \o b \in Seq(Units) /\ Len(a \o b) = sent + n
      /\ \A i \in 1 .. sent + n : (a \o b)[i] = IF i <= sent THEN a[i] ELSE b[i - sent]
  BY <1>2, <1>3, ConcatProperties
<1>5. \A i \in 1 .. sent + n : (a \o b)[i] = c[i]
  BY <1>1, <1>2, <1>3, <1>4
<1>6. a \o b = c
  BY <1>1, <1>2, <1>4, <1>5, SeqEqual
<1> QED BY <1>6 DEF a, b, c

\* Sent units go to the end of what is on its way.
LEMMA SendingConveys ==
  ASSUME StreamsInv, NEW n \in Nat, NEW counted, counted = n, Sent(n, counted),
         wire' = wire \o NextUnits(n), UNCHANGED dropped, ~ ended
  PROVE  Conveyed' /\ wire' \in Seq(Units) /\ Len(wire') = Len(wire) + n /\ sent' \in 0 .. Total
         /\ lied' \subseteq Ends
<1>1. n <= Total - sent /\ UNCHANGED <<sort, link, told, taken, ended, stale, fails>>
  BY DEF Sent
<1>2. /\ NextUnits(n) \in Seq(Units) /\ Len(NextUnits(n)) = n
      /\ \A i \in 1 .. n : NextUnits(n)[i] = sent + i
      /\ sent \in Nat /\ sent + n \in 0 .. Total
  BY <1>1, NextUnitsAre DEF StreamsInv
<1>3. wire \in Seq(Units) /\ taken \in Seq(Units) /\ taken \o wire \in Seq(Units)
  BY ConcatProperties DEF StreamsInv, StreamsTypeOK
<1> DEFINE units == NextUnits(n)
<1>12. units \in Seq(Units) /\ Len(units) = n /\ wire' = wire \o units
  BY <1>2
<1>13. UNCHANGED taken
  BY <1>1
<1> HIDE DEF units
<1>4. wire' \in Seq(Units) /\ Len(wire') = Len(wire) + n
  BY <1>3, <1>12, ConcatProperties
<1>5. taken' \o wire' = (taken \o wire) \o units
  BY <1>3, <1>12, <1>13, ConcatAssociative
<1>6. /\ \/ sent' = sent /\ lied' = lied \cup {"sender"}
         \/ sent' = sent + n /\ lied' = lied
      /\ sent \in 0 .. Total
  <2>1. sent \in 0 .. Total
    BY DEF StreamsInv, StreamsTypeOK
  <2>2. CASE stale["sender"]
    BY <2>1, <2>2 DEF Sent
  <2>3. CASE ~ stale["sender"]
    BY <2>1, <2>3 DEF Sent
  <2> QED BY <2>1, <2>2, <2>3
<1>7. Range(taken' \o wire') = Range(taken \o wire) \cup Range(units)
  <2>1. taken \o wire \in Seq(Units) /\ units \in Seq(Units)
    BY <1>3, <1>12
  <2>2. Range((taken \o wire) \o units) = Range(taken \o wire) \cup Range(units)
    BY <2>1, RangeConcatenation, Zenon
  <2> QED BY <1>5, <2>2
<1>8. \A u \in sent + 1 .. sent + n : u \in Range(units)
  <2> TAKE u \in sent + 1 .. sent + n
  <2>1. u - sent \in 1 .. n /\ NextUnits(n)[u - sent] = u
    BY <1>2
  <2> QED BY <1>2, <2>1, RangeEquality DEF units
<1>9. ASSUME ~ dropped PROVE
        /\ "receiver" \notin lied' => 1 .. sent' \subseteq Range(taken' \o wire')
        /\ lied' = {} => taken' \o wire' = Whole(sent')
  <2>1. "receiver" \notin lied' => 1 .. sent' \subseteq Range(taken' \o wire')
    BY <1>2, <1>6, <1>7, <1>8, <1>9 DEF StreamsInv, Conveyed
  <2>2. ASSUME lied' = {} PROVE taken' \o wire' = Whole(sent')
    <3>1. sent' = sent + n /\ lied = {} /\ taken \o wire = Whole(sent)
      BY <1>6, <1>9, <2>2 DEF StreamsInv, Conveyed
    <3> QED BY <1>1, <1>5, <3>1, WholeGrows DEF StreamsInv, units
  <2> QED BY <2>1, <2>2
<1>10. Conveyed'
  BY <1>1, <1>9 DEF Conveyed
<1>11. sent' \in 0 .. Total /\ lied' \subseteq Ends
  BY <1>2, <1>6, EndsAre DEF StreamsInv, StreamsTypeOK
<1> QED BY <1>4, <1>10, <1>11

\* send_data of a stream.
LEMMA StreamSendKeeps ==
  ASSUME StreamsInv, StreamSend
  PROVE  StreamsInv'
<1>1. CASE StreamSendFails
  BY <1>1, EndsAre, FailKeepsStreams DEF StreamSendFails
<1>2. CASE \E asked \in 1 .. MaxCall, n \in 1 .. Room - Len(wire) :
             n <= asked /\ wire' = wire \o NextUnits(n) /\ Sent(n, n) /\ UNCHANGED dropped
  <2>1. PICK n \in 1 .. Room - Len(wire) :
               wire' = wire \o NextUnits(n) /\ Sent(n, n) /\ UNCHANGED dropped
    BY <1>2
  <2>2. Len(wire) \in Nat /\ n \in Nat /\ ~ ended /\ link = "up"
    BY LenProperties DEF StreamSend, StreamsInv, StreamsTypeOK, EndInv
  <2>3. Conveyed' /\ wire' \in Seq(Units) /\ Len(wire') = Len(wire) + n /\ sent' \in 0 .. Total
        /\ lied' \subseteq Ends
    BY <2>1, <2>2, SendingConveys
  <2>4. Len(wire') <= Room
    BY <2>2, <2>3, StreamsNumbers
  <2>5. UNCHANGED <<sort, link, told, taken, ended, stale, fails, dropped>>
    BY <2>1 DEF Sent
  <2> QED BY <2>2, <2>3, <2>4, <2>5 DEF StreamsInv, StreamsTypeOK, EndInv
<1> QED BY <1>1, <1>2 DEF StreamSend

\* send_data of a CAN socket, in frames.
LEMMA CanSendKeeps ==
  ASSUME StreamsInv, CanSend, sort = "can"
  PROVE  StreamsInv'
<1>1. CASE StreamSendFails
  BY <1>1, EndsAre, FailKeepsStreams DEF StreamSendFails
<1>2. CASE /\ wire' = IF Len(wire) < Room THEN wire \o NextUnits(1) ELSE wire
           /\ dropped' = (dropped \/ Len(wire) = Room) /\ Sent(1, 1)
  <2>1. Len(wire) \in Nat /\ Len(wire) <= Room /\ ~ ended /\ link = "up"
    BY LenProperties DEF StreamsInv, StreamsTypeOK, EndInv
  <2>2. UNCHANGED <<sort, link, told, taken, ended, stale, fails>>
    BY <1>2 DEF Sent
  <2>3. dropped' \in BOOLEAN
    BY <1>2, Zenon DEF StreamsInv, StreamsTypeOK
  <2>4. CASE Len(wire) < Room
    <3>1. wire' = wire \o NextUnits(1) /\ dropped' = (dropped \/ FALSE)
      BY <1>2, <2>1, <2>4, StreamsNumbers
    <3>2. dropped' = dropped
      BY <3>1 DEF StreamsInv, StreamsTypeOK
    <3>3. Conveyed' /\ wire' \in Seq(Units) /\ Len(wire') = Len(wire) + 1 /\ sent' \in 0 .. Total
          /\ lied' \subseteq Ends
      BY <1>2, <2>1, <3>1, <3>2, SendingConveys
    <3>4. Len(wire') <= Room
      BY <2>1, <2>4, <3>3, StreamsNumbers
    <3> QED BY <2>1, <2>2, <2>3, <3>3, <3>4 DEF StreamsInv, StreamsTypeOK, EndInv
  <2>5. CASE ~ Len(wire) < Room
    <3>1. wire' = wire /\ dropped'
      <4>1. Len(wire) = Room
        BY <2>1, <2>5, StreamsNumbers
      <4> QED BY <1>2, <2>5, <4>1, Zenon
    <3>2. sent' \in 0 .. Total /\ lied' \subseteq Ends
      BY <1>2, StreamsNumbers, EndsAre DEF Sent, StreamsInv, StreamsTypeOK
    <3>3. Conveyed'
      BY <3>1 DEF Conveyed
    <3> QED BY <2>1, <2>2, <2>3, <3>1, <3>2, <3>3 DEF StreamsInv, StreamsTypeOK, EndInv
  <2> QED BY <2>4, <2>5
<1> QED BY <1>1, <1>2 DEF CanSend

-----------------------------------------------------------------------------
\* What was received is the front of what was on its way.
LEMMA ReceivedKeeps ==
  ASSUME StreamsInv, NEW n \in 1 .. Len(wire), Received(n)
  PROVE  StreamsInv'
<1> DEFINE front == SubSeq(wire, 1, n)
           rest == SubSeq(wire, n + 1, Len(wire))
<1>1. wire \in Seq(Units) /\ taken \in Seq(Units) /\ Len(wire) \in Nat /\ n \in Nat /\ wire # <<>>
  BY LenProperties DEF StreamsInv, StreamsTypeOK
<1>2. /\ front \in Seq(Units) /\ rest \in Seq(Units)
      /\ Len(rest) = Len(wire) - n
  <2>1. \A i \in 1 .. Len(wire) : wire[i] \in Units
    BY <1>1, ElementOfSeq
  <2> QED BY <1>1, <2>1, SubSeqProperties
<1>3. front \o rest = wire
  <2>1. SubSeq(wire, 1, n) \o SubSeq(wire, n + 1, Len(wire)) = SubSeq(wire, 1, Len(wire))
    BY <1>1, ConcatAdjacentSubSeq
  <2> QED BY <1>1, <2>1, SubSeqFull
<1>4. /\ wire' = rest
      /\ \/ lied' = lied \cup {"receiver"} /\ UNCHANGED taken
         \/ taken' = taken \o front /\ UNCHANGED lied
      /\ UNCHANGED <<sort, link, told, sent, ended, stale, fails, dropped>>
  BY DEF Received
<1> HIDE DEF front, rest
<1>5. ~ ended
  BY <1>1 DEF StreamsInv, EndInv
<1>6. taken' \in Seq(Units) /\ lied' \subseteq Ends
  <2>1. taken \in Seq(Units) /\ lied \subseteq Ends
    BY DEF StreamsInv, StreamsTypeOK
  <2>2. taken \o front \in Seq(Units)
    BY <1>2, <2>1, ConcatProperties
  <2>3. CASE lied' = lied \cup {"receiver"} /\ UNCHANGED taken
    BY <2>1, <2>3, EndsAre
  <2>4. CASE taken' = taken \o front /\ UNCHANGED lied
    BY <2>1, <2>2, <2>4
  <2> QED BY <1>4, <2>3, <2>4
<1>7. StreamsTypeOK' /\ EndInv'
  <2>1. Len(wire') <= Room /\ wire' \in Seq(Units)
    <3>1. Len(wire) <= Room
      BY DEF StreamsInv, StreamsTypeOK
    <3> QED BY <1>1, <1>2, <1>4, <3>1, StreamsNumbers
  <2> QED BY <1>4, <1>5, <1>6, <2>1 DEF StreamsInv, StreamsTypeOK, EndInv
<1>8. Conveyed'
  <2>1. CASE lied' = lied \cup {"receiver"}
    BY <2>1 DEF Conveyed
  <2>2. CASE taken' = taken \o front /\ UNCHANGED lied
    <3>1. taken' \o wire' = taken \o wire
      <4>1. (taken \o front) \o rest = taken \o (front \o rest)
        <5>1. taken \in Seq(Units) /\ front \in Seq(Units) /\ rest \in Seq(Units)
          BY <1>1, <1>2
        <5> QED BY <5>1, ConcatAssociative, SMTT(30)
      <4> QED BY <1>3, <1>4, <2>2, <4>1
    <3> QED BY <1>4, <1>5, <2>2, <3>1 DEF StreamsInv, Conveyed
  <2> QED BY <1>4, <2>1, <2>2
<1> QED BY <1>7, <1>8 DEF StreamsInv

\* recv_data at the end.
LEMMA RecvEndKeeps ==
  ASSUME StreamsInv, RecvEnd
  PROVE  StreamsInv'
<1>1. UNCHANGED <<sort, link, told, sent, wire, taken, stale, fails, dropped>>
  BY DEF RecvEnd
<1>2. \/ lied' = lied \cup {"receiver"} /\ UNCHANGED ended
      \/ ended' = TRUE /\ UNCHANGED lied
  BY DEF RecvEnd
<1>3. ended' \in BOOLEAN /\ lied' \subseteq Ends
  <2>1. lied' \subseteq Ends
    BY <1>2, EndsAre DEF StreamsInv, StreamsTypeOK
  <2>2. ended' \in BOOLEAN
    BY <1>2, Zenon DEF StreamsInv, StreamsTypeOK
  <2> QED BY <2>1, <2>2
<1>4. taken \o wire = taken
  <2>1. wire = <<>> /\ taken \in Seq(Units)
    BY DEF RecvEnd, StreamsInv, StreamsTypeOK
  <2> QED BY <2>1, ConcatEmptySeq
<1>5. Conveyed'
  BY <1>1, <1>2, <1>4 DEF StreamsInv, Conveyed
<1>6. EndInv'
  BY <1>1 DEF RecvEnd, StreamsInv, EndInv
<1> QED BY <1>1, <1>3, <1>5, <1>6 DEF StreamsInv, StreamsTypeOK

\* recv_data.
LEMMA RecvKeeps ==
  ASSUME StreamsInv, StreamRecv \/ CanRecv
  PROVE  StreamsInv'
<1>1. CASE StreamRecvFails
  BY <1>1, EndsAre, FailKeepsStreams DEF StreamRecvFails
<1>2. CASE \E n \in 1 .. Len(wire) : Received(n)
  BY <1>2, ReceivedKeeps
<1>3. CASE wire # <<>> /\ Received(1)
  <2>1. 1 \in 1 .. Len(wire)
    BY <1>3, EmptySeq DEF StreamsInv, StreamsTypeOK
  <2> QED BY <1>3, <2>1, ReceivedKeeps
<1> QED BY <1>1, <1>2, <1>3, RecvEndKeeps DEF StreamRecv, CanRecv

\* Every step keeps it.
LEMMA StreamsInvKept == StreamsInv /\ [StreamsNext]_streamVars => StreamsInv'
<1> SUFFICES ASSUME StreamsInv, [StreamsNext]_streamVars PROVE StreamsInv'
  OBVIOUS
<1>1. CASE UNCHANGED streamVars
  BY <1>1, StillKeepsConveyed DEF streamVars, StreamsInv, StreamsTypeOK, EndInv
<1>2. CASE (sort # "can" /\ Connect) \/ StreamSend \/ StreamRecv \/ (sort = "can" /\ CanSend) \/ CanRecv
  BY <1>2, ConnectKeeps, StreamSendKeeps, CanSendKeeps, RecvKeeps
<1>3. CASE Established \/ Close \/ ErrnoSet
  BY <1>3, StepsOfTheOthers
<1> QED BY <1>1, <1>2, <1>3 DEF StreamsNext, TcpConnect, TcpSend, TcpRecv, UnixConnect, UnixSend,
           UnixRecv, VsockConnect, VsockSend, VsockRecv, CanSendData, CanRecvData

\* So in every behaviour.
LEMMA StreamsInvariance == StreamsSpec => []StreamsInv
BY StreamsInitInv, StreamsInvKept, PTL DEF StreamsSpec

-----------------------------------------------------------------------------
(* A datagram server that accepts clients: UdpAccept.                      *)

\* The socket of the accept under way.
Under == {s \in Made : stage[s] \in {"socket", "bound"}}

UnderInv == /\ stage[Server] = "bound"
            /\ \A s \in Under : peer[s] = calling /\ calling # Nobody
            /\ \A s, r \in Under : s = r

\* Nothing is queued at a socket without an address, or at one that is closed.
QueueInv == \A s \in Made : stage[s] \notin {"bound", "connected"} => inbox[s] = <<>>

PeerInv == ~ mixed => \A s \in Made : \A i \in 1 .. Len(inbox[s]) : inbox[s][i] = peer[s]

HeldInv == \A s \in held : stage[s] = "connected"

\* A socket that accept has made was made for a client.
MadeInv == \A s \in Made : stage[s] # "unused" => peer[s] \in Clients

AcceptInv == /\ AcceptTypeOK /\ UnderInv /\ QueueInv /\ PeerInv /\ HeldInv /\ MadeInv
       /\ OwnClient

-----------------------------------------------------------------------------
\* The server's own socket is none that accept has made.
LEMMA ServerIsNotMade == Server \in Bound /\ Server \notin Made /\ Made \subseteq Bound
BY AcceptAssumption DEF Server, Made, Bound

\* At first there is the server's socket only.
LEMMA AcceptInitInv == AcceptInit => AcceptInv
<1> SUFFICES ASSUME AcceptInit PROVE AcceptInv
  OBVIOUS
<1> USE ServerIsNotMade
<1>1. AcceptTypeOK
  <2>1. /\ stage \in [Bound -> {"unused", "socket", "bound", "connected", "closed"}]
        /\ peer \in [Bound -> Clients \cup {Nobody}]
    BY DEF AcceptInit
  <2>2. inbox \in [Bound -> Seq(Clients)]
    BY DEF AcceptInit
  <2>3. /\ held \in SUBSET Made /\ calling \in Clients \cup {Nobody} /\ byAddr \in BOOLEAN
        /\ asking \in SUBSET Clients /\ lost \in SUBSET Clients
    BY DEF AcceptInit
  <2>4. /\ tries \in 0 .. MaxTries
        /\ addr \in [Clients -> Senders] /\ filter \in [Clients -> Senders \cup {"nobody"}]
        /\ queue \in [Clients -> Seq(Senders)]
    BY AcceptAssumption DEF AcceptInit, Senders
  <2>5. mixed \in BOOLEAN
    BY Zenon DEF AcceptInit
  <2>6. reads \in SUBSET (Clients \X Clients)
    BY DEF AcceptInit
  <2> QED BY <2>1, <2>2, <2>3, <2>4, <2>5, <2>6 DEF AcceptTypeOK
<1>2. Under = {}
  BY DEF AcceptInit, Under
<1>3. UnderInv /\ QueueInv /\ PeerInv /\ HeldInv /\ MadeInv /\ OwnClient
  BY <1>2 DEF AcceptInit, UnderInv, QueueInv, PeerInv, HeldInv, MadeInv, OwnClient
<1> QED BY <1>1, <1>3 DEF AcceptInv
-----------------------------------------------------------------------------
\* The kernel hands a datagram to the server's socket, to one that is connected
\* to the sender, or to that of the accept under way.
LEMMA RouteIs ==
  ASSUME AcceptTypeOK, UnderInv, NEW c \in Clients, NEW s \in Route(c)
  PROVE  /\ s \in Bound /\ stage[s] \in {"bound", "connected"}
         /\ s # Server => \/ stage[s] = "connected" /\ peer[s] = c
                          \/ peer[s] = calling /\ calling # Nobody
BY ServerIsNotMade DEF AcceptTypeOK, UnderInv, Under, Route, Connected, Bound

\* A client's datagram that arrives is queued at a socket that is to have it.
LEMMA ArrivesKeeps ==
  ASSUME AcceptInv, NEW c \in Clients, NEW s \in Route(c),
         inbox' = [inbox EXCEPT ![s] = Append(@, c)],
         mixed' = (mixed \/ (s # Server /\ calling \notin {c, Nobody})),
         UNCHANGED <<stage, peer, held, calling, reads>>
  PROVE  /\ inbox' \in [Bound -> Seq(Clients)] /\ mixed' \in BOOLEAN
         /\ UnderInv' /\ QueueInv' /\ PeerInv' /\ HeldInv' /\ MadeInv' /\ OwnClient'
<1> USE DEF AcceptInv
<1>2. /\ s \in Bound /\ stage[s] \in {"bound", "connected"}
      /\ s # Server => \/ stage[s] = "connected" /\ peer[s] = c
                       \/ peer[s] = calling /\ calling # Nobody
  BY RouteIs
<1>3. inbox' \in [Bound -> Seq(Clients)]
  BY <1>2 DEF AcceptTypeOK
<1>4. mixed' \in BOOLEAN
  BY Zenon DEF AcceptTypeOK
<1>7. UnderInv' /\ HeldInv' /\ MadeInv'
  BY DEF UnderInv, Under, HeldInv, MadeInv
<1>8. QueueInv'
  BY <1>2, ServerIsNotMade DEF QueueInv, AcceptTypeOK
<1>9. PeerInv'
  <2> SUFFICES ASSUME ~ mixed', NEW r \in Made, NEW i \in 1 .. Len(inbox'[r])
               PROVE  inbox'[r][i] = peer[r]
    BY DEF PeerInv
  <2>1. ~ mixed /\ (s # Server => peer[s] = c)
    BY <1>2
  <2>2. CASE r # s
    BY <2>1, <2>2, ServerIsNotMade DEF PeerInv, AcceptTypeOK
  <2>3. CASE r = s
    <3>1. inbox'[r] = Append(inbox[r], c) /\ inbox[r] \in Seq(Clients) /\ s # Server
      BY <1>2, <2>3, ServerIsNotMade DEF AcceptTypeOK
    <3>2. CASE i \in 1 .. Len(inbox[r])
      BY <2>1, <3>1, <3>2 DEF PeerInv
    <3>3. CASE i = Len(inbox[r]) + 1
      BY <2>1, <2>3, <3>1, <3>3
    <3> QED BY <3>1, <3>2, <3>3
  <2> QED BY <2>2, <2>3
<1>10. OwnClient'
  BY DEF OwnClient
<1> QED BY <1>3, <1>4, <1>7, <1>8, <1>9, <1>10

\* A client sends: the datagram arrives, is lost or goes to the stranger.
LEMMA AskKeeps ==
  ASSUME AcceptInv, NEW c \in Clients, Ask(c)
  PROVE  AcceptInv'
<1> USE DEF AcceptInv
<1>1. tries' \in 0 .. MaxTries /\ asking' \in SUBSET Clients
  BY AcceptAssumption DEF Ask, AcceptTypeOK
<1>2. UNCHANGED <<stage, peer, held, calling, byAddr, addr, filter, queue, reads>>
  BY DEF Ask, server
<1>3. CASE /\ UNCHANGED lost
           /\ \E s \in Route(c) :
                /\ inbox' = [inbox EXCEPT ![s] = Append(@, c)]
                /\ mixed' = (mixed \/ (s # Server /\ calling \notin {c, Nobody}))
  <2>1. /\ inbox' \in [Bound -> Seq(Clients)] /\ mixed' \in BOOLEAN
        /\ UnderInv' /\ QueueInv' /\ PeerInv' /\ HeldInv' /\ MadeInv' /\ OwnClient'
    BY <1>2, <1>3, ArrivesKeeps
  <2> QED BY <1>1, <1>2, <1>3, <2>1 DEF AcceptTypeOK
<1>4. CASE lost' \in {lost, lost \cup ({c} \cap asking')} /\ UNCHANGED <<inbox, mixed>>
  <2>1. AcceptTypeOK'
    BY <1>1, <1>2, <1>4 DEF AcceptTypeOK
  <2>2. UnderInv' /\ QueueInv' /\ PeerInv' /\ HeldInv' /\ MadeInv' /\ OwnClient'
    BY <1>2, <1>4 DEF UnderInv, Under, QueueInv, PeerInv, HeldInv, MadeInv, OwnClient
  <2> QED BY <2>1, <2>2
<1> QED BY <1>3, <1>4 DEF Ask, Transmit

\* What the kernel gives to a client is queued there, or not.
LEMMA DeliverKeeps ==
  ASSUME AcceptTypeOK, NEW c \in Clients, NEW sender \in Senders, Deliver(c, sender)
  PROVE  queue' \in [Clients -> Seq(Senders)]
BY DEF Deliver, AcceptTypeOK

\* The other calls of a client, and what the strangers send to it.
LEMMA ClientKeeps ==
  ASSUME AcceptInv, NEW c \in Clients,
         ClientConnect(c) \/ GetAnswer(c) \/ GiveUp(c) \/ Stray(c)
  PROVE  AcceptInv'
<1> USE DEF AcceptInv
<1>1. UNCHANGED <<stage, peer, inbox, held, calling, byAddr, mixed, reads>>
  BY DEF ClientConnect, GetAnswer, GiveUp, Stray, sockets, server
<1>2. UnderInv' /\ QueueInv' /\ PeerInv' /\ HeldInv' /\ MadeInv' /\ OwnClient'
  BY <1>1 DEF UnderInv, Under, QueueInv, PeerInv, HeldInv, MadeInv, OwnClient
<1>3. CASE ClientConnect(c)
  <2>1. filter' \in [Clients -> Senders \cup {"nobody"}]
    BY <1>3 DEF ClientConnect, AcceptTypeOK
  <2>2. AcceptTypeOK'
    BY <1>1, <1>3, <2>1 DEF ClientConnect, AcceptTypeOK
  <2> QED BY <1>2, <2>2
<1>4. CASE GetAnswer(c)
  <2>1. Head(queue[c]) \in Senders /\ Tail(queue[c]) \in Seq(Senders)
    BY <1>4 DEF GetAnswer, AcceptTypeOK
  <2>2. addr' \in [Clients -> Senders] /\ queue' \in [Clients -> Seq(Senders)]
    BY <1>4, <2>1 DEF GetAnswer, AcceptTypeOK
  <2>3. AcceptTypeOK'
    BY <1>1, <1>4, <2>2 DEF GetAnswer, AcceptTypeOK
  <2> QED BY <1>2, <2>3
<1>5. CASE GiveUp(c)
  <2>1. AcceptTypeOK'
    BY <1>1, <1>5 DEF GiveUp, AcceptTypeOK
  <2> QED BY <1>2, <2>1
<1>6. CASE Stray(c)
  <2>1. queue' \in [Clients -> Seq(Senders)] /\ tries' \in 0 .. MaxTries
    BY <1>6, DeliverKeeps, AcceptAssumption DEF Stray, Senders, AcceptTypeOK
  <2>2. AcceptTypeOK'
    BY <1>1, <1>6, <2>1 DEF Stray, AcceptTypeOK
  <2> QED BY <1>2, <2>2
<1> QED BY <1>3, <1>4, <1>5, <1>6

-----------------------------------------------------------------------------
\* What a receive takes from a queue leaves the rest of it there.
LEMMA TakeKeeps ==
  ASSUME AcceptTypeOK, QueueInv, PeerInv, NEW s \in Bound, inbox[s] # <<>>,
         inbox' = [inbox EXCEPT ![s] = Tail(@)],
         UNCHANGED <<stage, peer, mixed>>
  PROVE  /\ inbox' \in [Bound -> Seq(Clients)] /\ Head(inbox[s]) \in Clients
         /\ QueueInv' /\ PeerInv'
         /\ s \in Made /\ ~ mixed => Head(inbox[s]) = peer[s]
<1>1. /\ inbox[s] \in Seq(Clients) /\ Len(inbox[s]) > 0
      /\ Tail(inbox[s]) \in Seq(Clients) /\ Len(Tail(inbox[s])) = Len(inbox[s]) - 1
      /\ \A i \in 1 .. Len(Tail(inbox[s])) : Tail(inbox[s])[i] = inbox[s][i + 1]
      /\ Head(inbox[s]) = inbox[s][1] /\ Head(inbox[s]) \in Clients
  BY DEF AcceptTypeOK
<1>2. inbox' \in [Bound -> Seq(Clients)]
  BY <1>1 DEF AcceptTypeOK
<1>3. QueueInv'
  <2> SUFFICES ASSUME NEW r \in Made, stage[r] \notin {"bound", "connected"}
               PROVE  inbox'[r] = <<>>
    BY DEF QueueInv
  <2>1. r # s /\ r \in Bound
    BY ServerIsNotMade DEF QueueInv
  <2> QED BY <2>1 DEF QueueInv, AcceptTypeOK
<1>4. PeerInv'
  <2> SUFFICES ASSUME ~ mixed, NEW r \in Made, NEW i \in 1 .. Len(inbox'[r])
               PROVE  inbox'[r][i] = peer[r]
    BY DEF PeerInv
  <2>1. CASE r # s
    BY <2>1, ServerIsNotMade DEF PeerInv, AcceptTypeOK
  <2>2. CASE r = s
    <3>1. inbox'[r] = Tail(inbox[s]) /\ i + 1 \in 1 .. Len(inbox[s])
      BY <1>1, <2>2 DEF AcceptTypeOK
    <3> QED BY <1>1, <2>2, <3>1 DEF PeerInv
  <2> QED BY <2>1, <2>2
<1>5. s \in Made /\ ~ mixed => Head(inbox[s]) = peer[s]
  BY <1>1 DEF PeerInv
<1> QED BY <1>1, <1>2, <1>3, <1>4, <1>5

\* A datagram is answered, or not.
LEMMA ReplyKeeps ==
  ASSUME AcceptTypeOK, NEW c \in Clients, NEW r \in Clients, Reply(c, r)
  PROVE  queue' \in [Clients -> Seq(Senders)] /\ lost' \in SUBSET Clients
<1>1. CASE r = c /\ Deliver(c, "server") /\ UNCHANGED lost
  BY <1>1, DeliverKeeps DEF Senders, AcceptTypeOK
<1>2. CASE /\ lost' = lost \cup ({c} \cap asking)
           /\ UNCHANGED queue \/ Deliver(r, "server")
  BY <1>2, DeliverKeeps DEF Senders, AcceptTypeOK
<1> QED BY <1>1, <1>2 DEF Reply

\* The server reads its socket, and calls accept.
LEMMA ServerRecvKeeps ==
  ASSUME AcceptInv, ServerRecv
  PROVE  AcceptInv'
<1> USE DEF AcceptInv
<1> DEFINE c == Head(inbox[Server])
<1>1. /\ inbox' \in [Bound -> Seq(Clients)] /\ c \in Clients /\ QueueInv' /\ PeerInv'
  BY TakeKeeps, ServerIsNotMade DEF ServerRecv
<1>2. /\ queue' \in [Clients -> Seq(Senders)] /\ lost' \in SUBSET Clients
      /\ calling' \in Clients \cup {Nobody}
  BY <1>1, ReplyKeeps DEF ServerRecv, AcceptTypeOK
<1>3. AcceptTypeOK'
  BY <1>1, <1>2 DEF ServerRecv, AcceptTypeOK
<1>4. UnderInv'
  BY DEF ServerRecv, UnderInv, Under
<1>5. HeldInv' /\ MadeInv' /\ OwnClient'
  BY DEF ServerRecv, HeldInv, MadeInv, OwnClient
<1> QED BY <1>1, <1>3, <1>4, <1>5

\* The server reads an accepted descriptor.
LEMMA AcceptedRecvKeeps ==
  ASSUME AcceptInv, NEW s \in Made, AcceptedRecv(s)
  PROVE  AcceptInv'
<1> USE DEF AcceptInv
<1> DEFINE c == Head(inbox[s])
<1>1. /\ inbox' \in [Bound -> Seq(Clients)] /\ c \in Clients /\ QueueInv' /\ PeerInv'
      /\ ~ mixed => c = peer[s]
  BY TakeKeeps, ServerIsNotMade DEF AcceptedRecv
<1>2. stage[s] = "connected" /\ s \in Bound
  BY ServerIsNotMade DEF AcceptedRecv, HeldInv
<1>3. peer[s] \in Clients
  BY <1>2 DEF MadeInv
<1>4. queue' \in [Clients -> Seq(Senders)] /\ lost' \in SUBSET Clients
  <2>1. (IF byAddr THEN c ELSE peer[s]) \in Clients
    BY <1>1, <1>3
  <2>2. Reply(c, IF byAddr THEN c ELSE peer[s])
    BY DEF AcceptedRecv
  <2> QED BY <1>1, <2>1, <2>2, ReplyKeeps
<1>5. reads' \in SUBSET (Clients \X Clients)
  BY <1>1, <1>3 DEF AcceptedRecv, AcceptTypeOK
<1>6. AcceptTypeOK'
  BY <1>1, <1>4, <1>5 DEF AcceptedRecv, server, AcceptTypeOK
<1>7. UnderInv' /\ HeldInv' /\ MadeInv'
  BY DEF AcceptedRecv, server, UnderInv, Under, HeldInv, MadeInv
<1>8. OwnClient'
  BY <1>1 DEF AcceptedRecv, OwnClient
<1> QED BY <1>1, <1>6, <1>7, <1>8
-----------------------------------------------------------------------------
\* The steps of an accept.
LEMMA AcceptSocketKeeps ==
  ASSUME AcceptInv, AcceptSocket
  PROVE  AcceptInv'
<1> USE DEF AcceptInv
<1>1. calling # Nobody /\ calling \in Clients /\ Under = {}
  BY DEF AcceptSocket, AcceptTypeOK, Under
<1>2. CASE \E s \in Made : /\ stage[s] = "unused" /\ stage' = [stage EXCEPT ![s] = "socket"]
                           /\ peer' = [peer EXCEPT ![s] = calling] /\ UNCHANGED calling
  <2>1. PICK s \in Made : /\ stage[s] = "unused" /\ stage' = [stage EXCEPT ![s] = "socket"]
                          /\ peer' = [peer EXCEPT ![s] = calling] /\ UNCHANGED calling
    BY <1>2
  <2>2. /\ stage' \in [Bound -> {"unused", "socket", "bound", "connected", "closed"}]
        /\ peer' \in [Bound -> Clients \cup {Nobody}]
    BY <1>1, <2>1 DEF AcceptTypeOK
  <2>3. AcceptTypeOK'
    BY <2>1, <2>2 DEF clients, AcceptSocket, AcceptTypeOK
  <2>4. \A r \in Bound : r # s => stage'[r] = stage[r] /\ peer'[r] = peer[r]
    BY <2>1 DEF AcceptTypeOK
  <2>5. stage'[s] = "socket" /\ peer'[s] = calling /\ inbox[s] = <<>>
    BY <2>1, ServerIsNotMade DEF AcceptTypeOK, QueueInv
  <2>6. Under' = {s} /\ UnderInv'
    BY <1>1, <2>1, <2>4, <2>5, ServerIsNotMade DEF Under, UnderInv
  <2>7. QueueInv' /\ HeldInv' /\ MadeInv' /\ OwnClient'
    BY <1>1, <2>1, <2>4, <2>5, ServerIsNotMade
       DEF AcceptSocket, QueueInv, HeldInv, MadeInv, OwnClient, AcceptTypeOK
  <2>8. PeerInv'
    <3> SUFFICES ASSUME ~ mixed, NEW r \in Made, NEW i \in 1 .. Len(inbox[r])
                 PROVE  inbox[r][i] = peer'[r]
      BY DEF PeerInv, AcceptSocket
    <3>1. r # s
      BY <2>5
    <3> QED BY <2>4, <3>1, ServerIsNotMade DEF PeerInv
  <2> QED BY <2>3, <2>6, <2>7, <2>8
<1>3. CASE calling' = Nobody /\ UNCHANGED <<stage, peer>>
  BY <1>1, <1>3 DEF clients, AcceptSocket, AcceptTypeOK, UnderInv, Under, QueueInv, PeerInv, HeldInv,
                    MadeInv, OwnClient
<1> QED BY <1>2, <1>3 DEF AcceptSocket

\* A socket is closed, with what is queued at it.
LEMMA ThrowKeeps ==
  ASSUME AcceptInv, NEW s \in Made, Throw(s), stage[s] # "unused",
         s \in Under \/ Under = {}, calling' = Nobody,
         held' = held \ {s},
         UNCHANGED <<peer, byAddr, clients, mixed, reads>>
  PROVE  AcceptInv'
<1> USE DEF AcceptInv
<1>1. s \in Bound /\ s # Server
  BY ServerIsNotMade
<1>2. /\ stage' \in [Bound -> {"unused", "socket", "bound", "connected", "closed"}]
      /\ inbox' \in [Bound -> Seq(Clients)]
  BY <1>1 DEF Throw, AcceptTypeOK
<1>3. ToSet(inbox[s]) \subseteq Clients
  BY <1>1 DEF ToSet, AcceptTypeOK
<1>4. AcceptTypeOK'
  BY <1>2, <1>3 DEF clients, Throw, AcceptTypeOK
<1>5. /\ \A r \in Bound : r # s => stage'[r] = stage[r] /\ inbox'[r] = inbox[r]
      /\ stage'[s] = "closed" /\ inbox'[s] = <<>>
  BY <1>1 DEF Throw, AcceptTypeOK
<1>6. Under' = {}
  BY <1>1, <1>5, ServerIsNotMade DEF Under, UnderInv
<1>7. UnderInv' /\ QueueInv' /\ HeldInv' /\ MadeInv' /\ OwnClient'
  BY <1>1, <1>5, <1>6, ServerIsNotMade
     DEF UnderInv, QueueInv, HeldInv, MadeInv, OwnClient, AcceptTypeOK
<1>8. PeerInv'
  BY <1>1, <1>5, ServerIsNotMade DEF PeerInv
<1> QED BY <1>4, <1>7, <1>8

\* A socket of the accept under way that gets a step further.
LEMMA StageKeeps ==
  ASSUME AcceptInv, NEW s \in Under, NEW next \in {"bound", "connected"},
         stage' = [stage EXCEPT ![s] = next],
         next = "bound" => UNCHANGED <<calling, held>>,
         next = "connected" => held' = held \cup {s} /\ calling' = Nobody,
         UNCHANGED <<peer, inbox, byAddr, clients, mixed, lost, reads>>
  PROVE  AcceptInv'
<1> USE DEF AcceptInv
<1>1. s \in Made /\ s \in Bound /\ s # Server
  BY ServerIsNotMade DEF Under
<1>2. stage' \in [Bound -> {"unused", "socket", "bound", "connected", "closed"}]
  BY DEF AcceptTypeOK
<1>3. AcceptTypeOK'
  BY <1>1, <1>2 DEF clients, AcceptTypeOK
<1>4. stage'[s] = next /\ \A r \in Bound : r # s => stage'[r] = stage[r]
  BY <1>1 DEF AcceptTypeOK
<1>5. UnderInv'
  BY <1>1, <1>4, ServerIsNotMade DEF Under, UnderInv
<1>6. QueueInv' /\ MadeInv' /\ HeldInv'
  BY <1>1, <1>4, ServerIsNotMade DEF Under, UnderInv, QueueInv, MadeInv, HeldInv, AcceptTypeOK
<1>7. PeerInv' /\ OwnClient'
  BY DEF PeerInv, OwnClient
<1> QED BY <1>3, <1>5, <1>6, <1>7

\* server_accept: bind of the second socket.
LEMMA AcceptBindKeeps ==
  ASSUME AcceptInv, NEW s \in Made, AcceptBind(s)
  PROVE  AcceptInv'
<1>1. s \in Under /\ s \notin held
  BY DEF AcceptBind, Under, AcceptInv, HeldInv
<1>2. CASE stage' = [stage EXCEPT ![s] = "bound"] /\ UNCHANGED <<inbox, calling, lost>>
  BY <1>1, <1>2, StageKeeps DEF AcceptBind
<1>3. CASE Throw(s) /\ calling' = Nobody
  BY <1>1, <1>3, ThrowKeeps DEF AcceptBind
<1> QED BY <1>2, <1>3 DEF AcceptBind

\* server_accept: connect, or its failure.
LEMMA AcceptConnectKeeps ==
  ASSUME AcceptInv, NEW s \in Made, AcceptConnect(s)
  PROVE  AcceptInv'
<1>1. s \in Under /\ s \notin held /\ calling' = Nobody
  BY DEF AcceptConnect, Under, AcceptInv, HeldInv
<1>2. CASE stage' = [stage EXCEPT ![s] = "connected"] /\ held' = held \cup {s}
           /\ UNCHANGED <<inbox, lost>>
  BY <1>1, <1>2, StageKeeps DEF AcceptConnect
<1>3. CASE Throw(s) /\ UNCHANGED held
  BY <1>1, <1>3, ThrowKeeps DEF AcceptConnect
<1> QED BY <1>2, <1>3 DEF AcceptConnect

\* The server closes an accepted descriptor.
LEMMA LeaveKeeps ==
  ASSUME AcceptInv, NEW s \in Made, Leave(s)
  PROVE  AcceptInv'
<1>1. Under = {} /\ stage[s] = "connected"
  BY DEF Leave, AcceptInv, UnderInv, HeldInv
<1>2. calling' = Nobody /\ s \notin Under
  BY <1>1 DEF Leave
<1> QED BY <1>1, <1>2, ThrowKeeps DEF Leave

\* Every step keeps it.
LEMMA AcceptInvKept == AcceptInv /\ [AcceptNext]_acceptVars => AcceptInv'
<1>1. AcceptInv /\ UNCHANGED acceptVars => AcceptInv'
  BY DEF acceptVars, sockets, server, clients, AcceptInv, AcceptTypeOK, UnderInv, Under, QueueInv,
         PeerInv, HeldInv, MadeInv, OwnClient
<1> QED BY <1>1, AskKeeps, ClientKeeps, ServerRecvKeeps, AcceptedRecvKeeps, AcceptSocketKeeps,
           AcceptBindKeeps, AcceptConnectKeeps, LeaveKeeps DEF AcceptNext, Serve

\* So in every behaviour.
LEMMA AcceptInvariance == AcceptSpec => []AcceptInv
BY AcceptInitInv, AcceptInvKept, PTL DEF AcceptSpec

-----------------------------------------------------------------------------
(* The composition.                                                        *)

TransfersInv == /\ mode \in {"datagrams", "streams", "accept"}
                /\ UdpInv /\ StreamsInv /\ AcceptInv

\* One of the three takes a step, and the others stay where they are.
LEMMA TransfersInvariance == TransfersSpec => []TransfersInv
<1>1. TransfersInit => TransfersInv
  BY UdpInvInit, StreamsInitInv, AcceptInitInv DEF TransfersInit, TransfersInv
<1>2. ASSUME TransfersInv, [TransfersNext]_transferVars
      PROVE  TransfersInv'
  <2>1. [Next]_vars /\ [StreamsNext]_streamVars /\ [AcceptNext]_acceptVars
    BY <1>2 DEF TransfersNext, transferVars
  <2>2. mode' = mode
    BY <1>2 DEF TransfersNext, transferVars
  <2> QED BY <1>2, <2>1, <2>2, UdpInvKept, StreamsInvKept, AcceptInvKept DEF TransfersInv
<1> QED BY <1>1, <1>2, PTL DEF TransfersSpec

-----------------------------------------------------------------------------
(* Theorems.                                                               *)

\* The queues, buffers, counters and sockets of all three are what they should be,
\* for any number of messages, units, clients and faults.
THEOREM TransfersTypeCorrect == TransfersSpec => []TransfersTypeOK
<1>1. TransfersInv => TransfersTypeOK
  BY DEF TransfersInv, TransfersTypeOK, UdpInv, TypeInv, StreamsInv, AcceptInv
<1> QED BY <1>1, TransfersInvariance, PTL

\* send_data and recv_data of the datagram sockets, for any number of messages and
\* losses: until a call fails or a datagram is duplicated, the two ends are in step.
THEOREM PeersStayInStep ==
  /\ Spec => []InStep
  /\ TransfersSpec => []InStep
<1>1. UdpInv => InStep
  BY ExchangeInStep DEF UdpInv
<1>2. TransfersInv => InStep
  BY <1>1 DEF TransfersInv
<1> QED BY <1>1, <1>2, UdpInvariance, TransfersInvariance, PTL

\* send_data and recv_data of the datagram sockets, whatever fails or is lost: without
\* duplicates no more messages are acknowledged than were returned.
THEOREM AcksAreCovered ==
  /\ Spec => []AcksCovered
  /\ TransfersSpec => []AcksCovered
<1>1. UdpInv => AcksCovered
  BY LedgerCovers DEF UdpInv
<1>2. TransfersInv => AcksCovered
  BY <1>1 DEF TransfersInv
<1> QED BY <1>1, <1>2, UdpInvariance, TransfersInvariance, PTL

\* send_data and recv_data of the stream and CAN sockets, for any number of units, any
\* sizes of the calls and any room on the way, with partial transfers and failed calls:
\* every unit arrives once and in order until a stale errno misleads a caller.
THEOREM UnitsAreConveyed ==
  /\ StreamsSpec => []Conveyed
  /\ TransfersSpec => []Conveyed
<1>1. StreamsInv => Conveyed
  BY DEF StreamsInv
<1>2. TransfersInv => Conveyed
  BY <1>1 DEF TransfersInv
<1> QED BY <1>1, <1>2, StreamsInvariance, TransfersInvariance, PTL

\* However many clients there are and whatever their datagrams do around
\* server_accept: a descriptor that it has returned gives the data of its own
\* client only, as long as no other client's datagram has come to the new socket
\* between the bind and the connect.
THEOREM ReadsAreTheClients ==
  /\ AcceptSpec => []OwnClient
  /\ TransfersSpec => []OwnClient
<1>1. AcceptInv => OwnClient
  BY DEF AcceptInv
<1>2. TransfersInv => OwnClient
  BY <1>1 DEF TransfersInv
<1> QED BY <1>1, <1>2, AcceptInvariance, TransfersInvariance, PTL
=============================================================================
