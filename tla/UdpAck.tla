------------------------------- MODULE UdpAck -------------------------------
(***************************************************************************)
(* send_data and recv_data of the datagram sockets of src/src/sock-udp.c,  *)
(* usock-udp.c and vsock-udp.c between two peers: a datagram is answered   *)
(* by the word VERIFIER, which names no datagram.  A network may lose,     *)
(* duplicate and reorder; the kernel's queue of a Unix socket does not.    *)
(* errno is tested before the result is, and no call clears it.            *)
(***************************************************************************)
EXTENDS Naturals, Sequences, SequencesExt

CONSTANTS Families,   \* the families of sockets that are tried
          Peers,      \* the two ends, each with one socket and one thread
          MaxSends,   \* bound: MaxSends[p] is how often p calls send_data
          MaxRecvs,   \* bound: MaxRecvs[p] is how often p calls recv_data
          MaxFaults   \* bound: how many datagrams are lost or duplicated

ASSUME UdpAssumption ==
  /\ Families \subseteq {"udp", "unix", "vsock"}
  /\ \E p, r \in Peers : p # r /\ Peers = {p, r}
  /\ {MaxSends, MaxRecvs} \subseteq [Peers -> Nat] /\ MaxFaults \in Nat

Peer(p) == CHOOSE r \in Peers : r # p

Numbers == UNION {1 .. MaxSends[p] : p \in Peers}

\* n is the number of the message, also in the answer to it, which does not
\* carry it: the code cannot tell.
Datagrams == [kind : {"data", "verifier"}, n : Numbers]

VARIABLES
  family,  \* of the two sockets
  net,     \* net[p]: the datagrams on their way to p, oldest first
  pc,      \* where each peer is
  errno,   \* of each peer: "EINTR or EAGAIN", or "0" for any other
  last,    \* the number of the message each peer handed to send_data last
  buf,     \* what recvfrom put in the buffer of recv_data
  sends, recvs,    \* how many calls were made
  ok,      \* history: for which messages send_data has returned a size
  got,     \* history: what recv_data has returned a size for
  failed,  \* history: a call has failed
  losses, copies   \* history: what the network did

counts  == <<family, sends, recvs>>
history == <<ok, got, failed, losses, copies>>
vars    == <<net, pc, errno, last, buf, counts, history>>

Errors == {"EINTR or EAGAIN"}

\* Every variable has its type; an answer is due when there is a datagram for it.
TypeOK ==
  /\ family \in Families /\ net \in [Peers -> Seq(Datagrams)]
  /\ pc \in [Peers -> {"idle", "getAck", "getData", "ack"}]
  /\ errno \in [Peers -> Errors \cup {"0"}]
  /\ last \in [Peers -> Numbers \cup {0}]
  /\ buf \in [Peers -> {<<>>} \cup {<<d>> : d \in Datagrams}]
  /\ \A p \in Peers : buf[p] # <<>> <=> pc[p] = "ack"
  /\ \A p \in Peers : sends[p] \in 0 .. MaxSends[p] /\ recvs[p] \in 0 .. MaxRecvs[p]
  /\ ok \in [Peers -> Seq(Numbers)] /\ got \in [Peers -> Seq(Datagrams)]
  /\ failed \in BOOLEAN /\ losses \in 0 .. MaxFaults /\ copies \in 0 .. MaxFaults

Init ==
  /\ family \in Families
  /\ net = [p \in Peers |-> <<>>]
  /\ pc = [p \in Peers |-> "idle"]
  /\ errno = [p \in Peers |-> "0"]
  /\ last = [p \in Peers |-> 0]
  /\ buf = [p \in Peers |-> <<>>]
  /\ sends = [p \in Peers |-> 0] /\ recvs = [p \in Peers |-> 0]
  /\ ok = [p \in Peers |-> <<>>] /\ got = [p \in Peers |-> <<>>]
  /\ failed = FALSE /\ losses = 0 /\ copies = 0

Goto(p, label) == pc' = [pc EXCEPT ![p] = label]
Data(n)        == [kind |-> "data", n |-> n]
Verifier(n)    == [kind |-> "verifier", n |-> n]
Put(p, d)      == net' = [net EXCEPT ![p] = Append(@, d)]

\* Which datagrams recvfrom may find: the queue of a Unix socket keeps the order.
Arriving(p) == {i \in DOMAIN net[p] : family = "unix" => i = 1}
TakeFor(p, i)  == net' = [net EXCEPT ![p] = RemoveAt(@, i)]

\* if (errno == EINTR || errno == EAGAIN) return -errno; whoever set it.
Stale(p) == errno[p] \in Errors

\* A system call fails: the function returns, and errno stays.
SyscallFails(p) ==
  /\ \E e \in Errors \cup {"0"} : errno' = [errno EXCEPT ![p] = e]
  /\ Goto(p, "idle") /\ failed' = TRUE
  /\ UNCHANGED <<net, last, ok, got, losses, copies>>

-----------------------------------------------------------------------------
\* The message that is sent next: a new one, or once more the last one, if
\* send_data has not returned its size.
ToSend(p) ==
  {n \in {last[p], last[p] + 1} : n \in Numbers /\ \A i \in DOMAIN ok[p] : ok[p][i] # n}

\* send_data is called, and sendto sends the message.
Send(p, n) ==
  /\ pc[p] = "idle" /\ sends[p] < MaxSends[p] /\ n \in ToSend(p)
  /\ sends' = [sends EXCEPT ![p] = @ + 1]
  /\ last' = [last EXCEPT ![p] = n]
  /\ Put(Peer(p), Data(n))
  /\ IF Stale(p) THEN failed' = TRUE /\ UNCHANGED pc
                 ELSE Goto(p, "getAck") /\ UNCHANGED failed
  /\ UNCHANGED <<family, errno, buf, recvs, ok, got, losses, copies>>

SendFails(p) ==
  /\ pc[p] = "idle" /\ sends[p] < MaxSends[p]
  /\ sends' = [sends EXCEPT ![p] = @ + 1]
  /\ SyscallFails(p)
  /\ UNCHANGED <<family, buf, recvs>>

\* Mutant of GetAck: whatever arrives is an answer.
GetAckAny(p) ==
  /\ pc[p] = "getAck"
  /\ \E i \in Arriving(p) : TakeFor(p, i)
  /\ Goto(p, "idle")
  /\ ok' = [ok EXCEPT ![p] = Append(@, last[p])] /\ UNCHANGED failed
  /\ UNCHANGED <<errno, last, buf, counts, got, losses, copies>>

\* recvfrom in send_data, and received_data != VERIFIER.
GetAck(p) ==
  /\ pc[p] = "getAck"
  /\ \E i \in Arriving(p) :
       /\ TakeFor(p, i)
       /\ IF ~ Stale(p) /\ net[p][i].kind = "verifier"
            THEN ok' = [ok EXCEPT ![p] = Append(@, last[p])] /\ UNCHANGED failed
            ELSE failed' = TRUE /\ UNCHANGED ok
  /\ Goto(p, "idle")
  /\ UNCHANGED <<errno, last, buf, counts, got, losses, copies>>

\* Mutant of RecvfromFails: recv_data answers although nothing came.
RecvfromIgnored(p) ==
  /\ pc[p] \in {"getAck", "getData"}
  /\ Goto(p, IF pc[p] = "getAck" THEN "idle" ELSE "ack")
  /\ failed' = TRUE
  /\ UNCHANGED <<net, errno, last, buf, counts, ok, got, losses, copies>>

\* recvfrom fails, in either function: a signal, SO_RCVTIMEO, MSG_DONTWAIT.
RecvfromFails(p) ==
  /\ pc[p] \in {"getAck", "getData"}
  /\ SyscallFails(p)
  /\ UNCHANGED <<buf, counts>>

-----------------------------------------------------------------------------
\* recv_data
Recv(p) ==
  /\ pc[p] = "idle" /\ recvs[p] < MaxRecvs[p]
  /\ recvs' = [recvs EXCEPT ![p] = @ + 1]
  /\ Goto(p, "getData")
  /\ UNCHANGED <<family, net, errno, last, buf, sends, history>>

\* Whatever arrives is data.
GetData(p) ==
  /\ pc[p] = "getData"
  /\ \E i \in Arriving(p) :
       /\ TakeFor(p, i)
       /\ IF Stale(p)
            THEN failed' = TRUE /\ Goto(p, "idle") /\ UNCHANGED buf
            ELSE Goto(p, "ack") /\ buf' = [buf EXCEPT ![p] = <<net[p][i]>>] /\ UNCHANGED failed
  /\ UNCHANGED <<errno, last, counts, ok, got, losses, copies>>

Returned(p) == /\ Goto(p, "idle")
               /\ buf' = [buf EXCEPT ![p] = <<>>]

\* Mutant of Ack: the answer is sent, and then the call fails.
AckFailsLate(p) ==
  /\ pc[p] = "ack"
  /\ Put(Peer(p), Verifier(buf[p][1].n))
  /\ Returned(p) /\ failed' = TRUE
  /\ UNCHANGED <<errno, last, counts, ok, got, losses, copies>>

\* Mutant of Ack: no answer.
AckNone(p) ==
  /\ pc[p] = "ack"
  /\ Returned(p)
  /\ got' = [got EXCEPT ![p] = Append(@, buf[p][1])]
  /\ UNCHANGED <<net, errno, last, counts, ok, failed, losses, copies>>

\* sendto in recv_data: to the address that recvfrom stored.
Ack(p) ==
  /\ pc[p] = "ack"
  /\ Put(Peer(p), Verifier(buf[p][1].n))
  /\ Returned(p)
  /\ IF Stale(p) THEN failed' = TRUE /\ UNCHANGED got
                 ELSE got' = [got EXCEPT ![p] = Append(@, buf[p][1])] /\ UNCHANGED failed
  /\ UNCHANGED <<errno, last, counts, ok, losses, copies>>

AckFails(p) ==
  /\ pc[p] = "ack"
  /\ SyscallFails(p)
  /\ buf' = [buf EXCEPT ![p] = <<>>]
  /\ UNCHANGED counts

-----------------------------------------------------------------------------
\* The network.
Lose ==
  /\ family # "unix"
  /\ losses + copies < MaxFaults /\ losses' = losses + 1
  /\ \E p \in Peers : \E i \in DOMAIN net[p] : TakeFor(p, i)
  /\ UNCHANGED <<pc, errno, last, buf, counts, ok, got, failed, copies>>

Duplicate ==
  /\ family # "unix"
  /\ losses + copies < MaxFaults /\ copies' = copies + 1
  /\ \E p \in Peers : \E i \in DOMAIN net[p] : Put(p, net[p][i])
  /\ UNCHANGED <<pc, errno, last, buf, counts, ok, got, failed, losses>>

\* Between two calls something else sets errno.
SetErrno(p) ==
  /\ pc[p] = "idle" /\ errno[p] # "0"
  /\ errno' = [errno EXCEPT ![p] = "0"]
  /\ UNCHANGED <<net, pc, last, buf, counts, history>>

SendData(p) == (\E n \in Numbers : Send(p, n)) \/ SendFails(p) \/ GetAck(p)
RecvData(p) == Recv(p) \/ GetData(p) \/ Ack(p) \/ AckFails(p)

UdpSendData   == family = "udp" /\ \E p \in Peers : SendData(p)
UdpRecvData   == family = "udp" /\ \E p \in Peers : RecvData(p)
UnixSendData  == family = "unix" /\ \E p \in Peers : SendData(p)
UnixRecvData  == family = "unix" /\ \E p \in Peers : RecvData(p)
VsockSendData == family = "vsock" /\ \E p \in Peers : SendData(p)
VsockRecvData == family = "vsock" /\ \E p \in Peers : RecvData(p)

Next ==
  \/ UdpSendData \/ UdpRecvData \/ UnixSendData \/ UnixRecvData
  \/ VsockSendData \/ VsockRecvData
  \/ \E p \in Peers : RecvfromFails(p) \/ SetErrno(p)
  \/ Lose \/ Duplicate

Spec == Init /\ [][Next]_vars

\* A call that can go on goes on; nobody need make one, and nothing need fail.
FairSpec == Spec /\ \A p \in Peers : WF_vars(GetAck(p) \/ GetData(p) \/ Ack(p))

-----------------------------------------------------------------------------
(* Properties.                                                             *)

\* Until a call fails or a datagram is duplicated, the two ends are in step: the
\* messages received are those acknowledged, in order and each of them once,
\* with at most one more, and no answer is taken for data.
InStep ==
  ~ failed /\ copies = 0 =>
    \A p \in Peers :
      LET r == Peer(p) IN
      /\ \A i \in DOMAIN got[r] : got[r][i] = Data(i)
      /\ Len(got[r]) - Len(ok[p]) \in {0, 1}

\* Without duplicates, and whatever else fails or is lost, send_data does not
\* report more messages as received than recv_data returned.
AcksCovered == copies = 0 => \A p \in Peers : Len(ok[p]) <= Len(got[Peer(p)])

\* A peer that waits for its answer does not wait for ever when the other one
\* waits for data, unless a call failed or a datagram was lost or duplicated.
ExchangeEnds ==
  \A p \in Peers :
    pc[p] = "getAck" /\ pc[Peer(p)] \in {"getData", "ack"}
      ~> failed \/ losses + copies > 0 \/ pc[p] = "idle"

\* sock-udp.c of VERIFIER: "Used to verify data was received".  A message for
\* which send_data returned its size was received.
AckMeansReceived ==
  \A p \in Peers : \A i \in DOMAIN ok[p] : \E j \in DOMAIN got[Peer(p)] :
    got[Peer(p)][j] = Data(ok[p][i])

\* sock-udp.h, data: "Pointer to buffer to store data received from a socket";
\* what recv_data returns is something that send_data was given.
OnlyData == \A p \in Peers : \A i \in DOMAIN got[p] : got[p][i].kind = "data"

\* sock-udp.h of recv_data, "on success: Amount of bytes received": a datagram
\* that recvfrom has taken from the socket is not reported as a failure of it.
TakenIsReturned ==
  [][\A p \in Peers : pc[p] = "getData" /\ net' # net /\ pc'[p] # pc[p] => pc'[p] = "ack"]_vars
=============================================================================
