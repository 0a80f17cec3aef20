----------------------------- MODULE UdpAccept -----------------------------
(***************************************************************************)
(* server_accept of src/src/sock-udp.c and of vsock-udp.c, which makes a   *)
(* second socket on the server's own address and connects it to a client   *)
(* that was heard of: two system calls, and in between the kernel gives    *)
(* the new socket what anybody sends.  The server reads whatever socket    *)
(* has something, answers it as recv_data does, and accepts clients that   *)
(* it does not know; a client sends again when it was answered or has      *)
(* waited long enough.  Strangers send to the clients what they like, and  *)
(* whoever send_data hears of last is whom the client's context sends to.  *)
(* A datagram takes no time; the network may lose it.                      *)
(***************************************************************************)
EXTENDS Naturals, Sequences, SequencesExt

CONSTANTS Clients,    \* the clients, each with a socket
          Nobody,     \* none of them
          MaxSockets, \* bound: how many sockets accept makes
          MaxTries    \* bound: how often the clients and the strangers send

ASSUME AcceptAssumption ==
  Nobody \notin Clients /\ MaxSockets \in Nat \ {0} /\ MaxTries \in Nat \ {0}

VARIABLES
  stage,   \* of each socket on the server's address
  peer,    \* the client that accept was called for
  inbox,   \* inbox[s]: the senders of the datagrams queued at s
  held,    \* the descriptors that accept has returned
  calling, \* the client that accept is running for, or Nobody
  byAddr,  \* recv_data is given an address to store the sender's in
  addr,    \* sock->addr of each client: whom it sends to
  filter,  \* whom each client has connected its socket to
  queue,   \* queue[c]: the senders of the datagrams queued at c
  asking,  \* the clients that wait for their answer in send_data
  tries,   \* how often the clients and the strangers have sent
  mixed,   \* history: between bind and connect a socket was sent to by another
  lost,    \* history: clients that wait, with a datagram that nobody answers them
  reads    \* history: the pairs of the client accepted and the sender read

sockets    == <<stage, peer, inbox>>
server     == <<held, calling, byAddr>>
clients    == <<addr, filter, queue, asking, tries>>
acceptVars == <<sockets, server, clients, mixed, lost, reads>>

Server == 0
Made   == 1 .. MaxSockets
Bound  == {Server} \cup Made
Senders == {"server", "stranger"}

AcceptTypeOK ==
  /\ stage \in [Bound -> {"unused", "socket", "bound", "connected", "closed"}]
  /\ peer \in [Bound -> Clients \cup {Nobody}]
  /\ inbox \in [Bound -> Seq(Clients)]
  /\ held \in SUBSET Made /\ calling \in Clients \cup {Nobody} /\ byAddr \in BOOLEAN
  /\ addr \in [Clients -> Senders] /\ filter \in [Clients -> Senders \cup {"nobody"}]
  /\ queue \in [Clients -> Seq(Senders)]
  /\ asking \in SUBSET Clients /\ lost \in SUBSET Clients
  /\ tries \in 0 .. MaxTries
  /\ mixed \in BOOLEAN /\ reads \in SUBSET (Clients \X Clients)

AcceptInit ==
  /\ stage = [s \in Bound |-> IF s = Server THEN "bound" ELSE "unused"]
  /\ peer = [s \in Bound |-> Nobody]
  /\ inbox = [s \in Bound |-> <<>>]
  /\ held = {} /\ calling = Nobody /\ byAddr \in BOOLEAN
  /\ addr = [c \in Clients |-> "server"] /\ filter = [c \in Clients |-> "nobody"]
  /\ queue = [c \in Clients |-> <<>>]
  /\ asking = {} /\ lost = {} /\ tries = 0
  /\ mixed = FALSE /\ reads = {}

Connected(c) == {s \in Made : stage[s] = "connected" /\ peer[s] = c}

\* The kernel: the socket that is connected to the sender, or else any other one.
Route(c) == IF Connected(c) # {} THEN Connected(c) ELSE {s \in Bound : stage[s] = "bound"}

\* The kernel: a client's socket gets what it is not connected to keep out.
Deliver(c, sender) ==
  queue' = IF filter[c] \in {"nobody", sender} THEN [queue EXCEPT ![c] = Append(@, sender)]
                                               ELSE queue

-----------------------------------------------------------------------------
\* client_connect, to sock->addr; a client need not make it.  What is queued stays.
ClientConnect(c) ==
  /\ c \notin asking /\ filter' = [filter EXCEPT ![c] = addr[c]]
  /\ UNCHANGED <<sockets, server, addr, queue, asking, tries, mixed, lost, reads>>

\* Where the client's datagram goes: to a socket of the server's address, or to the
\* stranger whose address sock->addr holds; or it is lost on the way.
Transmit(c) ==
  \/ /\ addr[c] = "server" /\ UNCHANGED lost
     /\ \E s \in Route(c) :
          /\ inbox' = [inbox EXCEPT ![s] = Append(@, c)]
          /\ mixed' = (mixed \/ (s # Server /\ calling \notin {c, Nobody}))
  \/ addr[c] = "server" /\ lost' = lost \cup ({c} \cap asking') /\ UNCHANGED <<inbox, mixed>>
  \/ addr[c] = "stranger" /\ UNCHANGED <<inbox, mixed, lost>>

\* sendto in send_data of a client.  When errno is EINTR or EAGAIN from an earlier
\* call, the function returns a failure now; otherwise it waits for the answer.
Ask(c) ==
  /\ c \notin asking /\ tries < MaxTries /\ tries' = tries + 1
  /\ asking' \in {asking, asking \cup {c}}
  /\ Transmit(c)
  /\ UNCHANGED <<stage, peer, server, addr, filter, queue, reads>>

\* recvfrom in send_data of a client: it stores the sender's address in sock->addr, and
\* the call ends: with a size, or with a failure if the word is not VERIFIER (a
\* stranger may send that one too) or if errno is EINTR or EAGAIN.
GetAnswer(c) ==
  /\ c \in asking /\ queue[c] # <<>> /\ asking' = asking \ {c}
  /\ addr' = [addr EXCEPT ![c] = Head(queue[c])]
  /\ queue' = [queue EXCEPT ![c] = Tail(@)] /\ lost' = lost \ {c}
  /\ UNCHANGED <<sockets, server, filter, tries, mixed, reads>>

\* The client's recvfrom fails: a signal, or SO_RCVTIMEO.
GiveUp(c) ==
  /\ c \in asking /\ asking' = asking \ {c} /\ lost' = lost \ {c}
  /\ UNCHANGED <<sockets, server, addr, filter, queue, tries, mixed, reads>>

\* A stranger sends a datagram to a client.
Stray(c) ==
  /\ tries < MaxTries /\ tries' = tries + 1 /\ Deliver(c, "stranger")
  /\ UNCHANGED <<sockets, server, addr, filter, asking, mixed, lost, reads>>

-----------------------------------------------------------------------------
\* recv_data has taken a datagram of c.  It answers to r; or errno was EINTR or EAGAIN,
\* or sendto fails, and it returns a failure; or the network loses the answer.
Reply(c, r) ==
  \/ r = c /\ Deliver(c, "server") /\ UNCHANGED lost
  \/ /\ lost' = lost \cup ({c} \cap asking)
     /\ UNCHANGED queue \/ (r # c /\ Deliver(r, "server"))

\* server_recv_data.  An address is always given; a new client may be accepted, which
\* it is not after a failure.
ServerRecv ==
  /\ calling = Nobody /\ inbox[Server] # <<>>
  /\ LET c == Head(inbox[Server]) IN
       /\ Reply(c, c)
       /\ inbox' = [inbox EXCEPT ![Server] = Tail(@)]
       /\ calling' \in {Nobody} \cup {d \in {c} : \A s \in held : peer[s] # d}
  /\ UNCHANGED <<stage, peer, held, byAddr, addr, filter, asking, tries, mixed, reads>>

\* recv_data of an accepted descriptor; the answer goes to the address that was
\* stored, and without one to the peer.
AcceptedRecv(s) ==
  /\ calling = Nobody /\ s \in held /\ inbox[s] # <<>>
  /\ LET c == Head(inbox[s]) IN
       /\ Reply(c, IF byAddr THEN c ELSE peer[s])
       /\ reads' = reads \cup {<<peer[s], c>>}
  /\ inbox' = [inbox EXCEPT ![s] = Tail(@)]
  /\ UNCHANGED <<stage, peer, server, addr, filter, asking, tries, mixed>>

-----------------------------------------------------------------------------
\* accept: p_create_sock_fd.
AcceptSocket ==
  /\ calling # Nobody /\ \A s \in Made : stage[s] \notin {"socket", "bound"}
  /\ \/ \E s \in Made : /\ stage[s] = "unused" /\ \A t \in 1 .. s - 1 : stage[t] # "unused"
                        /\ stage' = [stage EXCEPT ![s] = "socket"]
                        /\ peer' = [peer EXCEPT ![s] = calling]
                        /\ UNCHANGED calling
     \/ calling' = Nobody /\ UNCHANGED <<stage, peer>>
  /\ UNCHANGED <<inbox, held, byAddr, clients, mixed, lost, reads>>

\* A socket is closed, and what is queued there is thrown away.
Throw(s) ==
  /\ stage' = [stage EXCEPT ![s] = "closed"]
  /\ lost' = lost \cup (ToSet(inbox[s]) \cap asking)
  /\ inbox' = [inbox EXCEPT ![s] = <<>>]

AcceptBind(s) ==
  /\ stage[s] = "socket"
  /\ \/ stage' = [stage EXCEPT ![s] = "bound"] /\ UNCHANGED <<inbox, calling, lost>>
     \/ Throw(s) /\ calling' = Nobody
  /\ UNCHANGED <<peer, held, byAddr, clients, mixed, reads>>

\* Mutant of AcceptConnect: no connect.
AcceptNoConnect(s) ==
  /\ s # Server /\ stage[s] = "bound" /\ calling # Nobody
  /\ held' = held \cup {s} /\ calling' = Nobody
  /\ UNCHANGED <<stage, peer, inbox, byAddr, clients, mixed, lost, reads>>

\* Mutant of AcceptConnect: no close when connect fails.
AcceptForgets(s) ==
  /\ s # Server /\ stage[s] = "bound" /\ calling # Nobody
  /\ \/ stage' = [stage EXCEPT ![s] = "connected"] /\ held' = held \cup {s}
     \/ UNCHANGED <<stage, held>>
  /\ calling' = Nobody
  /\ UNCHANGED <<peer, inbox, byAddr, clients, mixed, lost, reads>>

AcceptConnect(s) ==
  /\ s # Server /\ stage[s] = "bound"
  /\ \/ /\ stage' = [stage EXCEPT ![s] = "connected"] /\ held' = held \cup {s}
        /\ UNCHANGED <<inbox, lost>>
     \/ Throw(s) /\ UNCHANGED held
  /\ calling' = Nobody
  /\ UNCHANGED <<peer, byAddr, clients, mixed, reads>>

\* The program closes an accepted descriptor.
Leave(s) ==
  /\ s \in held /\ calling = Nobody /\ held' = held \ {s} /\ Throw(s)
  /\ UNCHANGED <<peer, calling, byAddr, clients, mixed, reads>>

Serve == \/ ServerRecv \/ AcceptSocket
         \/ \E s \in Made : AcceptedRecv(s) \/ AcceptBind(s) \/ AcceptConnect(s)

AcceptNext ==
  \/ Serve
  \/ \E s \in Made : Leave(s)
  \/ \E c \in Clients : ClientConnect(c) \/ Ask(c) \/ GetAnswer(c) \/ GiveUp(c) \/ Stray(c)

\* The server goes on with what it has, and a client that waits reads its answer.
AcceptFairness ==
  WF_acceptVars(Serve) /\ \A c \in Clients : WF_acceptVars(GetAnswer(c))

AcceptSpec == AcceptInit /\ [][AcceptNext]_acceptVars /\ AcceptFairness

-----------------------------------------------------------------------------
(* Properties.                                                             *)

\* An accepted descriptor returns the datagrams of its client only, whatever is
\* accepted, refused and closed around it, unless another client's datagram came
\* to a socket between its bind and its connect.
OwnClient == ~ mixed => \A r \in reads : r[1] = r[2]

\* A client that has sent to its server and waits gets an answer, whichever socket its
\* datagram has reached and whatever is accepted, refused and closed meanwhile, unless
\* it has connected its socket to a stranger or its datagram or the answer went missing:
\* in the network, in a close, in a recv_data that failed after it had taken the
\* datagram, or to the peer of an accepted descriptor that is read without an address.
ServedAll ==
  \A c \in Clients :
    c \in asking /\ addr[c] = "server" /\ filter[c] # "stranger" ~> c \notin asking \/ c \in lost

\* sock-udp.h of client_send_data, "Send data to client socket address provided via call
\* to udo_sock_udp_client_create(3)".  (The code: to whoever was heard of last.)
KeepsItsServer == \A c \in Clients : addr[c] = "server"

\* sock-udp.h of server_accept, "Open file descriptor to accepted client": what it
\* returns is that client's.  (The code: not what came between bind and connect.)
AlwaysOwnClient == \A r \in reads : r[1] = r[2]
=============================================================================
