------------------------------ MODULE Streams ------------------------------
(***************************************************************************)
(* connect, send_data and recv_data of the stream sockets of               *)
(* src/src/sock-tcp.c, usock-tcp.c and vsock-tcp.c, and send_data and      *)
(* recv_data of src/src/csock-raw.c: a sender, a receiver and what is on   *)
(* its way.  A unit is a byte of a stream or a whole CAN frame.  A stream  *)
(* call may move fewer units than it was asked for; errno is tested after  *)
(* every call, also after one that moved something, and no call clears it. *)
(*                                                                         *)
(* The callers do what the results say: units that were not reported as    *)
(* sent are sent again, and units that were not reported as received are   *)
(* not used.                                                               *)
(***************************************************************************)
EXTENDS Naturals, Sequences, Functions

CONSTANTS Sockets,   \* the kinds of sockets that are tried
          Total,     \* bound: how many units there are to send
          MaxCall,   \* bound: how many units one call asks for
          Room,      \* how many units may be on their way
          MaxFails,  \* bound: how many calls fail
          MaxMoved   \* bound: how many units are received or on their way

ASSUME StreamsAssumption ==
  /\ Sockets \subseteq {"tcp", "unix", "vsock", "can"}
  /\ {Total, MaxCall, Room, MaxMoved} \subseteq Nat \ {0} /\ MaxFails \in Nat

Ends == {"sender", "receiver"}

VARIABLES
  sort,   \* of the two sockets
  link,   \* the connection, as the kernel knows it
  told,   \* client_connect has returned 0
  sent,   \* how many units send_data has reported as sent
  wire,   \* the units on their way
  taken,  \* the units that recv_data has returned
  ended,  \* recv_data has returned 0
  stale,  \* stale[e]: errno is EINTR or EAGAIN at that end
  fails,  \* how many calls have failed
  lied,   \* history: the ends where a call that moved units returned a failure
  dropped \* history: a CAN frame found no room

streamVars == <<sort, link, told, sent, wire, taken, ended, stale, fails, lied, dropped>>

Units == 1 .. Total

StreamsTypeOK ==
  /\ sort \in Sockets /\ link \in {"new", "pending", "up", "closed"}
  /\ told \in BOOLEAN /\ sent \in 0 .. Total
  /\ wire \in Seq(Units) /\ Len(wire) <= Room
  /\ taken \in Seq(Units) /\ ended \in BOOLEAN
  /\ stale \in [Ends -> BOOLEAN] /\ fails \in 0 .. MaxFails
  /\ lied \subseteq Ends /\ dropped \in BOOLEAN

\* A CAN socket is bound to its interface and has nothing to connect to.
StreamsInit ==
  /\ sort \in Sockets
  /\ link = IF sort = "can" THEN "up" ELSE "new"
  /\ told = (sort = "can")
  /\ sent = 0 /\ wire = <<>> /\ taken = <<>> /\ ended = FALSE
  /\ stale = [e \in Ends |-> FALSE] /\ fails = 0
  /\ lied = {} /\ dropped = FALSE

Whole(n) == [i \in 1 .. n |-> i]

\* A system call fails, with EINTR or EAGAIN or with something else.
Fails(e) ==
  /\ fails < MaxFails /\ fails' = fails + 1
  /\ \E b \in BOOLEAN : stale' = [stale EXCEPT ![e] = b]

-----------------------------------------------------------------------------
\* client_connect.  A TCP connect that a signal ends goes on in the kernel.
Connect ==
  /\ ~ told
  /\ \/ link = "new" /\ link' = "up" /\ told' = TRUE /\ UNCHANGED <<stale, fails>>
     \/ link = "new" /\ Fails("sender") /\ UNCHANGED <<link, told>>
     \/ /\ sort = "tcp" /\ link = "new" /\ link' = "pending"
        /\ fails < MaxFails /\ fails' = fails + 1
        /\ stale' = [stale EXCEPT !["sender"] = TRUE] /\ UNCHANGED told
     \* EALREADY or EISCONN
     \/ /\ link \in {"pending", "up"} /\ fails < MaxFails /\ fails' = fails + 1
        /\ stale' = [stale EXCEPT !["sender"] = FALSE] /\ UNCHANGED <<link, told>>
  /\ UNCHANGED <<sort, sent, wire, taken, ended, lied, dropped>>

Established ==
  /\ link = "pending" /\ link' = "up"
  /\ UNCHANGED <<sort, told, sent, wire, taken, ended, stale, fails, lied, dropped>>

-----------------------------------------------------------------------------
\* send moves the next n units; they count as sent unless errno is stale.
Sent(n, counted) ==
  /\ n <= Total - sent /\ Len(taken) + Len(wire) + n <= MaxMoved
  /\ IF stale["sender"] THEN lied' = lied \cup {"sender"} /\ UNCHANGED sent
                        ELSE sent' = sent + counted /\ UNCHANGED lied
  /\ UNCHANGED <<sort, link, told, taken, ended, stale, fails>>

NextUnits(n) == [i \in 1 .. n |-> sent + i]

StreamSendFails ==
  /\ Fails("sender")
  /\ UNCHANGED <<sort, link, told, sent, wire, taken, ended, lied, dropped>>

\* send_data of a stream: send waits for room, and takes what finds some.
StreamSend ==
  /\ told /\ link = "up"
  /\ \/ \E asked \in 1 .. MaxCall, n \in 1 .. Room - Len(wire) :
          /\ n <= asked
          /\ wire' = wire \o NextUnits(n) /\ Sent(n, n) /\ UNCHANGED dropped
     \/ StreamSendFails

\* send_data of a CAN socket.  That a size other than a frame's is tested before
\* errno makes every failure -1, and leaves errno for frames that were sent.
CanSend ==
  \/ /\ wire' = IF Len(wire) < Room THEN wire \o NextUnits(1) ELSE wire
     /\ dropped' = (dropped \/ Len(wire) = Room)
     /\ Sent(1, 1)
  \/ StreamSendFails

-----------------------------------------------------------------------------
Received(n) ==
  /\ wire' = SubSeq(wire, n + 1, Len(wire))
  /\ IF stale["receiver"] THEN lied' = lied \cup {"receiver"} /\ UNCHANGED taken
                          ELSE taken' = taken \o SubSeq(wire, 1, n) /\ UNCHANGED lied
  /\ UNCHANGED <<sort, link, told, sent, ended, stale, fails, dropped>>

StreamRecvFails ==
  /\ Fails("receiver")
  /\ UNCHANGED <<sort, link, told, sent, wire, taken, ended, lied, dropped>>

\* recv returns 0 when the sender is gone and everything was read.
RecvEnd ==
  /\ link = "closed" /\ wire = <<>>
  /\ IF stale["receiver"] THEN lied' = lied \cup {"receiver"} /\ UNCHANGED ended
                          ELSE ended' = TRUE /\ UNCHANGED lied
  /\ UNCHANGED <<sort, link, told, sent, wire, taken, stale, fails, dropped>>

\* Mutant of StreamRecv: what is there beyond the size asked for is cut off.
StreamRecvCuts ==
  /\ link \in {"up", "closed"}
  /\ \/ \E asked \in 1 .. MaxCall, n \in 1 .. Len(wire) :
          /\ n <= asked /\ Received(n)
     \/ \E n \in 1 .. Len(wire) :
          /\ wire' = <<>> /\ taken' = taken \o SubSeq(wire, 1, 1)
          /\ UNCHANGED <<sort, link, told, sent, ended, stale, fails, lied, dropped>>
     \/ RecvEnd \/ StreamRecvFails

\* recv_data of a stream.
StreamRecv ==
  /\ link \in {"up", "closed"}
  /\ \/ \E asked \in 1 .. MaxCall, n \in 1 .. Len(wire) : n <= asked /\ Received(n)
     \/ RecvEnd \/ StreamRecvFails

\* recv_data of a CAN socket: a whole frame, or -1.
CanRecv == (wire # <<>> /\ Received(1)) \/ StreamRecvFails

-----------------------------------------------------------------------------
\* destroy of the sender's socket; what is on its way still arrives.
Close ==
  /\ told /\ link = "up" /\ sort # "can" /\ link' = "closed"
  /\ UNCHANGED <<sort, told, sent, wire, taken, ended, stale, fails, lied, dropped>>

\* Something else that the callers do sets errno.
ErrnoSet ==
  /\ \E e \in Ends : stale[e] /\ stale' = [stale EXCEPT ![e] = FALSE]
  /\ UNCHANGED <<sort, link, told, sent, wire, taken, ended, fails, lied, dropped>>

TcpConnect   == sort = "tcp" /\ Connect
TcpSend      == sort = "tcp" /\ StreamSend
TcpRecv      == sort = "tcp" /\ StreamRecv
UnixConnect  == sort = "unix" /\ Connect
UnixSend     == sort = "unix" /\ StreamSend
UnixRecv     == sort = "unix" /\ StreamRecv
VsockConnect == sort = "vsock" /\ Connect
VsockSend    == sort = "vsock" /\ StreamSend
VsockRecv    == sort = "vsock" /\ StreamRecv
CanSendData  == sort = "can" /\ CanSend
CanRecvData  == sort = "can" /\ CanRecv

StreamsNext ==
  \/ TcpConnect \/ TcpSend \/ TcpRecv \/ UnixConnect \/ UnixSend \/ UnixRecv
  \/ VsockConnect \/ VsockSend \/ VsockRecv \/ CanSendData \/ CanRecvData
  \/ Established \/ Close \/ ErrnoSet

StreamsSpec == StreamsInit /\ [][StreamsNext]_streamVars

-----------------------------------------------------------------------------
(* Properties.                                                             *)

\* Until a stale errno makes a failure of a call that moved units, every unit arrives
\* once and in order, with partial transfers and failed calls in between, and the end
\* is reported when all of them were received.  Even after that, what send_data has
\* reported as sent is on its way or was received, unless it was the receiver that
\* was told of a failure, or a CAN frame found no room.
Conveyed ==
  ~ dropped =>
    /\ "receiver" \notin lied => 1 .. sent \subseteq Range(taken \o wire)
    /\ lied = {} => taken \o wire = Whole(sent) /\ (ended => taken = Whole(sent))

\* sock-tcp.h of send_data, "on failure: # < 0" (csock-raw.h and the others say the
\* same): a call that failed has sent nothing.  (The code: errno may be stale.)
FailureMeansNothing == lied = {}

\* sock-tcp.h of client_connect: "on success: 0".  A connection that is up was
\* reported.  (The code: not after a connect that a signal ended.)
UpIsTold == [][link = "up" /\ ~ told => told']_<<fails, told>>
=============================================================================
