---------------------------- MODULE Descriptors ----------------------------
(***************************************************************************)
(* Who closes which descriptor: the contexts of src/src/file-ops.c and of  *)
(* the sockets, src/src/sock-tcp.c, usock-tcp.c, vsock-tcp.c, csock-raw.c, *)
(* sock-udp.c, usock-udp.c and vsock-udp.c, in one process.  Every context *)
(* is used by a thread of its own; a step is one system call, and the      *)
(* kernel always hands out the lowest free number.  A new context is all   *)
(* zeros (calloc, or memory that destroy has cleared), so that a           *)
(* descriptor it did not open is 0.                                        *)
(***************************************************************************)
EXTENDS Integers, FiniteSets, FiniteSetsExt

CONSTANTS Files,  \* contexts of udo_file_ops
          Socks,  \* contexts of sockets, of any kind
          MaxFd,  \* bound: RLIMIT_NOFILE - 1
          MaxCreates  \* bound: how often a context is created

ASSUME DescriptorsAssumption ==
  /\ MaxFd \in Nat /\ MaxCreates \in Nat /\ Files \cap Socks = {}
  /\ (Files \cup Socks) \cap {"free", "program"} = {}

Ctxs   == Files \cup Socks
Fds    == 0 .. MaxFd
Fields == {"fd", "pipe0", "pipe1"}   \* of a context; a socket has fd only
\* What the create info of a file asks for: fname, create_pipe.
Wants  == SUBSET {"file", "pipe"}
\* udo_sock_tcp, udo_usock_tcp, udo_vsock_tcp, udo_csock_raw, udo_sock_udp,
\* udo_usock_udp, udo_vsock_udp.
Kinds  == {"tcp", "unix", "vsock", "can", "udp", "unixUdp", "vsockUdp"}

VARIABLES
  table,  \* table[n]: who opened descriptor n, "program" for the rest of it
  num,    \* num[c][f]: the number stored in a field of context c
  want,   \* what the create of a file context was asked for
  kind,   \* which create a socket was created by
  pc,     \* where each context is
  conn,   \* the descriptor that a call holds in a local variable
  blame,  \* history: which of the usages have happened that the code gets wrong
  creates \* how often a context was created

vars == <<table, num, want, kind, pc, conn, blame, creates>>

TypeOK ==
  /\ table \in [Fds -> Ctxs \cup {"free", "program"}]
  /\ num \in [Ctxs -> [Fields -> Fds \cup {-1}]]
  /\ want \in [Files -> Wants]
  /\ kind \in [Socks -> Kinds \cup {"none"}]
  /\ pc \in [Ctxs -> {"none", "open", "pipe", "map", "options", "closeOptions", "cid",
                      "closeCid", "setup", "alive", "accepted", "fdOptions", "closeFd",
                      "close0", "close1", "close"}]
  /\ conn \in [Socks -> Fds \cup {-1}]
  /\ blame \subseteq {"partial", "create", "setsockopt"}
  /\ creates \in 0 .. MaxCreates

Zeros == [f \in Fields |-> 0]

\* 0 is the program's standard input.
Init ==
  /\ table = [n \in Fds |-> IF n = 0 THEN "program" ELSE "free"]
  /\ num = [c \in Ctxs |-> Zeros]
  /\ want = [c \in Files |-> {}]
  /\ kind = [s \in Socks |-> "none"]
  /\ pc = [c \in Ctxs |-> "none"]
  /\ conn = [s \in Socks |-> -1]
  /\ blame = {} /\ creates = 0

-----------------------------------------------------------------------------
\* The kernel.
Free   == {n \in Fds : table[n] = "free"}
Lowest == Min(Free)

Goto(c, label) == pc' = [pc EXCEPT ![c] = label]
Open(n, c)     == table' = [table EXCEPT ![n] = c]
\* close(2) of a number that is not open fails, and nothing looks at that.
Close(n)       == table' = [m \in Fds |-> IF m = n THEN "free" ELSE table[m]]

-----------------------------------------------------------------------------
\* udo_file_ops_create, up to the open.  The blame is for every file context
\* that will be destroyed with a field that it did not open.
FileCreate(c, w) ==
  /\ pc[c] = "none" /\ creates < MaxCreates
  /\ want' = [want EXCEPT ![c] = w]
  /\ Goto(c, IF "file" \in w THEN "open" ELSE IF "pipe" \in w THEN "pipe" ELSE "map")
  /\ blame' = IF w = {"file", "pipe"} THEN blame ELSE blame \cup {"partial"}
  /\ creates' = creates + 1
  /\ UNCHANGED <<table, num, kind, conn>>

FileOpen(c) ==
  /\ pc[c] = "open" /\ Free # {}
  /\ Open(Lowest, c) /\ num' = [num EXCEPT ![c]["fd"] = Lowest]
  /\ Goto(c, IF "pipe" \in want[c] THEN "pipe" ELSE "map")
  /\ UNCHANGED <<want, kind, conn, blame, creates>>

\* open fails: flops->fd is -1, and destroy is called.
FileOpenFails(c) ==
  /\ pc[c] = "open"
  /\ num' = [num EXCEPT ![c]["fd"] = -1]
  /\ Goto(c, "close0")
  /\ blame' = blame \cup {"create"}
  /\ UNCHANGED <<table, want, kind, conn, creates>>

Pipe(c) ==
  /\ pc[c] = "pipe" /\ Cardinality(Free) >= 2
  /\ LET first == Lowest second == Min(Free \ {Lowest}) IN
     /\ table' = [table EXCEPT ![first] = c, ![second] = c]
     /\ num' = [num EXCEPT ![c]["pipe0"] = first, ![c]["pipe1"] = second]
  /\ Goto(c, "alive")
  /\ UNCHANGED <<want, kind, conn, blame, creates>>

\* Mutant of SetUpFails: NULL is returned without a destroy.
PipeFailsReturns(c) ==
  /\ pc[c] \in {"pipe", "map"}
  /\ Goto(c, "none")
  /\ num' = [num EXCEPT ![c] = Zeros]
  /\ blame' = blame \cup {"create"}
  /\ UNCHANGED <<table, want, kind, conn, creates>>

\* pipe, or ftruncate or mmap, fails: destroy is called.
SetUpFails(c) ==
  /\ pc[c] \in {"pipe", "map"}
  /\ Goto(c, "close0")
  /\ blame' = blame \cup {"create"}
  /\ UNCHANGED <<table, num, want, kind, conn, creates>>

Map(c) ==
  /\ pc[c] = "map"
  /\ Goto(c, "alive")
  /\ UNCHANGED <<table, num, want, kind, conn, blame, creates>>

\* udo_file_ops_destroy: three closes, and zeros.
FileDestroy(c) ==
  /\ pc[c] = "alive" /\ c \in Files
  /\ Goto(c, "close0")
  /\ UNCHANGED <<table, num, want, kind, conn, blame, creates>>

ClosePipe(c) ==
  /\ \/ pc[c] = "close0" /\ Close(num[c]["pipe0"]) /\ Goto(c, "close1")
     \/ pc[c] = "close1" /\ Close(num[c]["pipe1"]) /\ Goto(c, "close")
  /\ UNCHANGED <<num, want, kind, conn, blame, creates>>

\* The last close of either kind; the context is cleared, and the fd of a socket
\* set to -1.
CloseFd(c) ==
  /\ pc[c] = "close"
  /\ Close(num[c]["fd"])
  /\ num' = [num EXCEPT ![c] = [Zeros EXCEPT !["fd"] = IF c \in Socks THEN -1 ELSE 0]]
  /\ want' = [d \in Files |-> IF d = c THEN {} ELSE want[d]]
  /\ kind' = [d \in Socks |-> IF d = c THEN "none" ELSE kind[d]]
  /\ Goto(c, "none")
  /\ UNCHANGED <<conn, blame, creates>>

-----------------------------------------------------------------------------
\* The socket of a create.  If socket fails, destroy closes -1.
Create(c, k, next) ==
  /\ pc[c] = "none" /\ creates < MaxCreates
  /\ \/ /\ Free # {}
        /\ Open(Lowest, c) /\ num' = [num EXCEPT ![c]["fd"] = Lowest]
        /\ Goto(c, next)
     \/ /\ num' = [num EXCEPT ![c]["fd"] = -1]
        /\ Goto(c, "close")
        /\ UNCHANGED table
  /\ kind' = [kind EXCEPT ![c] = k]
  /\ creates' = creates + 1
  /\ UNCHANGED <<want, conn, blame>>

TcpSocket(c) == Create(c, "tcp", "options")
UnixSocket(c) == Create(c, "unix", "options")
VsockSocket(c) == Create(c, "vsock", "options")
CanSocket(c) == Create(c, "can", "setup")

\* p_set_sock_opts: one of its setsockopt calls may fail, and it closes then.
Options(c, k, next) ==
  /\ pc[c] = "options" /\ kind[c] = k
  /\ \/ Goto(c, next) /\ UNCHANGED blame
     \/ Goto(c, "closeOptions") /\ blame' = blame \cup {"setsockopt"}
  /\ UNCHANGED <<table, num, want, kind, conn, creates>>

TcpOptions(c) == Options(c, "tcp", "setup")
UnixOptions(c) == Options(c, "unix", "setup")
VsockOptions(c) == Options(c, "vsock", "cid")

CloseOptions(c) ==
  /\ pc[c] = "closeOptions"
  /\ Close(num[c]["fd"])
  /\ Goto(c, "close")
  /\ UNCHANGED <<num, want, kind, conn, blame, creates>>

\* p_vsock_get_local_vcid: /dev/vsock is opened, asked and closed, whatever it
\* answered.  Without it, for want of a number too, the create goes on.
OpenCid(c) ==
  /\ pc[c] = "cid"
  /\ \/ /\ Free # {}
        /\ Open(Lowest, c) /\ conn' = [conn EXCEPT ![c] = Lowest]
        /\ Goto(c, "closeCid")
     \/ Goto(c, "setup") /\ UNCHANGED <<table, conn>>
  /\ UNCHANGED <<num, want, kind, blame, creates>>

CloseCid(c) ==
  /\ pc[c] = "closeCid"
  /\ Close(conn[c]) /\ conn' = [conn EXCEPT ![c] = -1]
  /\ Goto(c, "setup")
  /\ UNCHANGED <<num, want, kind, blame, creates>>

\* The rest of a create: the first call that fails is followed by a destroy.
SetUp(c, k, fails) ==
  /\ pc[c] = "setup" /\ kind[c] = k
  /\ \/ Goto(c, "alive") \/ Goto(c, fails)
  /\ UNCHANGED <<table, num, want, kind, conn, blame, creates>>

\* Mutant of TcpSetUp: on an error the descriptor is closed before destroy is
\* called, as p_set_sock_opts does.
TcpSetUpCloses(c) == SetUp(c, "tcp", "closeOptions")

\* inet_pton, and for a server three options, bind, listen.
TcpSetUp(c) == SetUp(c, "tcp", "close")
\* bind and listen, for a server.
UnixSetUp(c) == SetUp(c, "unix", "close")
VsockSetUp(c) == SetUp(c, "vsock", "close")
\* The index of the interface, and bind.
CanSetUp(c) == SetUp(c, "can", "close")

-----------------------------------------------------------------------------
\* p_create_sock_fd of the datagram sockets, for a create: the number is in a
\* local variable until the options are set.
DatagramSocket(c, k) ==
  /\ pc[c] = "none" /\ creates < MaxCreates
  /\ \/ /\ Free # {}
        /\ Open(Lowest, c) /\ conn' = [conn EXCEPT ![c] = Lowest]
        /\ Goto(c, "fdOptions") /\ UNCHANGED num
     \/ /\ num' = [num EXCEPT ![c]["fd"] = -1]
        /\ Goto(c, "close")
        /\ UNCHANGED <<table, conn>>
  /\ kind' = [kind EXCEPT ![c] = k]
  /\ creates' = creates + 1
  /\ UNCHANGED <<want, blame>>

UdpSocket(c) == DatagramSocket(c, "udp")
UnixUdpSocket(c) == DatagramSocket(c, "unixUdp")
VsockUdpSocket(c) == DatagramSocket(c, "vsockUdp")

FdOptions(c, k, next) ==
  /\ pc[c] = "fdOptions" /\ kind[c] = k
  /\ \/ /\ num' = [num EXCEPT ![c]["fd"] = conn[c]] /\ conn' = [conn EXCEPT ![c] = -1]
        /\ Goto(c, next)
     \/ Goto(c, "closeFd") /\ UNCHANGED <<num, conn>>
  /\ UNCHANGED <<table, want, kind, blame, creates>>

UdpOptions(c) == FdOptions(c, "udp", "setup")
UnixUdpOptions(c) == FdOptions(c, "unixUdp", "setup")
VsockUdpOptions(c) == FdOptions(c, "vsockUdp", "cid")

\* A setsockopt has failed: the close of p_create_sock_fd.  The caller stores -1,
\* and that is what destroy closes.
CloseFailedFd(c) ==
  /\ pc[c] = "closeFd"
  /\ Close(conn[c]) /\ conn' = [conn EXCEPT ![c] = -1]
  /\ num' = [num EXCEPT ![c]["fd"] = -1]
  /\ Goto(c, "close")
  /\ UNCHANGED <<want, kind, blame, creates>>

\* inet_pton, and bind for a server.
UdpSetUp(c) == SetUp(c, "udp", "close")
\* bind, and connect for a client.
UnixUdpSetUp(c) == SetUp(c, "unixUdp", "close")
\* bind for a server.
VsockUdpSetUp(c) == SetUp(c, "vsockUdp", "close")

-----------------------------------------------------------------------------
\* accept of a server: the caller owns what it returns, but until then it is the
\* context's.
Accept(c, k) ==
  /\ pc[c] = "alive" /\ kind[c] = k /\ Free # {}
  /\ Open(Lowest, c) /\ conn' = [conn EXCEPT ![c] = Lowest]
  /\ Goto(c, "accepted")
  /\ UNCHANGED <<num, want, kind, blame, creates>>

TcpAccept(c) == Accept(c, "tcp")
UnixAccept(c) == Accept(c, "unix")

\* Without a keep alive there is nothing to be done before it is returned.
VsockAccept(c) ==
  /\ pc[c] = "alive" /\ kind[c] = "vsock" /\ Free # {}
  /\ Open(Lowest, "program")
  /\ UNCHANGED <<num, want, kind, pc, conn, blame, creates>>

\* The accept of a datagram server makes a socket of its own.
UdpServerAccept(c) == Accept(c, "udp")
VsockUdpServerAccept(c) == Accept(c, "vsockUdp")

\* The calls on the new descriptor succeed, and it is returned.
Accepted(c) ==
  /\ pc[c] = "accepted"
  /\ Open(conn[c], "program") /\ conn' = [conn EXCEPT ![c] = -1]
  /\ Goto(c, "alive")
  /\ UNCHANGED <<num, want, kind, blame, creates>>

\* One of them fails, and it is closed.
AcceptFails(c) ==
  /\ pc[c] = "accepted"
  /\ Close(conn[c]) /\ conn' = [conn EXCEPT ![c] = -1]
  /\ Goto(c, "alive")
  /\ UNCHANGED <<num, want, kind, blame, creates>>

\* The option of a connection.
KeepAlive(c) == kind[c] \in {"tcp", "unix"} /\ (Accepted(c) \/ AcceptFails(c))

\* The options of p_create_sock_fd, bind and connect.
UdpAcceptSetUp(c) == kind[c] = "udp" /\ (Accepted(c) \/ AcceptFails(c))
VsockUdpAcceptSetUp(c) == kind[c] = "vsockUdp" /\ (Accepted(c) \/ AcceptFails(c))

\* A destroy of any kind; its close is CloseFd.
SockDestroy(c) ==
  /\ pc[c] = "alive"
  /\ Goto(c, "close")
  /\ UNCHANGED <<table, num, want, kind, conn, blame, creates>>

\* The program closes a connection that accept gave it.
Program ==
  /\ \E n \in Fds \ {0} : table[n] = "program" /\ Close(n)
  /\ UNCHANGED <<num, want, kind, pc, conn, blame, creates>>

FileStep(c) == \/ \E w \in Wants : FileCreate(c, w)
               \/ FileOpen(c) \/ FileOpenFails(c) \/ Pipe(c) \/ SetUpFails(c) \/ Map(c)
               \/ FileDestroy(c) \/ ClosePipe(c) \/ CloseFd(c)

SockStep(c) == \/ TcpSocket(c) \/ UnixSocket(c) \/ VsockSocket(c) \/ CanSocket(c)
               \/ TcpOptions(c) \/ UnixOptions(c) \/ VsockOptions(c) \/ CloseOptions(c)
               \/ OpenCid(c) \/ CloseCid(c)
               \/ TcpSetUp(c) \/ UnixSetUp(c) \/ VsockSetUp(c) \/ CanSetUp(c)
               \/ UdpSocket(c) \/ UnixUdpSocket(c) \/ VsockUdpSocket(c)
               \/ UdpOptions(c) \/ UnixUdpOptions(c) \/ VsockUdpOptions(c) \/ CloseFailedFd(c)
               \/ UdpSetUp(c) \/ UnixUdpSetUp(c) \/ VsockUdpSetUp(c)
               \/ TcpAccept(c) \/ UnixAccept(c) \/ VsockAccept(c) \/ KeepAlive(c)
               \/ UdpServerAccept(c) \/ VsockUdpServerAccept(c)
               \/ UdpAcceptSetUp(c) \/ VsockUdpAcceptSetUp(c)
               \/ SockDestroy(c) \/ CloseFd(c)

Next == \/ \E c \in Files : FileStep(c)
        \/ \E c \in Socks : SockStep(c)
        \/ Program

Spec == Init /\ [][Next]_vars

-----------------------------------------------------------------------------
(* Properties.                                                             *)

\* The descriptors of contexts that this step closes without being theirs.
ClosedByOthers ==
  {n \in Fds : /\ table[n] \in Ctxs /\ table'[n] = "free"
               /\ pc'[table[n]] = pc[table[n]]}

\* As long as every file context has both a file and a pipe, no create of one
\* has failed and no setsockopt of p_set_sock_opts has, nobody closes what is
\* not his: neither a descriptor of another context, whatever else fails in
\* create and accept, nor the standard input.
ClosesOwn ==
  [][blame' = {} => /\ ClosedByOthers = {}
                    /\ table[0] = "program" => table'[0] = "program"]_vars

\* Under the same conditions the numbers of a context stay its own until it is
\* destroyed: no send, splice or close reaches something else through them.
StaysOwn ==
  blame = {} =>
    \A c \in Ctxs : pc[c] \in {"alive", "accepted"} =>
      /\ table[num[c]["fd"]] = c
      /\ c \in Files => table[num[c]["pipe0"]] = c /\ table[num[c]["pipe1"]] = c

\* Whatever fails and whatever was closed by others, a context that is gone has
\* left no descriptor open.
NoLeak == \A c \in Ctxs : pc[c] = "none" => \A n \in Fds : table[n] # c

\* file-ops.h of udo_file_ops_destroy: "closes FD's (if open) created after
\* udo_file_ops_create() call", and no others.
ClosesOnlyCreated ==
  [][\A c \in Files : \A n \in Fds :
       pc'[c] # pc[c] /\ table'[n] = "free" => table[n] \in {c, "free"}]_vars
=============================================================================
