----------------------------- MODULE UnixNames -----------------------------
(***************************************************************************)
(* Who removes which socket file: the contexts of src/src/usock-tcp.c      *)
(* (stream) and src/src/usock-udp.c (datagram), each in a process of its   *)
(* own that may be killed.  bind creates the file and fails if it exists;  *)
(* only remove, which every destroy calls with the path of its context,    *)
(* takes it away.  A step is one system call.                              *)
(***************************************************************************)
EXTENDS Naturals

CONSTANTS StreamServers, StreamClients,  \* all of them at one path
          DgramServers,                  \* at a second path
          DgramClients,                  \* each at a path of its own
          MaxFaults  \* bound: processes killed and system calls failed

ASSUME NamesAssumption ==
  /\ MaxFaults \in Nat
  /\ StreamServers \cap StreamClients = {} /\ DgramServers \cap DgramClients = {}
  /\ (StreamServers \cup StreamClients) \cap (DgramServers \cup DgramClients) = {}
  /\ {"stream", "dgram", "none", "stale"}
       \cap (StreamServers \cup StreamClients \cup DgramServers \cup DgramClients) = {}

\* A stream client has the server's path and binds none.
Binders == StreamServers \cup DgramServers \cup DgramClients
Ctxs    == Binders \cup StreamClients
Servers == StreamServers \cup DgramServers
Name(c) == CASE c \in StreamServers \cup StreamClients -> "stream"
             [] c \in DgramServers -> "dgram"
             [] OTHER -> c
Names   == {Name(c) : c \in Ctxs}

VARIABLES
  file,   \* file[n]: whose open socket is bound to the file, "none", or "stale"
  pc,     \* where each context is
  trod,   \* history: binders whose file somebody else may have removed
  faults  \* how many faults there were

vars == <<file, pc, trod, faults>>

TypeOK ==
  /\ file \in [Names -> Binders \cup {"none", "stale"}]
  /\ \A n \in Names : file[n] \in Binders => Name(file[n]) = n
  /\ pc \in [Ctxs -> {"none", "socket", "bind", "listen", "connect", "alive", "close", "remove"}]
  /\ trod \subseteq Binders
  /\ faults \in 0 .. MaxFaults

Init ==
  /\ file = [n \in Names |-> "none"]
  /\ pc = [c \in Ctxs |-> "none"]
  /\ trod = {} /\ faults = 0

Goto(c, label) == pc' = [pc EXCEPT ![c] = label]
Rivals(c)      == {d \in Binders \ {c} : Name(d) = Name(c)}
Set(n, v)      == file' = [file EXCEPT ![n] = v]
\* The last close of a socket leaves its file behind.
Closed(c)      == file' = [n \in Names |-> IF file[n] = c THEN "stale" ELSE file[n]]
Destroying(c)  == pc[c] \in {"close", "remove"}

-----------------------------------------------------------------------------
\* A create function is called.  The history: from here on two binders at one
\* path are in each other's way, and so is a client that is being destroyed.
Create(c) ==
  /\ pc[c] = "none"
  /\ Goto(c, "socket")
  /\ LET others == {d \in Rivals(c) : pc[d] # "none"}
         clients == {d \in StreamClients : Destroying(d)}
     IN trod' = IF c \in StreamClients THEN trod
                ELSE (trod \ {c}) \cup others
                     \cup (IF others # {} \/ (c \in StreamServers /\ clients # {})
                             THEN {c} ELSE {})
  /\ UNCHANGED <<file, faults>>

\* socket and setsockopt: a failure leads to destroy, with no path stored yet.
Socket(c) ==
  /\ pc[c] = "socket"
  /\ Goto(c, IF c \in StreamClients THEN "alive" ELSE "bind")
  /\ UNCHANGED <<file, trod, faults>>

SocketFails(c) ==
  /\ pc[c] = "socket"
  /\ faults < MaxFaults /\ faults' = faults + 1
  /\ Goto(c, "none")
  /\ UNCHANGED <<file, trod>>

\* A bind that fails leads to destroy, which removes the file all the same.
Bind(c) ==
  /\ pc[c] = "bind"
  /\ IF file[Name(c)] = "none"
       THEN /\ Set(Name(c), c)
            /\ Goto(c, CASE c \in StreamServers -> "listen"
                         [] c \in DgramClients  -> "connect"
                         [] OTHER               -> "alive")
       ELSE Goto(c, "close") /\ UNCHANGED file
  /\ UNCHANGED <<trod, faults>>

Listen(c) ==
  /\ pc[c] = "listen"
  /\ Goto(c, "alive")
  /\ UNCHANGED <<file, trod, faults>>

ListenFails(c) ==
  /\ pc[c] = "listen"
  /\ faults < MaxFaults /\ faults' = faults + 1
  /\ Goto(c, "close")
  /\ UNCHANGED <<file, trod>>

\* A datagram client connects to the server's path in its create function.
Connect(c) ==
  /\ pc[c] = "connect"
  /\ Goto(c, IF file["dgram"] \in DgramServers THEN "alive" ELSE "close")
  /\ UNCHANGED <<file, trod, faults>>

\* destroy is called by the program.
Destroy(c) ==
  /\ pc[c] = "alive"
  /\ Goto(c, "close")
  /\ trod' = trod \cup (IF c \in StreamClients THEN {s \in StreamServers : pc[s] # "none"} ELSE {})
  /\ UNCHANGED <<file, faults>>

\* destroy: close, then remove.
Close(c) ==
  /\ pc[c] = "close"
  /\ Closed(c)
  /\ Goto(c, "remove")
  /\ UNCHANGED <<trod, faults>>

\* Mutant of Remove: nothing is removed.
RemoveNot(c) ==
  /\ pc[c] = "remove"
  /\ Goto(c, "none")
  /\ UNCHANGED <<file, trod, faults>>

\* Mutant of Remove: a datagram context removes the path it talks to.
RemovePeer(c) ==
  /\ pc[c] = "remove"
  /\ Set(IF c \in DgramClients THEN "dgram" ELSE Name(c), "none")
  /\ Goto(c, "none")
  /\ UNCHANGED <<trod, faults>>

Remove(c) ==
  /\ pc[c] = "remove"
  /\ Set(Name(c), "none")
  /\ Goto(c, "none")
  /\ UNCHANGED <<trod, faults>>

\* The process is killed.
Kill(c) ==
  /\ pc[c] # "none"
  /\ faults < MaxFaults /\ faults' = faults + 1
  /\ Closed(c)
  /\ Goto(c, "none")
  /\ UNCHANGED trod

\* What goes on inside a call; the fair part.
Inside(c) == \/ Socket(c) \/ Bind(c) \/ Listen(c) \/ Connect(c) \/ Close(c) \/ Remove(c)

Next == \E c \in Ctxs : \/ Create(c) \/ Destroy(c) \/ Kill(c) \/ Inside(c)
                        \/ SocketFails(c) \/ ListenFails(c)

Spec == Init /\ [][Next]_vars

\* A call that was made is carried on.  No call need be made.
FairSpec == Spec /\ \A c \in Ctxs : WF_vars(Inside(c))

-----------------------------------------------------------------------------
(* Properties.                                                             *)

\* A server is found at its path as long as no other one was created there
\* in its time and, for a stream server, no client was destroyed in its time.
\* Datagram clients come and go, fail to connect and are killed as they like.
Reachable == \A s \in Servers : pc[s] = "alive" /\ s \notin trod => file[Name(s)] = s

\* Without a killed process or a failed call, no file is left behind: one that
\* has no socket is about to be removed, whatever the others do meanwhile.
NothingLeft ==
  faults = 0 => \A n \in Names : file[n] = "stale" =>
    \E c \in Ctxs : Name(c) = n /\ pc[c] = "remove"

\* Killed processes leave files that make bind fail, but a server that is
\* created again and again comes up, or another one is there at its path.
ComesUp ==
  \A s \in Servers : []<><<Create(s)>>_vars =>
    []<>(pc[s] = "alive" \/ \E r \in Rivals(s) : pc[r] # "none")

\* usock-tcp.h of udo_usock_tcp_destroy: "Frees any allocated memory and closes
\* FD's (if open) created after" the create call of the same context; a server
\* that runs stays reachable through it.
StaysReachable == \A s \in Servers : pc[s] = "alive" => file[Name(s)] = s
=============================================================================
