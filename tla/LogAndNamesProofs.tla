------------------------- MODULE LogAndNamesProofs -------------------------
(***************************************************************************)
(* Two small components that share nothing but the file system.            *)
(*                                                                         *)
(* Log: lines of udo_log_time do not mix, for any number of threads,       *)
(* processes and open file descriptions: a thread between its two calls of *)
(* flock has the file locked by the description that it locked it with,    *)
(* which is its alone, until one of the three usages happens that the code *)
(* gets wrong.                                                             *)
(*                                                                         *)
(* UnixNames: a server that nobody was in the way of has had its path for  *)
(* itself since it was created, so that what it bound is still there.      *)
(***************************************************************************)
EXTENDS Log, UnixNames, TLAPS

\* None of the three has happened.
Good == ~ shared /\ ~ moved /\ ~ broken

\* Between the two calls of flock.
Between(t) == call[t] = "time" /\ at[t] # "lock"

\* A thread remembers a description exactly while it is inside; outside of a call
\* it stands at the beginning.
ViaInv == \A t \in Threads :
  /\ via[t] # Unlocked <=> Between(t)
  /\ at[t] \in {"lock", "unlock"} => call[t] = "time"

\* What it remembers is what writefd still is, and what has the file locked.
HeldInv == Good => \A t \in Threads : Between(t) => via[t] = Fd(t) /\ lock = via[t]

\* It is nobody else's.
AloneInv == ~ shared =>
  \A t, u \in Threads : Between(t) /\ Between(u) /\ via[t] = via[u] => t = u

LockInv == LogTypeOK /\ ViaInv /\ HeldInv /\ AloneInv /\ WholeLines

\* What the assumption says of the constants.
LEMMA Constants == /\ Process \in [Threads -> Processes] /\ Unlocked \notin Opened
                   /\ MaxLines \in Nat /\ MaxChanges \in Nat
  BY LogAssumption

\* The descriptor of a thread is a description, not Unlocked.
LEMMA FdType == ASSUME LogTypeOK, NEW t \in Threads PROVE Fd(t) \in Opened /\ Fd(t) # Unlocked
  BY Constants DEF LogTypeOK, Fd

\* From the invariant: at most one thread is inside.
LEMMA OneInside == ASSUME HeldInv, AloneInv, Good,
                          NEW t \in Threads, NEW u \in Threads, Between(t), Between(u)
                   PROVE  t = u
  BY DEF HeldInv, AloneInv, Good

\* At first nobody is inside.
LEMMA LockInit == LogInit => LockInv
<1> SUFFICES ASSUME LogInit PROVE LockInv
  OBVIOUS
<1> USE Constants DEF LogInit
<1>1. LogTypeOK
  <2>1. torn \in BOOLEAN /\ shared \in BOOLEAN /\ moved \in BOOLEAN /\ broken \in BOOLEAN
    BY Zenon
  <2>2. lines \in [Threads -> 0 .. MaxLines] /\ changes \in 0 .. MaxChanges
    OBVIOUS
  <2> QED
    BY <2>1, <2>2 DEF LogTypeOK, Calls
<1>2. ViaInv /\ HeldInv /\ AloneInv /\ WholeLines
  BY DEF ViaInv, HeldInv, AloneInv, WholeLines, Between
<1> QED
  BY <1>1, <1>2 DEF LockInv

\* Every step keeps the types.
LEMMA TypeNext == LogTypeOK /\ [LogNext]_logVars => LogTypeOK'
<1> SUFFICES ASSUME LogTypeOK, [LogNext]_logVars PROVE LogTypeOK'
  OBVIOUS
<1> USE Constants DEF LogTypeOK, setting, Calls
<1>1. ASSUME NEW t \in Threads, LogTime(t) \/ LogNotime(t) PROVE LogTypeOK'
  BY <1>1 DEF LogTime, LogNotime, Begin
<1>2. ASSUME NEW t \in Threads, Lock(t) \/ LockFails(t) PROVE LogTypeOK'
  BY <1>2, FdType DEF Lock, LockFails, Locked
<1>3. ASSUME NEW t \in Threads, Write(t) PROVE LogTypeOK'
  BY <1>3 DEF Write, After
<1>4. ASSUME NEW t \in Threads, Sync(t) PROVE LogTypeOK'
  BY <1>4 DEF Sync
<1>5. ASSUME NEW t \in Threads, Unlock(t) PROVE LogTypeOK'
  BY <1>5 DEF Unlock, Ended
<1>6. ASSUME NEW p \in Processes, SetWriteFd(p) PROVE LogTypeOK'
  BY <1>6 DEF SetWriteFd
<1>7. CASE UNCHANGED logVars
  BY <1>7 DEF logVars
<1> QED
  BY <1>1, <1>2, <1>3, <1>4, <1>5, <1>6, <1>7 DEF LogNext

\* Every step keeps the invariant.
LEMMA LockNext == LockInv /\ [LogNext]_logVars => LockInv'
<1> SUFFICES ASSUME LockInv, [LogNext]_logVars PROVE LockInv'
  OBVIOUS
<1>0. LogTypeOK'
  BY TypeNext DEF LockInv
<1> USE Constants DEF LockInv, LogTypeOK, setting, Good, Between, Fd
<1>1. ASSUME NEW t \in Threads, LogTime(t) \/ LogNotime(t) PROVE LockInv'
  <2> USE <1>1 DEF LogTime, LogNotime, Begin
  <2>1. ViaInv'
    BY DEF ViaInv
  <2>2. HeldInv' /\ AloneInv'
    BY DEF ViaInv, HeldInv, AloneInv
  <2>3. WholeLines'
    BY DEF WholeLines
  <2> QED
    BY <1>0, <2>1, <2>2, <2>3
<1>2. ASSUME NEW t \in Threads, Lock(t) PROVE LockInv'
  <2> USE <1>2 DEF Lock, Locked
  <2>1. via[t] = Unlocked /\ Fd(t) # Unlocked
    BY FdType DEF ViaInv
  <2>2. ViaInv'
    BY <2>1 DEF ViaInv
  <2>3. Good' => \A u \in Threads \ {t} : ~ Between(u)
    <3> SUFFICES ASSUME Good', NEW u \in Threads \ {t}, Between(u) PROVE FALSE
      OBVIOUS
    <3>1. via[u] # Fd(t) /\ via[u] # Unlocked
      BY DEF ViaInv
    <3>2. lock = via[u]
      BY DEF HeldInv
    <3> QED
      BY <3>1, <3>2
  <2>4. HeldInv'
    BY <2>3 DEF HeldInv
  <2>5. AloneInv'
    BY <2>1 DEF AloneInv, ViaInv
  <2>6. WholeLines'
    BY DEF WholeLines
  <2> QED
    BY <1>0, <2>2, <2>4, <2>5, <2>6
<1>3. ASSUME NEW t \in Threads, LockFails(t) PROVE LockInv'
  <2> USE <1>3 DEF LockFails, Locked
  <2>1. via[t] = Unlocked /\ Fd(t) # Unlocked
    BY FdType DEF ViaInv
  <2>2. ViaInv'
    BY <2>1 DEF ViaInv
  <2>3. HeldInv' /\ WholeLines'
    BY DEF HeldInv, WholeLines
  <2>4. AloneInv'
    BY <2>1 DEF AloneInv, ViaInv
  <2> QED
    BY <1>0, <2>2, <2>3, <2>4
<1>4. ASSUME NEW t \in Threads, Write(t) PROVE LockInv'
  <2> USE <1>4 DEF Write, After
  <2>1. ViaInv' /\ HeldInv' /\ AloneInv'
    BY DEF ViaInv, HeldInv, AloneInv
  <2>2. WholeLines'
    <3> SUFFICES ASSUME Good', torn' PROVE FALSE
      BY DEF WholeLines
    <3>1. PICK u \in Threads \ {t} : call[t] = "time" /\ InALine(u)
      BY DEF WholeLines
    <3>2. Between(t) /\ Between(u)
      BY <3>1 DEF InALine
    <3> QED
      BY <3>1, <3>2, OneInside
  <2> QED
    BY <1>0, <2>1, <2>2
<1>5. ASSUME NEW t \in Threads, Sync(t) PROVE LockInv'
  <2> USE <1>5 DEF Sync
  <2>1. ViaInv'
    BY DEF ViaInv
  <2>2. HeldInv' /\ AloneInv'
    BY DEF ViaInv, HeldInv, AloneInv
  <2>3. WholeLines'
    BY DEF WholeLines
  <2> QED
    BY <1>0, <2>1, <2>2, <2>3
<1>6. ASSUME NEW t \in Threads, Unlock(t) PROVE LockInv'
  <2> USE <1>6 DEF Unlock, Ended
  <2>1. Between(t)
    BY DEF ViaInv
  <2>2. ViaInv'
    BY DEF ViaInv
  <2>3. Good => \A u \in Threads \ {t} : ~ Between(u)
    BY <2>1, OneInside
  <2>4. HeldInv'
    BY <2>3 DEF HeldInv
  <2>5. AloneInv'
    BY DEF AloneInv
  <2>6. WholeLines'
    BY DEF WholeLines
  <2> QED
    BY <1>0, <2>2, <2>4, <2>5, <2>6
<1>7. ASSUME NEW p \in Processes, SetWriteFd(p) PROVE LockInv'
  <2> USE <1>7 DEF SetWriteFd
  <2>1. ViaInv' /\ AloneInv'
    BY DEF ViaInv, AloneInv
  <2>2. Good' => Good /\ \A t \in Threads : Process[t] = p => ~ Between(t)
    BY DEF Busy
  <2>3. HeldInv'
    BY <2>2 DEF HeldInv
  <2>4. WholeLines'
    BY DEF WholeLines
  <2> QED
    BY <1>0, <2>1, <2>3, <2>4
<1>8. CASE UNCHANGED logVars
  BY <1>8 DEF logVars, ViaInv, HeldInv, AloneInv, WholeLines
<1> QED
  BY <1>1, <1>2, <1>3, <1>4, <1>5, <1>6, <1>7, <1>8 DEF LogNext

\* log.c: every reachable state of the logging threads is well typed.
THEOREM LogTypeCorrect == LogSpec => []LogTypeOK
<1>1. LogInit => LogTypeOK
  BY LockInit DEF LockInv
<1> QED
  BY <1>1, TypeNext, PTL DEF LogSpec

\* udo_log_time of log.c: as long as no two calls share what was opened, writefd is
\* not changed during one and no flock fails, no line of one thread is written into
\* the line of another.
THEOREM LinesStayWhole == LogSpec => []WholeLines
<1>1. LockInv => WholeLines
  BY DEF LockInv
<1> QED
  BY LockInit, LockNext, <1>1, PTL DEF LogSpec

-----------------------------------------------------------------------------
(* The socket files.                                                       *)

\* A binder that nobody was in the way of has had its path for itself since it was
\* created: no other binder of it was there, and no client of it was destroyed.
AloneAtPath(s) ==
  /\ \A d \in Rivals(s) : pc[d] = "none"
  /\ s \in StreamServers => \A c \in StreamClients : ~ Destroying(c)

PathInv == \A s \in Servers : pc[s] # "none" /\ s \notin trod => AloneAtPath(s)

\* A server that has bound its path is found there.
BoundInv == \A s \in Servers : pc[s] \in {"listen", "alive"} /\ s \notin trod => file[Name(s)] = s

\* A client never binds, and only a datagram client connects in its create.
PlaceInv == /\ \A c \in StreamClients : pc[c] \in {"none", "socket", "alive", "close", "remove"}
            /\ \A c \in Ctxs : pc[c] = "connect" => c \in DgramClients

NamesInv == TypeOK /\ PlaceInv /\ PathInv /\ BoundInv /\ NothingLeft

\* The path of each kind.
LEMMA NameOf ==
  /\ \A c \in StreamServers \cup StreamClients : Name(c) = "stream"
  /\ \A c \in DgramServers : Name(c) = "dgram"
  /\ \A c \in DgramClients : Name(c) = c
  /\ \A c \in Ctxs : Name(c) \in Names /\ c \notin {"stream", "dgram", "none", "stale"}
BY NamesAssumption DEF Name, Names, Ctxs, Binders

\* At first there are neither files nor contexts.
LEMMA NamesInit == Init => NamesInv
<1> SUFFICES ASSUME Init PROVE NamesInv
  OBVIOUS
<1>1. (\A n \in Names : file[n] = "none") /\ \A c \in Ctxs : pc[c] = "none"
  BY DEF Init
<1>2. TypeOK
  BY <1>1, NameOf, NamesAssumption DEF Init, TypeOK, Ctxs
<1>3. PlaceInv /\ PathInv /\ BoundInv /\ NothingLeft
  BY <1>1 DEF PlaceInv, PathInv, BoundInv, NothingLeft, Servers, Ctxs, Binders
<1> QED BY <1>2, <1>3 DEF NamesInv

\* The types, and whose file is at which path.
LEMMA NamesTyped ==
  ASSUME TypeOK, PlaceInv, NEW c \in Ctxs,
         \/ Create(c) \/ Destroy(c) \/ Kill(c) \/ Inside(c) \/ SocketFails(c) \/ ListenFails(c)
  PROVE  TypeOK'
<1> USE DEF TypeOK, Goto
<1>1. pc' \in [Ctxs -> {"none", "socket", "bind", "listen", "connect", "alive", "close", "remove"}]
  <2>1. CASE Create(c) \/ Destroy(c) \/ Kill(c) \/ SocketFails(c) \/ ListenFails(c)
    BY <2>1 DEF Create, Destroy, Kill, SocketFails, ListenFails
  <2>2. CASE Inside(c)
    BY <2>2 DEF Inside, Socket, Bind, Listen, Connect, Close, Remove
  <2> QED BY <2>1, <2>2
<1>2. file' \in [Names -> Binders \cup {"none", "stale"}]
      /\ \A n \in Names : file'[n] \in Binders => Name(file'[n]) = n
  <2>1. CASE UNCHANGED file
    BY <2>1
  <2>2. CASE Closed(c)
    BY <2>2, NameOf DEF Closed, Ctxs
  <2>3. CASE Set(Name(c), "none")
    BY <2>3, NameOf DEF Set, Ctxs
  <2>4. CASE Bind(c) /\ Set(Name(c), c)
    <3>1. c \in Binders
      BY <2>4 DEF Bind, PlaceInv, Ctxs, Binders
    <3> QED BY <2>4, <3>1, NameOf DEF Set
  <2> QED
    BY <2>1, <2>2, <2>3, <2>4 DEF Create, Destroy, Kill, SocketFails, ListenFails, Inside, Socket,
       Bind, Listen, Connect, Close, Remove
<1>3. trod' \subseteq Binders
  BY DEF Create, Rivals, Destroy, Kill, SocketFails, ListenFails, Inside, Socket,
       Bind, Listen, Connect, Close, Remove, Binders, Ctxs
<1>4. faults' \in 0 .. MaxFaults
  BY NamesAssumption DEF Create, Destroy, Kill, SocketFails, ListenFails, Inside, Socket,
       Bind, Listen, Connect, Close, Remove
<1> QED BY <1>1, <1>2, <1>3, <1>4

\* The labels of the clients.
LEMMA Placed ==
  ASSUME TypeOK, PlaceInv, NEW c \in Ctxs,
         \/ Create(c) \/ Destroy(c) \/ Kill(c) \/ Inside(c) \/ SocketFails(c) \/ ListenFails(c)
  PROVE  PlaceInv'
<1> USE NamesAssumption DEF TypeOK, PlaceInv, Goto, Ctxs, Binders
<1>1. CASE Create(c) \/ Destroy(c) \/ Kill(c) \/ SocketFails(c) \/ ListenFails(c)
  BY <1>1 DEF Create, Destroy, Kill, SocketFails, ListenFails
<1>2. CASE Socket(c) \/ Listen(c) \/ Connect(c) \/ Close(c) \/ Remove(c)
  BY <1>2 DEF Socket, Listen, Connect, Close, Remove
<1>3. CASE Bind(c)
  BY <1>3 DEF Bind
<1> QED BY <1>1, <1>2, <1>3 DEF Inside

\* Who is in nobody's way, when c makes a step: c and the others.
LEMMA PathsKept ==
  ASSUME TypeOK, PlaceInv, PathInv, NEW c \in Ctxs,
         \/ Create(c) \/ Destroy(c) \/ Kill(c) \/ Inside(c) \/ SocketFails(c) \/ ListenFails(c)
  PROVE  PathInv'
<1> USE DEF TypeOK
<1> SUFFICES ASSUME NEW s \in Servers, pc'[s] # "none", s \notin trod'
             PROVE  AloneAtPath(s)'
  BY DEF PathInv
<1>0. s \in Ctxs /\ s \in Binders /\ Rivals(s) \subseteq Binders /\ Binders \subseteq Ctxs
      /\ StreamClients \subseteq Ctxs
  BY DEF Servers, Ctxs, Binders, Rivals
<1>1. CASE Create(c)
  <2> DEFINE others  == {d \in Rivals(c) : pc[d] # "none"}
             clients == {d \in StreamClients : Destroying(d)}
  <2>1. /\ pc[c] = "none" /\ pc' = [pc EXCEPT ![c] = "socket"]
        /\ trod' = IF c \in StreamClients THEN trod
                   ELSE (trod \ {c}) \cup others
                        \cup (IF others # {} \/ (c \in StreamServers /\ clients # {})
                                THEN {c} ELSE {})
    BY <1>1 DEF Create, Goto
  <2>2. CASE s = c
    <3>1. c \notin StreamClients
      BY <1>0, <2>2, NamesAssumption DEF Servers
    <3>2. others = {} /\ (c \in StreamServers => clients = {})
      BY <2>1, <2>2, <3>1
    <3>3. \A d \in Rivals(s) : pc'[d] = "none"
      BY <1>0, <2>1, <2>2, <3>2 DEF Rivals
    <3>4. s \in StreamServers => \A d \in StreamClients : ~ Destroying(d)'
      BY <1>0, <2>1, <2>2, <3>2 DEF Destroying
    <3> QED BY <3>3, <3>4 DEF AloneAtPath, Rivals
  <2>3. CASE s # c
    <3>1. pc[s] # "none"
      BY <1>0, <2>1, <2>3
    <3>2. s \notin trod
      BY <2>1, <2>3
    <3>3. AloneAtPath(s)
      BY <3>1, <3>2 DEF PathInv
    <3>4. c \notin Rivals(s)
      <4>1. ASSUME c \in Rivals(s) PROVE FALSE
        <5>1. s \in Rivals(c) /\ c \in Binders
          BY <1>0, <2>3, <4>1 DEF Rivals
        <5>2. c \notin StreamClients
          BY <5>1, NamesAssumption DEF Binders
        <5> QED BY <2>1, <3>1, <5>1, <5>2
      <4> QED BY <4>1
    <3>5. \A d \in Ctxs : d # c => pc'[d] = pc[d]
      BY <2>1
    <3>6. pc'[c] = "socket"
      BY <2>1
    <3> QED BY <1>0, <3>3, <3>4, <3>5, <3>6 DEF AloneAtPath, Rivals, Destroying
  <2> QED BY <2>2, <2>3
<1>2. CASE Destroy(c)
  <2>1. /\ pc[c] = "alive" /\ pc' = [pc EXCEPT ![c] = "close"]
        /\ trod' = trod \cup (IF c \in StreamClients THEN {d \in StreamServers : pc[d] # "none"} ELSE {})
    BY <1>2 DEF Destroy, Goto
  <2>2. pc[s] # "none" /\ s \notin trod
    BY <1>0, <2>1
  <2>3. AloneAtPath(s)
    BY <2>2 DEF PathInv
  <2>4. s \in StreamServers => c \notin StreamClients
    BY <2>1, <2>2
  <2> QED BY <1>0, <2>1, <2>3, <2>4 DEF AloneAtPath, Rivals, Destroying
<1>3. CASE Kill(c) \/ Inside(c) \/ SocketFails(c) \/ ListenFails(c)
  <2>1. PICK label \in {"none", "socket", "bind", "listen", "connect", "alive", "close", "remove"} :
          pc' = [pc EXCEPT ![c] = label]
    <3>1. CASE Kill(c) \/ SocketFails(c) \/ ListenFails(c)
      BY <3>1 DEF Kill, SocketFails, ListenFails, Goto
    <3>2. CASE Inside(c)
      BY <3>2 DEF Inside, Socket, Bind, Listen, Connect, Close, Remove, Goto
    <3> QED BY <1>3, <3>1, <3>2
  <2>2. pc[c] # "none" /\ trod' = trod
    BY <1>3 DEF Kill, SocketFails, ListenFails, Inside, Socket, Bind, Listen, Connect, Close, Remove
  <2>3. c \in StreamClients /\ label \in {"close", "remove"} => Destroying(c)
    <3>1. CASE Kill(c) \/ SocketFails(c) \/ ListenFails(c)
      BY <2>1, <3>1 DEF Kill, SocketFails, ListenFails, Goto, PlaceInv
    <3>2. CASE Inside(c)
      BY <2>1, <3>2 DEF Inside, Socket, Bind, Listen, Connect, Close, Remove, Goto, PlaceInv, Destroying
    <3> QED BY <1>3, <3>1, <3>2
  <2>4. pc[s] # "none" /\ s \notin trod
    BY <1>0, <2>1, <2>2
  <2>5. AloneAtPath(s)
    BY <2>4 DEF PathInv
  <2>6. c \notin Rivals(s)
    BY <2>2, <2>5 DEF AloneAtPath
  <2> QED BY <1>0, <2>1, <2>3, <2>5, <2>6 DEF AloneAtPath, Rivals, Destroying
<1> QED BY <1>1, <1>2, <1>3

\* The file of such a server stays its own.
LEMMA BoundKept ==
  ASSUME TypeOK, PlaceInv, PathInv, BoundInv, NEW c \in Ctxs,
         \/ Create(c) \/ Destroy(c) \/ Kill(c) \/ Inside(c) \/ SocketFails(c) \/ ListenFails(c)
  PROVE  BoundInv'
<1> USE DEF TypeOK
<1> SUFFICES ASSUME NEW s \in Servers, pc'[s] \in {"listen", "alive"}, s \notin trod'
             PROVE  file'[Name(s)] = s
  BY DEF BoundInv
<1>0. s \in Ctxs /\ s \in Binders /\ Name(s) \in Names
  BY NameOf DEF Servers, Ctxs, Binders
<1>1. CASE Create(c)
  BY <1>0, <1>1 DEF Create, Goto, BoundInv
<1>2. CASE Destroy(c)
  BY <1>0, <1>2 DEF Destroy, Goto, BoundInv
<1>3. CASE Kill(c)
  BY <1>0, <1>3, NameOf DEF Kill, Goto, Closed, BoundInv
<1>4. CASE SocketFails(c) \/ ListenFails(c)
  BY <1>0, <1>4 DEF SocketFails, ListenFails, Goto, BoundInv
<1>5. CASE Socket(c)
  <2>1. c # s
    BY <1>0, <1>5, NamesAssumption DEF Socket, Goto, Servers
  <2> QED BY <1>0, <1>5, <2>1 DEF Socket, Goto, BoundInv
<1>6. CASE Bind(c)
  <2>1. CASE s = c
    BY <1>0, <1>6, <2>1 DEF Bind, Goto, Set
  <2>2. CASE s # c
    <3>1. pc[s] \in {"listen", "alive"} /\ s \notin trod
      BY <1>0, <1>6, <2>2 DEF Bind, Goto
    <3>2. file[Name(s)] = s /\ s # "none"
      BY <1>0, <3>1, NameOf DEF BoundInv
    <3>3. file' = file \/ (file[Name(c)] = "none" /\ Set(Name(c), c))
      BY <1>6 DEF Bind
    <3> QED BY <1>0, <3>2, <3>3, NameOf DEF Set
  <2> QED BY <2>1, <2>2
<1>7. CASE Listen(c) \/ Connect(c)
  <2>1. pc[s] \in {"listen", "alive"} /\ s \notin trod /\ file' = file
    <3>1. c = s => ~ Connect(c)
      BY NamesAssumption DEF Connect, PlaceInv, Servers
    <3> QED BY <1>0, <1>7, <3>1 DEF Listen, Connect, Goto
  <2> QED BY <2>1 DEF BoundInv
<1>8. CASE Close(c)
  <2>1. pc[s] \in {"listen", "alive"} /\ s \notin trod /\ c # s
    BY <1>0, <1>8 DEF Close, Goto
  <2> QED BY <1>0, <1>8, <2>1, NameOf DEF Close, Closed, BoundInv
<1>9. CASE Remove(c)
  <2>1. pc[s] \in {"listen", "alive"} /\ s \notin trod /\ c # s
    BY <1>0, <1>9 DEF Remove, Goto
  <2>2. file[Name(s)] = s /\ AloneAtPath(s)
    BY <2>1 DEF BoundInv, PathInv
  <2>3. Name(c) # Name(s)
    <3>1. CASE c \in Binders
      BY <1>9, <2>1, <2>2, <3>1 DEF AloneAtPath, Rivals, Remove
    <3>2. CASE c \in StreamClients
      <4>1. s \notin StreamServers
        BY <1>9, <2>2, <3>2 DEF AloneAtPath, Destroying, Remove
      <4> QED BY <3>2, <4>1, NameOf DEF Servers
    <3> QED BY <3>1, <3>2 DEF Ctxs
  <2> QED BY <1>0, <1>9, <2>2, <2>3, NameOf DEF Remove, Set
<1> QED BY <1>1, <1>2, <1>3, <1>4, <1>5, <1>6, <1>7, <1>8, <1>9 DEF Inside

\* A file without a socket has somebody who removes it.
LEMMA LeftKept ==
  ASSUME TypeOK, NothingLeft, NEW c \in Ctxs,
         \/ Create(c) \/ Destroy(c) \/ Kill(c) \/ Inside(c) \/ SocketFails(c) \/ ListenFails(c)
  PROVE  NothingLeft'
<1> USE DEF TypeOK
<1> SUFFICES ASSUME faults' = 0, NEW n \in Names, file'[n] = "stale"
             PROVE  \E d \in Ctxs : Name(d) = n /\ pc'[d] = "remove"
  BY DEF NothingLeft
<1>1. ~ Kill(c) /\ ~ SocketFails(c) /\ ~ ListenFails(c) /\ faults = 0
  BY NamesAssumption DEF Create, Destroy, Kill, SocketFails, ListenFails, Inside, Socket, Bind,
     Listen, Connect, Close, Remove
<1>2. CASE file[n] = "stale"
  <2>1. PICK d \in Ctxs : Name(d) = n /\ pc[d] = "remove"
    BY <1>1, <1>2 DEF NothingLeft
  <2>2. ~ (c = d /\ Remove(c))
    BY <2>1, NameOf DEF Remove, Set
  <2>3. pc'[d] = "remove"
    <3>1. CASE c = d
      BY <1>1, <2>1, <2>2, <3>1 DEF Create, Destroy, Inside, Socket, Bind, Listen, Connect, Close
    <3>2. CASE c # d
      BY <1>1, <2>1, <3>2 DEF Create, Destroy, Inside, Socket, Bind, Listen, Connect, Close, Remove, Goto
    <3> QED BY <3>1, <3>2
  <2> QED BY <2>1, <2>3
<1>3. CASE file[n] # "stale"
  <2>1. Close(c)
    BY <1>1, <1>3, NameOf DEF Create, Destroy, Inside, Socket, Bind, Listen, Connect, Remove, Set
  <2>2. file[n] = c
    BY <1>3, <2>1 DEF Close, Closed
  <2>3. Name(c) = n
    BY <2>2, NameOf DEF Ctxs, Names
  <2>4. pc'[c] = "remove"
    BY <2>1 DEF Close, Goto
  <2> QED BY <2>3, <2>4
<1> QED BY <1>2, <1>3

\* So in every behaviour.
LEMMA NamesAlways == Spec => []NamesInv
<1>1. NamesInv /\ [Next]_vars => NamesInv'
  <2> SUFFICES ASSUME NamesInv, [Next]_vars PROVE NamesInv'
    OBVIOUS
  <2>1. CASE Next
    <3>1. PICK c \in Ctxs : \/ Create(c) \/ Destroy(c) \/ Kill(c) \/ Inside(c)
                            \/ SocketFails(c) \/ ListenFails(c)
      BY <2>1 DEF Next
    <3> QED BY <3>1, NamesTyped, Placed, PathsKept, BoundKept, LeftKept DEF NamesInv
  <2>2. CASE UNCHANGED vars
    BY <2>2 DEF vars, NamesInv, TypeOK, PlaceInv, PathInv, AloneAtPath, Destroying, BoundInv,
       NothingLeft, Rivals
  <2> QED BY <2>1, <2>2
<1> QED BY <1>1, NamesInit, PTL DEF Spec

\* For any number of servers and clients, killed processes and failed calls: a
\* server that is alive is found at its path, as long as no other one was created
\* there in its time and no stream client was destroyed in it.
THEOREM ServersAreReachable == Spec => []Reachable
<1>1. NamesInv => Reachable
  BY DEF NamesInv, BoundInv, Reachable
<1> QED BY <1>1, NamesAlways, PTL

\* Without a killed process or a failed call, a file without a socket is about to
\* be removed, for any number of contexts at any path.
THEOREM NoFileIsLeft == Spec => []NothingLeft
<1>1. NamesInv => NothingLeft
  BY DEF NamesInv
<1> QED BY <1>1, NamesAlways, PTL
=============================================================================
