# A verification development for libudo

libudo is a C library for Linux: threads with job queues, futexes and shared
memory between processes, a memory region that is cut into pieces, files and
pipes, and sockets of several families. These modules model the parts of it in
which order, sharing and failure matter, check them with TLC on small
instances, and prove the most important facts with TLAPS for every instance.
All references are to the sources below `src/` (implementation `src/src/*.c`,
interface `src/include/*.h`); `PROJECT.json` maps every definition that models
code to the lines it stands for.

    tlc -workers 2 -config JobPoolPair.cfg JobPool.tla
    tlapm JobPoolProofs.tla

## 1. The system: an inventory

No component runs by itself except the workers of the job pool. A context is a
structure that the caller passes to every function; the library does no
locking of contexts. Components meet in three places: `jpool.c` and `shm.c`
are built on `futex.c`; every context carries an error record of `log.c`;
everything else meets only in the kernel (descriptors, names of files, pipes,
the network) and in `errno`.

| Component | State | Operations | What is hard | What makes it correct |
|---|---|---|---|---|
| Job pool, `jpool.c` | one mapping: round-robin word, and per thread `front`, `rear`, `job_count`, `job_free` and a data area of 16-byte records | `create`, `add_job`, `wait`, `destroy`; each worker runs `p_run_thread` | producer and consumer share five words and the records without a lock; a full queue is drained by the producer; sleeping on `job_free`; destroy while workers sleep | every job runs, once, with its own argument; a wait ends, and only when the jobs have run; no write outside a data area; the data areas do not overlap |
| Futex, `futex.c`, `futex.h` | words in shared memory | `create`, `lock`, `wait`, `unlock`, `wake`, `unlock_force`, and the macros `wait_cond`, `wake_cond` | spin then sleep; store then wake; a forced value that sends everybody away; signals | mutual exclusion; no lost wakeup; a force is seen |
| Shared memory, `shm.c` | one POSIX object per name: a process count, two futexes and a data segment per process index | `create`, `data_read`, `data_write`, `destroy` | attach while others copy; count and unlink in several steps; calls that fail after they have taken a lock | one copier at a time; whole messages, each returned once; nobody stuck; the count is right |
| Memory region, `mm.c` | one mapping: sizes, offset, sub blocks each preceded by its size | `alloc` (which also grows), `sub_alloc`, `free` | sequences of cuts, frees in the middle and growth | the blocks tile the region; a free keeps the others |
| Datagram sockets, `sock-udp.c`, `usock-udp.c`, `vsock-udp.c` | descriptor, addresses | `server_create`, `server_accept`, `client_create`, `client_connect`, `send_data`, `recv_data`, `destroy` | every datagram is answered by one constant word; loss, duplication, reordering; `errno` is tested before the result; an accept is a second socket on the server's address, bound before it is connected | what was acknowledged was received; the ends stay in step; an accepted descriptor is its client's; who waits is answered unless something failed or went missing |
| Stream sockets, `sock-tcp.c`, `usock-tcp.c`, `vsock-tcp.c` | descriptor, address | `server_create`, `server_accept`, `client_create`, `client_connect`, `send_data`, `recv_data`, `destroy` | partial transfers and a stale `errno`; a connect that a signal ends; a create that fails half way closes what it opened; the socket file of `usock-tcp.c` | bytes arrive once and in order; nothing is closed twice or leaked; a server stays reachable |
| Raw CAN, `csock-raw.c` | descriptor, interface | `create`, `send_data`, `recv_data`, `destroy` | as above, in whole frames | as above |
| File operations, `file-ops.c` | descriptor, pipe, mapping, sizes, path buffer | `create`, `zero_copy`, `get_*`, `reset_full_path`, `destroy`, `set_fd_flags`, `remove_dir` | two splices per copy; the file changes between `stat` and `mmap`; one buffer for directory and name; flags read and written in two calls; directories removed while others make them | copies are whole; a file is handed on as it was left; lines and names are the right ones; flags that were set stay |
| Logging, `log.c` | level and `writefd` of the process, last error of a context | `udo_log_time`, `udo_log_notime`, setters | a line is several writes under `flock`, which excludes open files and not threads; `writefd` is loaded for each of them | lines stay whole; the file does not stay locked |
| Macros and version | none | | | |

## 2. Modules

| Module | Models | Notes |
|---|---|---|
| `JobPool` | `jpool.c` with the macros of `futex.h` expanded | one caller, `ThreadCount` workers; a step is one atomic access or one futex call |
| `JobPoolLayout` | the arithmetic of `udo_jpool_create` and of `p_queue_full`, in bytes | `JobPool` assumes of a queue what this module shows |
| `ForceLock` | what the futex functions promise | abstract: no spinning, no sleeping |
| `Futex` | `futex.c` on one word | refines `ForceLock` |
| `Shm` | the protocol of `shm.c` | takes `udo_futex_lock` to be `ForceLock`'s `Acquire`, which `Futex` justifies |
| `ShmLayout` | the division of the shared object, by what each process asks for itself | `Shm` assumes segments that share nothing |
| `Mm` | `mm.c` | in words |
| `UdpAck` | `send_data` and `recv_data` of the three datagram components | two peers, and a network or the kernel's queue |
| `UdpAccept` | `server_accept` and `client_connect` of `sock-udp.c` and `vsock-udp.c` | a server, several clients, and the kernel's choice of a socket |
| `Streams` | `client_connect`, `send_data`, `recv_data` of the stream sockets, the last two of `csock-raw.c` | a sender and a receiver |
| `Descriptors` | create, accept and destroy of `file-ops.c` and of all seven kinds of sockets | several contexts, one table of descriptors |
| `UnixNames` | create, connect and destroy of `usock-tcp.c` and `usock-udp.c` | processes, and the socket files between them |
| `ZeroCopy` | `udo_file_ops_zero_copy` | one context, several copies |
| `FileMap` | the mapped side of `file-ops.c`: create, `get_data`, `get_line`, `get_line_count`, destroy | several contexts and others on one file |
| `FilePaths` | the path buffer and its getters, the directories that create makes, `remove_dir` | a create and a removal on one tree |
| `FdFlags` | `udo_file_ops_set_fd_flags` | threads that share an open file |
| `Log` | `udo_log_time`, `udo_log_notime`, `udo_log_set_write_fd` | threads of several processes, one file |
| `Divisions`, `Transfers`, `FileOps` | components that do not interact, in one run each: the three divisions of a mapping, the three ways to move data, the four things done with files | one variable, chosen once, says which of them runs; the others keep one state |
| `MCDescriptors`, `MCDivisions`, `MCTransfers`, `MCFileOps`, `MCLog` | nothing: values of constants for TLC | |
| `JobPoolProofs`, `FutexProofs`, `ShmProofs`, `DescriptorProofs`, `LogAndNamesProofs` | theorems | each extends the modules of its components |
| `LayoutProofs`, `TransferProofs`, `FileOpsProofs` | theorems about `Divisions`, `Transfers` and `FileOps` and what they compose | a theorem there speaks of the component alone and of the composition |

### How state and actions correspond to the code

**JobPool.** `front`, `rear`, `count` and `fux` are the words `front`, `rear`,
`job_count` and `job_free` of each queue, `mem` its records, `cur` the
round-robin word. `front` and `rear` count records where the code counts
bytes. `job_count` wraps, at `Wrap` instead of 2^32. Each worker has a program
counter `wpc` whose labels follow `p_run_thread`: `loop` (`p_queue_can_loop`),
`rear`, `front` (`p_queue_can_get_job`), `force`, `val`, `sleep`, `asleep` (the
macro `udo_futex_wait_cond`), `take` (`p_queue_get_job`), `func`, `arg`, `run`,
`clear` (`p_queue_job_reset`) and `sub`. A record outside the queue may hold
NULL, and then it is passed over, or a word that the worker calls: `fault`, after
which nothing more can be said of that worker. The caller's `pc` follows the public
functions; `p_queue_wait` is entered from `add_job`, `wait` and `destroy`, and
`cont` says which one it returns to.

**Futex.** `fux` is the word; a process is in one of the two loops of `lock` or
`wait`, holds the lock, or is between a store and its `FUTEX_WAKE`. The value
that is handed to `FUTEX_WAIT` is kept in `wval`, because the code loads it
separately from the value it tests. A weak compare-and-swap may fail for no
reason, and does so in `SpinTry`; the strong one of the second loop does not.

**Shm.** `rd[b][i]` and `wr[b][i]` are the futexes of segment `i` of block `b`,
`count[b]` the block's first word. Attaching is five steps (`Open`,
`CheckCount`, `AddCount`, `InitFutex` once per segment); detaching is
`Destroy`, `SubCount`, `Unlink`. A count below zero stands for the large one that
an unsigned word then holds. Messages are two words, so that a torn copy
can be told.

**Mm.** Memory is a function from words to contents; the caller writes every
block's own mark into it, so that a moved, cut or overwritten block is told.

**ShmLayout.** What each attached process asked for is kept (`asked`), since
every process computes its own offsets; the length of the object is set by
every create, also by one that is refused.

**UdpAck.** `net[p]` holds the datagrams on their way to `p`. `recvfrom` may
find any of them, but for a Unix socket, whose queue keeps the order and loses
nothing. Answers carry, for the properties only, the number of the message they
answer.

**UdpAccept.** `stage` follows each socket on the server's address through
`socket`, `bind`, `connect` and `close`; `Route` is how the kernel chooses where
a datagram goes. The server accepts whomever it does not know, as a caller
must, and reads every descriptor it has. `Reply` is what `recv_data` does after it
has taken a datagram: it answers, or a stale `errno` or a failing `sendto` ends it
without an answer (`sock-udp.c:446-460`). Strangers send to the clients. `addr[c]`
is `sock->addr`, in which the client's `recvfrom` stores whom it hears of
(`sock-udp.c:331`, `499-500`), so that the next datagram and the next connect go
there; `filter[c]` is what the client's socket is connected to.

**Streams.** A unit is a byte, or a CAN frame. `stale` says whether `errno` is
`EINTR` or `EAGAIN`, which the code tests after a call that succeeded. The
callers believe the results: what was not reported as sent is sent again.

**Descriptors.** `table` is the kernel's table, with the owner of each open
number; `num` the numbers that each context has stored, `conn` one that is in a
local variable of a call. The kernel hands out the lowest free number, which
makes reuse immediate. A socket context is of another kind each time that it is
created; kinds differ in the options they set, in `/dev/vsock`, which a vsock
context opens for a moment inside its create, in when the number is stored, and
in what `accept` does.

**UnixNames.** `file[n]` says whose open socket is bound to a path, or that the
file is stale. Only `remove` takes a file away; `bind` fails if there is one.

**ZeroCopy.** `pipe` is the pipe's contents, each byte with the copy it belongs
to and its position, `in` and `out` what was read and written.

**FileMap.** `file` is the content, `found`, `dataSz`, `allocSz` what a context
computed from `stat`. `GetLine` is the loop of `get_line` as a fold over the
content; `StartsLine` is the definition it is compared with.

**FilePaths.** A path is a sequence of one-character names and slashes; `buffer`
is `full_path` with its `'\0'`, `stack` the recursion of `remove_dir` with the
entries each level has read. `stat`, the nested `opendir`, `remove` and `rmdir`
may each fail, and `remove_dir` goes on and returns 0 (`file-ops.c:528-547`): what
such a failure leaves is in `spared`. Another program makes a symbolic link in the
tree, to nowhere or to a directory outside; `stat` follows it, so that
`remove_dir` empties that directory (`emptied`) and fails to remove the link.
`mkdir` may fail for any reason, which create ignores. The name `o` stands for one that `UDO_STRTOU`
gives the number of `..`. A path has one slash between two names and none at the
end, so that a file is written in one way.

**FdFlags.** `opt[c]` is what `F_GETFL` returned to caller `c`, with its flags.

**Log.** `lock` is the open file description that holds the `flock`; `writefd`
is read anew at every step, as the code does.

### Memory, scheduling and kernel assumptions

* The atomics of the code are sequentially consistent; they are the only
  accesses that order anything. Plain stores to one job record may become
  visible in any order and grouping (`Fill`, `JobReset`).
* `rear > front` loads its operands from left to right, as compilers emit it.
* `FUTEX_WAIT` compares and queues atomically; it may return for a signal.
* The caller of the pool is one thread, as in `src/tests/test-jpool.c`.
* A spinning loop ends (it is bounded by 999999999 turns): `SF` on leaving it.

## 3. What is checked

Each run takes under five minutes with two workers. State counts are of
distinct states.

| Run | Configuration | Shows | Bounds, and why they do |
|---|---|---|---|
| `jobpool_pair` | 2 workers, 3 jobs, queues of 2 records | queue order, the ledger of `job_count`, drained resets | 5.4 million states. Two queues show the round-robin and waits over several queues; three jobs put two into one queue |
| `jobpool_full` | 1 worker, 3 jobs, a queue of 36 bytes | bounds, no call twice, waits and destroys end | 276 thousand states. The third job finds the queue full and drains it inside `add_job` |
| `divisions` | pools of up to 5 threads, all sizes from 1 to 300, pages of 32, words of 10 bits; 2 processes, up to 3 segments, objects of 1 to 48 bytes; regions of up to 14 words, 4 blocks of up to 4 words | areas and segments disjoint, records fit, blocks tile, lossless frees | 101 thousand states. Sizes go beyond what the word can hold, and below what the futexes need; blocks before, in and after a hole, larger and smaller than it |
| `futex_lock` | 2 lockers, a process that forces twice and stores | exclusion, wakeups, refinement with fairness | 16.7 thousand states. Two forces let a stale forced value meet a new one |
| `futex_wait` | a waiter, a locker, one force | the same refinement for `udo_futex_wait` | 7.9 thousand states. One force: with two the code fails, see below |
| `shm` | 2 processes, 2 segments, 2 blocks, 2 messages | exclusion, whole messages, rendezvous | 172 thousand states. Detaching and attaching again covers late attachers; the second block covers an unlinked name |
| `transfers` | datagrams: one peer sends 2 and receives 1, the other the reverse, one fault; streams: 4 units, 2 failures; accept: 2 clients, 2 accepted sockets, 3 sends of clients and strangers | in step, answers covered, units conveyed, own client, exchange ends, everybody served | 297 thousand states. Two sends allow a retry and a late answer; with two clients one is the other one to the other's accept; three sends are a stranger's datagram, the exchange in which it is read, and the next one |
| `descriptors` | 2 file contexts, 1 socket of any of 7 kinds, 4 free numbers, 3 creates | nobody touches what is not his, nothing leaks | 1.8 million states. Two complete files need six numbers, so creates fail half way |
| `unix_names` | 2 stream servers, 1 stream client, 1 datagram server and client, 2 faults | reachability, no file left, servers come up | 205 thousand states. Contexts are created without bound |
| `file_ops` | copies: 2 files of 3 bytes, a pipe of 2, sizes 1 to 3; mapping: 2 contexts, pages of 2, every text of up to 3 characters; paths: 7 paths, 3 creates, a symbolic link; flags: 3 callers, 2 flags, 4 calls | whole copies that return, files handed on, the right lines, names and directories, flags kept | 880 thousand states. A file longer than the pipe, sizes below, at and above its capacity; lines that are empty, first, last and without a newline |
| `log` | 3 threads in 2 processes, 2 open files, a line each, one change of `writefd` | whole lines, nobody waits for ever | 123 thousand states. Two threads of one process and one of another are the two cases that `flock` tells apart |
| `jobpool_waitmeansdone` | 1 worker, 2 jobs | a violation, see section 5 | |

`CHECK_DEADLOCK FALSE` is set where the system really stops: after destroy, when
a bounded number of calls was made, or in a wait that nothing ends.

### Conditional properties

The code has races (section 5), and most safety properties would fail after
one. Those properties are stated up to the first such event, which a history
variable records. They say that nothing *else* breaks them:

* `early` (JobPool): a worker took a record that was not complete. It is set by
  what the worker finds, not by where the caller is.
* `faults` (Shm): `stolen`, an attaching process locked a futex on which a message was
  ready; `leaked`, a call returned `-EINTR` with its lock taken.
* `damaged` and `grown` (Mm): a free cleared moved data; the region grew.
* `odd` (ShmLayout): a create asked for something else than those attached, or
  was refused.
* `failed`, `losses`, `copies` (UdpAck): a call failed; what the network did.
* `lied`, `dropped` (Streams): ends where a call that moved units returned a
  failure because of a stale `errno`; a CAN frame found no room.
* `mixed`, `lost` (UdpAccept): another client's datagram came to a socket
  between its bind and its connect; clients that wait although their datagram, or the
  answer to it, went missing: in the network, in a close, in a `recv_data` that
  failed after it had taken the datagram, or to the peer of an accepted descriptor
  that is read without an address. These clients wait for ever, since nothing is
  sent again; so does one whose `sock->addr` or socket is at a stranger, which
  `ServedAll` leaves out too.
* `shared` (FileMap): more than one context, or somebody else, had the file
  since it was last nobody's.
* `disturbed`, `spared`, `joined` (FilePaths): something was created while
  `remove_dir` ran, or removed while create did, or a `mkdir` of create failed for
  lack of room or rights; what a call that failed in `remove_dir` left;
  `get_full_path` was called after the last reset.
* `crossed` (FdFlags): two calls overlapped.
* `shared`, `moved`, `broken` (Log): two threads in `udo_log_time` used one open
  file; `writefd` changed during a call; a `flock` failed.
* `blame` (Descriptors): `partial`, a file context without a file or without a
  pipe, which destroy will close descriptor 0 for; `create`, a create of a file context
  failed, which does the same; `setsockopt`, `p_set_sock_opts` failed, which
  closes twice.
* `trod` (UnixNames): servers for whose path there was a second binder, or a
  client that was being destroyed.
* `short` (ZeroCopy): an output took less than it was offered.

`CallsReturn` (JobPool) leaves out one state beside `early`: `destroy` joins a
worker that loaded the forced value to sleep on.

Unconditional: what `WritesInBounds` says of `add_job`, and `AtMostOnce` (JobPool);
`MutualExclusion`
and `NoLostWakeup` (Futex), `OneCopier` and `WholeAndOnce` (Shm), `NoLeak`
(Descriptors).

### Fairness

A call that was made is carried on: weak fairness of the steps inside calls,
per thread or process. No one need start a call, so starting steps are outside
it, and so are signals, failures, losses and kills. `Futex` also has strong
fairness of giving up spinning. `ComesUp` assumes that a server is created again and again, in
the property itself. `UdpAccept` lets the server go on with what it has and a
waiting client read what has come for it, but nothing says that an answer is
sent or arrives; `Log` lets a call go on (weak), and a thread that
waits in `flock` get the lock if it is free again and again (strong: the kernel
wakes all who wait, in the order in which they came). A splice into a pipe in which bytes are left is not fair:
the kernel counts pages, and the pipe may be full.

## 4. What is proved

Every safety property that a run checks, invariants and action properties, is
a theorem for every value of the constants that satisfies the named
assumptions; `PROJECT.json` lists which theorem states which property. What
follows says which inductive invariant each needed, and why the property alone
is not one. Each of these invariants was checked with TLC, in the run of its
module, before it was proved.

**JobPoolProofs** (`ThreadCount`, `MaxJobs` positive, a queue of at least one
record). Four layers, of which only the last ends with the first early take:

* `BoundsInv`, for the half of `WritesStayInBounds` that is about `add_job`: that
  the record about to be filled is inside the queue depends on the step before, so
  `rear` has room when `p_queue_full` was passed or the queue reset (`RoomInv`). It
  needs no relation between `front`, `rear` and `job_count`, which the races destroy.
* `CallerInv`: the round-robin word points behind the job added last, `destroy`
  forces each queue once, and `rear` is no more than the jobs added.
* `OnceInv`, for `RunsOnce`, races or not: a job is in one record at most, then
  with the one worker that loaded it, then it has run; a record whose job has run
  is being cleared.
* `DrainInv`, for `RunsInOrder`, `ResetsAreDrained`, `CountIsKept` and the workers'
  half of `WritesStayInBounds` (a worker that leaves its wait by force takes the
  first record, since `destroy` has drained and reset the queue): for each queue where `front` and `rear` can be at each label of its worker (`PlaceInv`),
  what `job_count` is (`LedgerInv`), which records are full (`RecordInv`), and that
  its jobs have run, are in hand or are in the queue, in this order (`OrderInv`). The
  four parts only hold together: that a reset finds everything run needs the
  count, the count needs the records to be complete, and that a take finds a
  complete record is what `early` says.

**FutexProofs** (any sets of lockers, waiters and others). `LockExcludes`,
`WakeupsArrive`, and `ImplementsForceLock`, the safety half of the refinement.
The invariant adds `SleepInv`: a locker sleeps on `LOCK` only and a waiter
never on the value wanted, and each process is in the loop of its own
function. Without it `NoLostWakeup` says nothing of a process between its test
and `FUTEX_WAIT`.

**ShmProofs** (any processes, segments, messages). `CopiesExclude`: `TokenInv`
says that whoever copies holds *both* futexes, that both are free only as long as
no process has passed the segment in its initialisation loop, and that inside a
call a block is mapped. A process that attaches late only ever locks, so it can
take the token but not double it. `SegmentsDoNotStick` is a consequence that no
run lists (`NeverStuck`): until a token is stolen or leaked, two locked futexes
mean that somebody copies. `ReadsAreWholeAndOnce` needs the messages too
(`MessageInv`): how far each copy is, word by word (`CopyInv`); what is in a full
segment or in hand was sent (`SentInv`); and a message is in one segment or one
hand and was not returned yet (`PlaceInv`), which stealing and leaking only
make it lose.

**LayoutProofs** (any number of threads, processes, blocks, any page size, width
of the word and sizes), about the three parts of `Divisions` and about their
composition.

* Pool: as long as `queue_sz` can hold the size, the areas that
  `udo_jpool_create` computes by a division, rounded and in unsigned arithmetic,
  share nothing and hold what `add_job` puts there (`AreasAreApart`,
  `RecordsStayInArea`). The invariant says what the loop has computed after `t`
  turns; the rest is lemmas about quotients, remainders and `UDO_BYTE_ALIGN`.
* Shared object: `SegmentsStayApart`. While all ask for the same, the count is the
  number of those attached, so that nobody but the last one unlinks the name, and the
  length is what all have asked for (`AskedInv`).
* Region: `BlocksTile` and `FreesKeepWhatFits`. The blocks follow one another
  (`ChainInv`), and the offset is behind the last one (`OffsetInv`) or, in a region
  that has grown, at the start (`ResetInv`). The disjunction is needed: growth
  breaks `OffsetInv` and keeps the blocks.

**DescriptorProofs** (any contexts, any number of descriptors). `NothingLeaks`:
`Known` says for every step of every create, accept and destroy, failure paths
included, where the number of a descriptor is kept: in a field that the rest of
the calls will close, or in the local variable of the call. It speaks only of
descriptors that a context still has, so that others may close them by mistake,
which the code can do, without breaking it. `OnlyOwnAreClosed` and
`NumbersStayOwn` need the converse, `OwnInv`: as long as nothing is to `blame`, every
such number is open, the context's own and in one place only, or the -1 of a
socket that was never made. That the kernel's
lowest free number exists is a lemma from the well-foundedness of the natural
numbers.

**TransferProofs** (any numbers of messages, units, clients and sockets, any
losses and failures), about the three parts of `Transfers` and about their
composition.

* Datagrams: `AcksAreCovered` by `Ledger`: the answers on their way to a peer and
  those that its `send_data` has taken are together no more than what the other's
  `recv_data` has returned, as long as the network doubles nothing.
  `PeersStayInStep` by `ExchangeInv`: while no call has failed, a message that is not
  acknowledged is on its way, in hand, or its answer is on its way, and only one
  of these; there is at most one.
* Streams: `UnitsAreConveyed`. What was received and what is on its way are
  together what was sent; `EndInv` says that the end is told only when nothing is left.
* Accept: `ReadsAreTheClients`. At most one socket is bound and not connected,
  that of the accept under way (`UnderInv`); so a datagram that is queued at an
  accepted socket is its client's, or `mixed` tells of it (`PeerInv`).

**FileOpsProofs** (any copies, contexts, texts, paths, trees, callers and flags),
about the four parts of `FileOps` and about their composition (`FilesInv`).

* `CopiesAreWhole`, by `WholeInv`: between two calls the pipe is empty, between the
  two splices of one it holds what was read last, and every output has all that
  was read before.
* `FilesAreHandedOn`, by `HandInv`: which of the sizes, the file and what `stat`
  found agree at each step of a create, while nobody else has the file.
* `LinesAreRight`. `get_line` and `get_line_count` are folds over the text. A fold is a
  choice of a recursive function on sets of positions; that there is one, and what
  it returns for the first `k` characters, is found by induction over `k`, in the
  form that a set of counterexamples would have a least one (`UpTo`,
  `FoldExists`). Then `Reached` says what the loop of `get_line` has in `offset`, `c`
  and the line counter after `k` characters, before and behind the line wanted.
* `PathsAreRight`: the buffer is the path, with the end of the directory in it or
  not (`BufferInv`), and the directories up to the slash in hand are made
  (`WayInv`).
* `DirectoriesAreRemoved`: what is in the file system is a tree (`TreeInv`),
  while nothing is created `remove_dir` is alone (`QuietInv`), and its calls are one
  for each directory on the way down, each of which has cleared what it read but
  for the directory that the next one is in (`WalkInv`). What a failed call has
  left is below something that was read (`NestInv`), so a directory that cannot be
  removed for what is in it is accounted for. Alone of all theorems it uses
  `NamesAreCharacters` of `FilePaths`: there is one slash between two names and
  none at the end, that is, a path is written in one way.
* `FlagsAreKept`: while no two calls overlap, what a caller has read is what is set
  (`LoneInv`); what it has read was asked for, always (`ReadInv`).

**LogAndNamesProofs** (any threads, processes, open files, servers, clients and
faults). `LinesStayWhole`: whoever is between its two calls of `flock` remembers
the open file that it locked, `writefd` still is that one, and it has the lock
(`HeldInv`); and no one else does so with the same open file (`AloneInv`).
`ServersAreReachable` and `NoFileIsLeft`: while a server is not in `trod`, no
other binder of its path exists and none of its clients is in a destroy
(`PathInv`), so the file that its `bind` made is there (`BoundInv`) and nobody is
about to remove it.

Only model-checked: the liveness properties (`CallsReturn`, `Rendezvous`,
`ExchangeEnds`, `ServedAll`, `ComesUp`, `Returns`, `LineEnds`) and the fairness
half of `AbstractSpec`, because they rest on `ENABLED`, which is out of the
prover's reach; and the violations of section 5. `TransfersTypeCorrect`,
`FilesTypeCorrect`, `TypeCorrect`, `ShmTypeCorrect`, `DescriptorsTypeCorrect` and
`LogTypeCorrect` are the type invariants.

## 5. Where the code and its words disagree

**`jobpool_waitmeansdone`.** `add_job` advances `rear` (`jpool.c:455-456`)
before it fills the record and counts the job. A worker that sees the new
`rear` takes the empty record, finds no function, and subtracts from
`job_count`; `add_job` adds, the count is 0, and `udo_jpool_wait` returns with
a job that has not run and never will. `jpool.h:103`: "Blocks until all jobs in every
threads queue have been completed."

The following were met on the way. Each row names a definition and a
configuration. Where the configuration has the name of the definition, run it as
it is: `tlc -config <name>.cfg <module>.tla`. Otherwise put the definition in
place of the `INVARIANTS` and `PROPERTIES` of the configuration (as an
`INVARIANT`, or as a `PROPERTY` if it speaks of steps or behaviours), and TLC
finds the violation.

| Definition (configuration) | What the code does | What is said |
|---|---|---|
| `OwnArgument` (`JobPool_OwnArgument`) | `func` and `arg` are stored after `rear`; the worker can call the new function with the old argument, NULL | `jpool.h:88-89`: arg "will be passed as the argument to @func" |
| `DestroyReturns` (`JobPool_DestroyReturns`) | the forced value is tested in one load and slept on in another (`futex.h:140`, `futex.c:198`); with both wakes in between the thread is never joined | `jpool.h:115-116` |
| `WaitAlwaysReturns` (`JobPool_WaitAlwaysReturns`) | the reset stores `front` before `rear` (`jpool.c:239-242`); a record is taken twice, `job_count` wraps, the next wait spins for ever | `jpool.h:103` |
| `AddedJobRuns` (`JobPool_AddedJobRuns`) | `udo_futex_wake_cond` does not change the word (`futex.c:245-252`); a wake between test and `FUTEX_WAIT` is lost | `jpool.h:79-80`: "to then later execute" |
| `CreateFailureReturns` (`JobPool_CreateFailureReturns`) | a failed `pthread_create` leads to joining the thread that was not created (`jpool.c:396-399`) | `jpool.h:70`: "on failure: NULL" |
| `AtLeastSize` (`Divisions`) | the size is cut to 32 bits (`jpool.c:368`) | `jpool.h:43`: "Minimum size of each threads shared memory segment" |
| `AnySizeFits` (`Divisions`) | a queue smaller than a record is never full: the difference wraps (`jpool.c:218-219`) | `jpool.h:43-45` |
| `CopiesStayInside` (`Divisions`) | `data_read` and `data_write` copy whole ints, beyond a size that is no multiple of one | `shm.h`, size: "Size in bytes to read from or write to shared memory" |
| `LengthKept` (`Divisions`) | every create sets the length of the object to what it asks for (`shm.c:160`), under those who are attached | `shm.h`, shm_size: "Size of shared memory." |
| `FreeKeepsAll` (`Divisions`) | the last `memset` clears words that were moved (`mm.c:186`) | `mm.h:102-103` |
| `FreeStaysInside` (`Divisions`) | moves and clears go past the end (`mm.c:174-186`) | `mm.h:101` |
| `GrowKeepsData` (`Divisions`) | after growth the offset is at the start again (`mm.c:94-96`) | `mm.h:45-46` |
| `ErrnoTellsForce` (`Futex_ErrnoTellsForce`) | the lock is taken and `errno` is `EINTR`, from a signal or an earlier call | `futex.h:73` |
| `ForcedExit` (`Futex_ForcedExit`) | an unlock overwrites a force before the sleeper looks | `futex.h:168-170` |
| `ForceReachesWaiters` (`Futex_ForceReachesWaiters`) | `udo_futex_wait` loads the word twice and can sleep on a forced value | `futex.h:168-170` |
| `WatchersCounted` (`Shm_WatchersCounted`) | a refused process is uncounted without having been counted (`shm.c:181`, `417`) | `shm.c:175-176` |
| `ProcCountKept` (`Shm_ProcCountKept`) | check and increase are two steps (`shm.c:181-190`) | `shm.h:44-45` |
| `ReadyUntilRead` (`Shm_ReadyUntilRead`) | attaching locks a read futex on which a message is ready (`shm.c:204-208`) | `tests/test-shm.c:152-153` |
| `OneBlock` (`Shm`) | the name is unlinked after somebody attached again (`shm.c:417-425`) | `shm.h:44-45` |
| `NeverInterrupted` (`Shm`) | `-EINTR` is returned with the lock taken (`shm.c:298`, `344`) | `futex.h:73` |
| `NoCrash` (`Shm`) | index `proc_count` passes the check (`shm.c:268`) and its segment is NULL | `shm.h:127` |
| `AckMeansReceived` (`Transfers`) | a late answer is taken for the next message's (`sock-udp.c:508`) | `sock-udp.c:417` |
| `OnlyData` (`Transfers`) | a late answer is returned as data (`sock-udp.c:444`) | `sock-udp.h:275` |
| `TakenIsReturned` (`Transfers`) | a received datagram is reported as a failure by a stale `errno` (`sock-udp.c:446`) | `sock-udp.h:284` |
| `KeepsItsServer` (`Transfers`) | `recvfrom` of `send_data` is given the context's own address (`sock-udp.c:331`, `499-500`); after a stranger's datagram the client sends to the stranger | `sock-udp.h:179-180`: "Send data to client socket address provided via call to udo_sock_udp_client_create(3)" |
| `AlwaysOwnClient` (`Transfers`) | what came between bind and connect (`sock-udp.c:236-243`) is read from the accepted descriptor, whoever sent it | `sock-udp.h` of `server_accept`: "Open file descriptor to accepted client" |
| `FailureMeansNothing` (`Transfers`) | `errno` is tested before the result of `send` and `recv` (`sock-tcp.c:432`), so that bytes that were moved are reported as a failure | `sock-tcp.h` of `send_data`: "on failure: # < 0" |
| `UpIsTold` (`Transfers`) | a connect that a signal ends goes on in the kernel; trying again fails with `EISCONN` | `sock-tcp.h` of `client_connect`: "on success: 0" |
| `ClosesOnlyCreated` (`Descriptors`) | destroy closes fields that were never opened, and are 0 (`file-ops.c:454-456`) | `file-ops.h:323-324`: "closes FD's (if open) created after udo_file_ops_create() call" |
| `StaysReachable` (`UnixNames_StaysReachable`) | a client's destroy, or a second server's failed bind, removes the socket file of the server that runs (`usock-tcp.c:324`) | `usock-tcp.h:195-196` |
| `NoSilentLoss` (`FileOps`) | at the end of the input 0 is returned while bytes of a short write are in the pipe (`file-ops.c:245`) | `file-ops.h:108-109` |
| `AlwaysReturns` (`FileOps`) | bytes left by a failed write can fill the pipe, and the next call waits for ever | `file-ops.h:115-117` |
| `NothingCut` (`FileOps`) | a file that comes into being after `stat` is cut to the size asked for, 0 | `file-ops.c` of create: "If file exists and caller defined file_info->size set to 0" |
| `OnlyLines` (`FileOps`) | `get_line` returns a pointer for a line that does not exist | `file-ops.h` of `get_line`: "on failure: NULL" |
| `DataInFile` (`FileOps`) | `data_sz` is not reduced by the offset that is mapped from | `file-ops.h` of `get_data`: "Pointer to file data at a given offset" |
| `AlwaysSplit` (`FileOps`) | of a path without a directory the first character is overwritten | `file-ops.h` of `get_filename`: "File name of open file" |
| `AlwaysRemoved` (`FileOps`) | also when no call fails: names to which `UDO_STRTOU` gives the number of `.` or `..` are skipped, and 0 is returned | `file-ops.h` of `remove_dir`: "Recursively delete files and directories" |
| `FailureTold` (`FileOps`) | a `stat`, nested `opendir`, `remove` or `rmdir` that fails is ignored and 0 is returned (`file-ops.c:528-547`) | `file-ops.h:378`: "on failure: -1" |
| `StaysInside` (`FileOps`) | `stat` follows a symbolic link, and what is in the directory that it leads to is removed (`file-ops.c:528-534`) | `file-ops.h:370-371`: "contained inside caller defined directory" |
| `SetToValue`, `NoFlagLost` (`FileOps`) | flags are added to those that are set, in two calls of `fcntl` between which another thread sets its own (`file-ops.c:486`) | `file-ops.h` of `set_fd_flags`: "Set the file status flags to the value specified by parameter" |
| `AlwaysWhole` (`Log`) | threads of a process share the open file and so the `flock` (`log.c:177`) | the lock in `log.c` itself |

## 6. Not modelled

* Several threads that call one pool: `cur_thread` is then loaded and stored in
  two steps (`jpool.c:438-445`), and two callers can fill one record.
* Processes killed inside `shm.c`: there is no recovery to check, and every
  statement about the count would fail at once.
* Symbolic links on the way of a create, and links that lead back into the tree that
  `remove_dir` removes; the one in the model leads out of it, or nowhere.
* Memory of contexts. `udo_csock_raw_create` never sets `free`
  (`csock-raw.c:88-94`), so that destroy does not free what it allocated.
* The level and the colors of `log.c`, and the error record of a context: settings
  without a protocol.
* Formatting, address parsing, names longer than the path buffer, getters that
  only read one field, `macros.h` but for `UDO_BYTE_ALIGN` and `UDO_STRTOU`.

## 7. Plan

Done: the job pool, the futex and shared memory, modelled, checked and proved
first, because the rest of the library does not run concurrently by itself;
then the division of the mappings, the ways of the sockets to move data, the
descriptors of every kind of context, socket files, and all that `file-ops.c`
and `log.c` do with files; and the proof of every safety property that a run
checks.

What is left, in this order:

1. `JobPool` with several callers. The races of section 5 then meet each other,
   and most of the conditional properties need a second condition.
2. Proofs of what such a model still keeps: `WritesInBounds` and `AtMostOnce` are
   the candidates, by `BoundsInv` and `OnceInv` with the two steps of `cur_thread`.
