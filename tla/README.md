# Neblina server: a TLA+ model

This directory models the neblina server (the C code under `src/`, `os/` and
`main/` of the repository), checks the model with TLC and proves with TLAPS what does
not need fairness. Line numbers are those of the commit the model was written from.

## 1. The system

Neblina runs each server in a process of its own. A **watchdog** process starts
the service processes and restarts them. A service process runs one **server**:
a main thread that polls sockets (the **event loop**) and a **session pool** of
worker threads that process the sessions with new data. A **session** belongs
to one connection and owns a **communication buffer**; its callbacks are the
service's own code. Three platforms have their own **poller** and processes.

| Component | Code | State | Operations |
|---|---|---|---|
| session pool | `server/spool/spool.c` | `session_thread_map` with `ready` per session, pool mutex, per worker: `should_wake`, mutex, condition, `thread_running` | create, add, flush, remove, destroy; `thread_function` |
| event loop | `server/server.c` | `session_hash`, poller, pool, `termination_requested` | new connection, new data, disconnect, run, finalize; `server_process_session` on a worker |
| session hash | `contrib/uthash/uthash.h` | entries with two pairs of links, buckets with counts | find, add with expansion, delete, iterate |
| TCP server | `server/tcp/tcp_server.c` | addresses, the listening socket | create, accept, recv, send, destroy |
| poller | `os/linux/poller.c`, `os/bsd/poller.c`, `os/win32/poller.c` | registered descriptors, those with news (in the kernel, or found by a scan) | create, add, remove, wait, destroy |
| communication buffer | `server/commbuf.c` | two byte buffers, each a size and a block | add, extract, extract a line, clear |
| session | `service/session.c` | descriptor, buffer, callbacks | init, on_recv, finalize |
| watchdog | `watchdog/watchdog.c`, `os/posix/os.c`, `os/win32/os.c` | per service: pid, recent attempts, time of the last attempt | init, step, finalize, state |
| future | `util/future.c`, `os/win32/pthread.c` | thread, status, result, mutex | create, await, status, notify error, destroy |
| TCP client | `client/tcpclient.c` | socket, addresses; position and clock of a receive | create, send, receive (nonblocking, spinning), destroy |
| allocation, timer, logs, window | `util/`, `os/` | - | - |

How they interact:

- The main thread calls the pool (add, flush, remove, destroy); the pool calls
  back `server_process_session` on a worker **while it holds the pool mutex**, so
  that processing is serialised and excludes every spool call.
- `server_process_session` reads `session_hash`, which the main thread changes
  **without a lock**.
- The main thread registers and closes descriptors; the poller reports them in
  batches, whose later events are handled after the earlier ones had their effect.
- The kernel reuses descriptors, pids and thread ids as soon as they are free;
  the allocator reuses addresses.
- Clients, signals and dying children act between any two system calls.

What is hard, and where, is the list `hazards` of `PROJECT.json`: lost wakeups
(spool.c:44-51, 204-213), shutdown against sleeping and working threads
(108-141), sessions freed while workers run (server.c:95-124), the unlocked
lookup (28-33), descriptors closed and reused (53, 120-123), single `recv` and
single `send` on nonblocking, edge triggered sockets (40-65), stale events and full
batches (server.c:138-152, win32/poller.c:64-90), error paths of the set-up
(tcp_server.c:42-98), restart limits over time and reused pids
(watchdog.c:28-123), joins of threads whose ids come back (future.c:55-94), line
extraction across chunks (commbuf.c:86-111), the client's position and clock
(tcpclient.c:159-203).

What makes each component correct, in a sentence: the pool runs what was flushed,
once, exclusively, and stops; the server owns each connection through exactly one
session, releases it when it is closed, and ends when asked to; the table keeps
every session findable; as long as no callback fails registrations, sessions and open descriptors are the same;
no news of a descriptor is starved or taken for another's; the data path doubles
and reorders nothing and knows what it loses; the watchdog owns exactly its
children and limits restarts without giving up for ever; a future tells what its
function did; the buffer cuts its input at the separators, however it arrived; the
client delivers a reply, keeps no socket it does not use and returns.

## 2. The modules

| Module | Models | Uses |
|---|---|---|
| `TaskPool` | what the pool promises: held, pending and running sessions | |
| `Connections` | what a server promises about its connections: who has which descriptor, from when to when | |
| `SessionPool` | `spool.c` with workers | implements `TaskPool` (`TP`) |
| `Server` | `server.c`: connections, descriptors, hash, pool, tear-down | `TaskPool` as its pool (`Pool`); implements `Connections` (`Conn`) |
| `DataPath` | one connection's data, from the client through poller, `recv`, buffer, session, `send` and back | |
| `HashJen` | the hash function of uthash for an `int`, modulo 2^32 | |
| `SessionHash` | the uthash table as memory, written by the main thread and read by a worker | `HashJen` |
| `Poller` | epoll, kqueue and WSAPoll behind `poller.h` | |
| `TcpServer` | a server's descriptors from `tcp_server_create` to `tcp_server_destroy` | `Poller`; implements `Connections` (`Conn`) |
| `TcpClient` | `tcpclient.c` | |
| `CommBuf` | `commbuf.c` and the `REALLOC` of `alloc.c` | |
| `Watchdog` | `watchdog.c` over POSIX and Windows processes | |
| `Future` | `future.c` over POSIX threads and their Windows emulation | |
| `*Proofs` | proofs about `SessionPool`, `Server`, `SessionHash`, `TcpServer`, `DataPath` and `CommBuf` (in `DataPathProofs`), `TcpClient`, `Watchdog`, `Future` | the module |
| `MC*` | the instances TLC checks (model values, symmetry) | the module |

Each definition that stands for code is listed in `map` of `PROJECT.json` with
its lines. Definitions named "Mutant of ..." are slips a programmer could make at
that place; the runs must find each of them (`mutants`).

**Connections.** Three variables: the kernel's view of each descriptor (`sock`), the
descriptors that have a session (`served`) and `termination_requested`. A descriptor
that is given out was free, gets its session before the next one is accepted, and is
closed, together with its session, only if the client has left or the server ends. `Server`
and `TcpServer` look at the same handlers from two sides, one with sessions, workers and
addresses of memory, the other with every descriptor of the process, the set-up and three
pollers. That both implement `Connections` says that they agree about what happens to a
connection: `Server` with `served` the descriptors in its hash, `TcpServer` with `Sock` read
off `fdt` and `hungup`. Both do as long as no callback fails: one that does closes the
socket of a client that is still there (server.c:53).

**SessionPool.** Variables have the names of the struct members; sets replace
arrays of flags (`ready`, `should_wake`, `thread_running`). `pc[t]` is where worker
t is in `thread_function`: `check` (line 44), `lock`, `test`, `asleep`, `relock`
(47-49), `pool` (53), `work` (55-69). `mpc` is the spool call of the main thread.
A critical section that waits for nothing inside is one step; where a second
mutex is taken inside (190, 115) or work is done inside (68-69), the mutex is a
variable and the section is several steps. `thread_running` is written under a
mutex and read without one, a data race; what a build can make of it is an old or
the new value, which the interleaving of `CheckRunning` with `StopThread` covers,
as reading the old value late is the same as reading it before the write. The main
thread is the only one that changes `session_thread_map`, so its own unlocked reads
of it (167, 204) see what it wrote, and a look at the map is part of the step that
follows. The list of sessions is walked in any order, the code walks it in the
order the sessions were attached.

**Server.** The main thread's `mpc` walks through the handlers, one step per
point at which a worker can see a difference: `HASH_ADD_INT` has a beginning and
an end, the removal of a connection is pool, `free`, and hash-poller-close. A
descriptor is the lowest free number, as the kernel gives it; sessions are
addresses that are allocated again. `sock` is the kernel's state of a descriptor
(`hup`: the peer has closed), `ready_list` is epoll's: an edge that was not
reported. `AcceptConnection` may find that the client already sent or left. A
lookup without a lock finds what is in the hash; while the main thread is inside
HASH_ADD_INT or HASH_DEL (`TableChanges`) it may also miss a session that is there or
read freed memory, after which nothing is said. How that comes about is `SessionHash`'s
subject. `left` has the entries that the HASH_ITER of `server_finalize` went past without
removing them: after a failing callback two sessions may have one number, and the lookup
in `handle_disconnect` may take the other one.
With `Resets`, a send to a client that closed may raise SIGPIPE and end the process.
A server is started in one of the `Configs` and keeps it (`config`): with
`on_recv_fails` the callback may return a negative number; with `threaded` false the
flush runs the session on the main thread.

**SessionHash.** The entries have the links of `UT_hash_handle`; `tbl` is
`UT_hash_table`. The writer is cut where a reader can tell the difference: the entry
is appended to the list, linked into its bucket, every item of an expansion moves in
a step of its own, the old array is freed and then left. The reader (`rpc`) loads
the head, the bucket number, the first entry and the links one by one, and is sent
to `freed` where it would follow freed memory. As the pool mutex is held by the
worker, `PoolAdd` and the removals wait until the lookup is over. The hash of a
descriptor is `HashJen`'s; an assumption, which TLC evaluates, says that the values
of the instance are the true ones (in the low half, which is all that the bucket
number of a table of up to 65,536 buckets depends on). The descriptors of an instance
are the domain of `HashValue`. Any entry may get any descriptor, also one that another
entry has (`shared`): neither the macro nor its caller looks, and after server.c:53 the
kernel gives the number out again. Such entries share a bucket for ever, so that the table
could grow without end; a table of more than `MaxBuckets` buckets gets no further entry.
Where HASH_ITER goes on from an entry that its body freed, `mpc` is `undefined` and nothing
more is said. Words are loaded whole and in program order.

**Poller and TcpServer.** `config` is the platform with `evt_sz` and `FD_SETSIZE`.
For epoll and kqueue, `queue` is the kernel's ready list: a descriptor with news is
queued once, taken in its turn (`Taken`, the first of `Live`) and dropped if the news
are gone; a level-triggered one goes to the end again (`Rest`). `Among` and `Scan` are
recursive functions that go along an array as the loops of the code do. WSAPoll scans `poll_fds` from the front, and a descriptor
may make two events. `fdt` says who has each descriptor of the process (the
listener, the poller, a client's connection, another thread), so that a `close` of a
number that was given out again is seen. `mpc` goes through `tcp_server_get_listener`
with every failure, `server_iterate` and `server_finalize`. In the configurations with
`on_recv_fails` a worker may close the socket of a session at any time (`CallbackFails`):
the kernel drops it from epoll and kqueue, WSAPoll's array keeps it (`ClosedUnder`), and the
session stays. If the number goes to another thread, that thread's data may be taken for the
session's (`OtherGets`); if it goes to a new client, the number has two sessions (`hidden`).
The events carry, for the properties, the connection they were about (`of`). On bsd the signal handler exits
the process in the middle of `poller_wait` (os/posix/os.c:21-23).

**DataPath.** The units are numbered; `received`, `recv_buf`, `send_buf` and
`delivered` show where each is. The session answers every unit, as the echo session
of the tests. `edge_triggered` is the poller of Linux (EPOLLET), false the one of
BSD and Windows; `Bursts` says which of them an instance has, each with the most
units a client may have sent that were not received (`window`). `RecvBufSz` is
`RECV_BUF_SZ` in units, `SendRoom` what the socket takes; `cut` records what a partial
send threw away.

**TcpClient.** Bytes are numbered in the order of the stream; `mem` has for every
offset from the reader's buffer on the byte that was written there. `data` and `pos`
are advanced separately, as in the code. The clock is in milliseconds from the
beginning of the second of the call, with `Second` for 1000; `Elapsed` is what the
POSIX code and the Windows code make of two readings. `errno` keeps what an earlier
failure left. The pc `undefined` is where `tcpclient_recv_nonblock` frees the address
of its caller's variable (tcpclient.c:152).

**Watchdog.** `age` is the time since `last_attempt`, up to the first value that
counts as "more than SEC_TO_RESET_ATTEMPS". `proc` is the kernel's view of a pid;
a pid that is free may be any other program's. `platform` chooses between fork,
waitpid, kill and CreateProcess, GetExitCodeProcess, TerminateProcess: there a
service that failed to start has the pid `(DWORD) -1`, and the exit code 259 is
STILL_ACTIVE. `nonrecoverable` records, for one finding, who has exited so.
`KillTask` ends in the waiting loop or, with `wait` false, in `left`. Windows keeps a pid while a handle to it is open, and the watchdog
closes none; the model lets a pid of a task that is down come back on both, which
only adds behaviours. `starts` records the ages of the last starts for the
properties, and no step depends on it. The three loops of `watchdog_step` are steps
per service, except the last, which looks at nothing that can change meanwhile. A
pass of the waiting loop of `watchdog_finalize` is one step: its looks at different
children commute with what other children do. The five seconds end at an
arbitrary tick.

**Future.** One owner per future and one thread per id. A second `pthread_join` on
an id is undefined; the model takes the mild outcome (an error, `tmp_result` is
not written) if nobody has the id, and what really happens, a join of the other
thread, if the id was given out again; `robbed` records the future that lost its
thread so. On Windows the result passes through a DWORD (`DwordOf`).

**CommBuf.** The receive buffer is a sequence of bytes; `input` and `lines`
record what went in and what came out. The send buffer is its size and whether it
has a block, which is all that `REALLOC` looks at. A session asks for one of the
`Separators` and stays with it. Its specification is `CommBufSpec`, so that one
module can extend it and `DataPath`: the run `Data` checks the two next to each other.

## 3. The runs

| Run | Instance | States | Shows |
|---|---|---|---|
| `Pool` | 2 workers, 3 sessions, spurious wakeups | 41,027 | no lost wakeup, exclusion, quiet destruction; implements `TaskPool`; a new session never takes the loads further apart; flushed sessions are served and `spool_destroy` returns |
| `Server` | 2 descriptors, 2 sessions, with and without workers, callbacks, sends and lookups may fail | 417,714 | no freed session is used; hash, pool and heap agree; unless callbacks fail, descriptors have one owner, are not closed under a worker, are used as `Connections` says and closed ones are released; data is received unless a lookup missed its session; the server ends |
| `Hash` | 3 entries, 4 descriptors that may be shared, 2 buckets that become 4, 8 and 16, one reader | 571,110 | the table is sound after every operation; a lookup without a lock ends, and misses its session only while an expansion is under way |
| `TcpServer` | 4 descriptors, 2 clients, 2 addresses; linux, bsd and win32 with fewer events or less room than descriptors; linux and win32 also with failing callbacks | 573,460 | nothing is left open; news are reported; unless callbacks fail, registrations, sessions and descriptors agree, events are about whom they seem, nothing of another thread is closed but where section 5 says so, and `Connections` is implemented |
| `Data` | 5 units, room for 2; level triggered with any burst, edge triggered with what one `recv` takes; half-closing client. Beside it 7 bytes over a 2-byte alphabet, chunks of up to 3, separators CR LF and LF LF | 34,522 | all input is received while the client stays open; no answer twice or out of order, none lost but to a partial send; lines do not depend on chunks |
| `TcpClient` | 2 addresses, a buffer of 3, 4 bytes, a second of 2 ms, timeouts 0 and 1 | 167,020 | one socket or none; a reply in one part is delivered; no early timeout; the loop returns |
| `Watchdog` | 2 services, 3 pids, 2 attempts, 2 seconds, starts may fail, both platforms | 725,217 | children are owned, signalled, and restarts are limited; services are restarted, unless they ended as non-recoverable; finalize returns, with and without waiting |
| `Future` | 2 futures, 2 thread ids, creation may fail, both platforms | 110,964 | an await tells the outcome unless another future's destruction took its thread; nothing outlives its future |

Runs that TLC must refute show where code and documents disagree (`findings`):

| Run | What happens |
|---|---|
| `ServerRelease` | a failing `on_recv` closes the descriptor only; the session is never released (HACKING.md:22) |
| `DataEdgeBurst` | a burst above 16 KB is not read to its end on Linux (HACKING.md:29-30) |
| `WatchdogNonRecoverable` | a service that exited as non-recoverable is started again once ten seconds have passed since its last start (HACKING.md:6-8) |
| `TcpClientParts` | the second part of a reply is not where the caller looks for it (tests/tcp.cc:78-79) |

**Why the bounds are enough.** Two workers are the smallest pool in which sessions
of another worker can be confused with one's own and in which `spool_destroy` has
a joined and an unjoined thread; three sessions let one be ready, one be on a
list and one be attached. In `Server` two descriptors and two addresses let one be reused
while the other is in use; a server that has used up its addresses ends as one whose
allocation failed does. After a failing callback two sessions may have one number, in
`Server` and in `TcpServer` not more. In
`Hash`, two initial buckets with a threshold of two (32 and 10 in the code) let three
entries of which three share a bucket of two, and two one of four, expand the table
more than once, with an expansion that does not help (`ineff_expands`); entries that share
a descriptor expand it up to `MaxBuckets` (8) and once more. In
`TcpServer`, listener and two connections are more than the two events of a batch
and more than the two entries of the smaller win32 array; the fourth descriptor is
the poller's or another thread's. Five units are two `recv`s and a remainder. A
buffer of three bytes is filled in one, two or three parts, and a clock of three
seconds passes the end of a second twice. Two attempts within two seconds already
have all orders of start, death, give-up, reset; the third pid lets the pid of one
service come back while both are up. Seven bytes hold three separators with text
between them. `MAX_EVENTS` (64) is above any number of events in `Server` and
`DataPath`, where `poller_wait` reports all that is ready; full batches are
`TcpServer`'s. What the proofs cover does not depend on these bounds.

**Fairness.** Threads that can go on do (weak fairness of the main thread and of
each worker): the scheduler of the operating system runs every runnable thread.
A thread that waits for a mutex that is free again and again gets it in the end
(strong fairness): in `SessionPool` the main thread, whose mutexes a worker that
wakes up for no reason takes as often as it likes; in `Server` and `DataPath` the
pool's start of a session, and in `DataPath` the main thread's flush. POSIX does not
promise this, but the futexes and schedulers in use give it; without it a busy
client could starve another for ever. In `SessionHash` a worker inside the macro goes
on; in `TcpClient` the loop spins; in `TcpServer` the main thread goes on with its events
and its poll, and nothing else is fair. In
`Watchdog` the caller goes on calling `watchdog_step`, time passes, and starts do not
fail for ever. Clients and children owe nothing, except that the client of `DataPath`
reads what it is sent. Deadlock is checked in every run; the steps that stutter
(`Ended`, `AtRest`, `Exited`, the freed watchdog) are where the program has stopped
or rests in `poller_wait`.

## 4. The proofs

Each proof module assumes only the named assumptions on the constants of its modules
and proves `InvHolds` (in `SessionHashProofs` `HashInvHolds`; `TcpServerProofs` has
`RegistryInvHolds` besides, `DataPathProofs` `BufferInvHolds`): that the invariant holds
initially and is kept by every action. The other theorems follow from it. Every
invariant was checked with TLC before it was proved.

`SessionPoolProofs`, any number of workers and any finite set of sessions:

- The wakeup properties are not inductive alone: that a flushed session's worker
  will collect it depends on who owns which mutex, on the attached sessions, and on
  how far the main thread is in its call. `Inv` adds exactly that: a mutex is owned
  by the thread whose program counter says so, `cur` is attached during a flush or
  removal, nothing is attached once `spool_destroy` has begun, and its loops have
  passed the threads below their index.
- `TypeCorrect`, `WakeupsAreKept`, `SleepersAreWoken`, `WorkExcludes`, `DestroyIsClean`
  follow from it.
- `PoolImplementsTaskPool`: with `held` the attached sessions, `pending` those ready
  or on a worker's list and `running` those being processed, each step is a step of
  `TaskPool` or leaves it alone. That a spool call meets no running session is
  `WorkIsExclusive` together with the free pool mutex. This is what allows `Server`
  to use `TaskPool` in place of the pool.
- `BalanceIsKept`: attaching never takes the loads of two workers further apart
  than they were or than one session. It rests on `AddLoad` (what one more
  session does to a cardinality).

`ServerProofs`, any descriptors, sessions and configurations:

- The properties speak of the points between two events. `HashIsMatched` and
  `PoolIsMatched` say for every point inside a handler which of hash, pool and heap
  already have `cur` or have it no more; `SocketsAreOwned` extends the ownership of
  descriptors to the session that is `Arriving`; `EventsAreTrue` keeps a reported
  connection in the backlog. `StepMatched` and `StepSockets` go through the actions.
- `PoolUsesLive` (what the pool holds and a worker processes was not freed; of the hash,
  whose entry outlives its session between server.c:113 and 116, it says nothing),
  `HashIsPool`, `SocketsHaveOwners` and, for steps, `RunningKeepsSocket`. The last two speak
  of servers whose callbacks do not fail, `HashIsPool` of all but for the end.
- `PoolIsCalledRightly` says that the preconditions of `TaskPool`, which are guards in
  `Server`, hold wherever the code makes the call, so that the guards hide nothing. That the
  pool of `Server` changes by steps of `TaskPool` only is so by its definition, as its actions
  are `Pool!`'s; `PoolImplementsTaskPool` says that the real pool does too.
- `ServesConnections`: unless a callback fails, each step is a step of `Connections` or
  leaves it alone. What is not seen at once is that a connection is released for a reason:
  the `PT_DISCONNECTED` that led to it waited in `events` while others were handled.
  `ReportsAreTrue` says that who is reported as gone has gone and stays so until its own
  event is handled.
- The lowest free descriptor exists by induction on the
  naturals (`MinIsMember`, from the library's least-element theorem).

`TcpServerProofs`, any descriptors, clients and numbers of addresses, on all platforms:

- `DescriptorsAgree` says for each place of the main thread which descriptors the
  server has and which `listener` names; `SetupAgrees` does it for the addresses and
  the WSAStartup. They hold whatever fails: every open connection has a session, and no
  session has the number of the listener or the poller. A session may have a number that
  is free, or another thread's, only after a callback has failed (`SessionsAgree`).
- `EverythingIsClosed`: nothing is left open, whatever fails. `ClosesNothingElse`: unless
  a callback fails, every `close` is of a descriptor the server has, except in the two
  places the property names. Neither needs to know anything about the poller.
- `KernelAgrees` has the types of the poller, its queue and the batch, whatever callbacks
  do, and bounds the batch (`ScanFits`, `TakenFits`, `BatchFits`, `RestFits`).
- `RegistryInv` holds as long as no callback fails, and adds what the poller has.
  `PollerAgrees`: `poll_fds` has the listener first, then the sessions, and nothing
  twice; the kernel's queue has only what is registered.
  `EventsAgree`: what is left of a batch is about the listener and sessions, and only
  the listener's event is a new connection. With epoll and kqueue no descriptor has two
  events in a batch, so that a connection accepted in its middle under a number just
  freed meets no older event. WSAPoll may report a connection twice, but the listener
  is the first of `poll_fds`, so that its event comes before any `close`.
- `RegistryIsTrue` and `NoEventIsStale` follow, and name what is so only unless a callback
  fails. They rest on what the filtered arrays
  contain and in which order: `AmongProperties`, `ScanProperties`, `BatchProperties`,
  `RestProperties`, `Removes`.
- `ServesConnections`: unless a callback fails, the descriptors implement `Connections`. `EventsAgree` also says that
  who is reported as gone has gone, if it still has a session; that the number was not
  given to a client that is there is `NoEventIsStale`'s argument again. `OpenIsServed`
  comes from `DescriptorsAgree`; `SameConnections` covers the steps that touch no
  connection, as the whole set-up and every other thread.

`SessionHashProofs`, any finite set of entries, any set of descriptors, any number of
initial buckets and any threshold:

- The links are described by the sequence one finds along them. On a *line* every entry
  leads to the next one and the last to nothing; on a *chain* the links back agree.
  `ListAgrees`: the entries of the table are a chain. `BucketsAgree`: each bucket is a
  chain of exactly its entries and has their count; during an expansion the buckets of
  the old array are lines of what is left (`Unmoved`) and those of the new one chains of
  what was moved. Each operation puts an entry at an end of a chain or takes one out,
  which is proved once for both pairs of links.
- The reader: as long as no expansion began, the session it looks for is on the line in
  front of the entry in hand (`Ahead`), even if that one was taken out meanwhile and is
  not yet freed. `MissesOnlyInExpansion` follows. It speaks of misses only: that the
  lookup may meet freed memory is the code's, and ends it in `freed`.
- `TableStaysSound`, also where entries share a key: the recursive walks of `Fsck` and `Find`, evaluated along a chain
  (`AlongLine`), give its sequence.

`DataPathProofs`, any sizes and numbers of units, and for `CommBuf` any bytes,
separators and lengths:

- Two lemmas about sequences carry it: appending the next units keeps an ascending
  sequence of exactly the units received (`Extended`), and a prefix of it misses
  exactly what was cut (`CutOff`), as units do not repeat. `OneAnswerEach` follows.
- In `CommBuf`, `LinesAreInput` is inductive with the types of the buffers and a bound
  on the lines: the lines one after the other and what is still in the buffer are the
  input (`FlattensNext`), and as the search takes the smallest match, what it cuts off
  has the separator at its end and nowhere before (`FirstLine`). `BufferIsTyped` and
  `LinesAreCut` follow.

`TcpClientProofs`, any buffer, timeouts, length of a second and number of addresses:

- `PartsAreWritten` says that pointer and position are equal, so that every part is
  written at twice its place, and only the first at its own. `ElapsedIsNotMore`:
  the code's elapsed time is never more than the true one (`DivMod`).
- `OneSocket`, `ReplyIsThere` (for a reply in one part) and `NeverEarly`.

`WatchdogProofs`, any number of services, positive limits and any set of pids:

- `RestartsAreLimited` speaks of the start that was MAX_ATTEMPTS starts ago and is
  not inductive: `StartsAreCounted` adds that only as many starts are younger than
  the limit as `recent_attempts` counts, and that no start is younger than the last
  attempt, so that forgiving is safe (`StepStarts`). For the processes,
  `SignalsSoFar` says how far the killing loop has come; every child is some
  task's, in every loop (`StepProcesses`).
- `TypeCorrect`, `RestartsLimited`, `ChildrenAreKnown` and `FinalizeIsClean`.

`FutureProofs`, any futures, thread ids, results and errors, on both platforms:

- `ThreadsAgree`: a thread that was not joined belongs to a future that still waits
  for it, and what it has told agrees with how far it is. `FuturesAgree`: a future
  that was not awaited and not robbed has its thread.
- `AwaitIsTrue` and `NoUseAfterDestroy`.

What a recursive function computes is proved by induction over sets (`Induction`, from
the well-foundedness of < on the naturals), as the induction theorems of the library
take operators.

Every safety invariant and every action property that a run checks is also a theorem.
Only model-checked are the liveness properties (`FlushIsServed`, `ShutdownCompletes`,
`ConnectionIsReleased`, `DataIsReceived`, `ServerEnds`, `InputIsReceived`, `LookupEnds`,
`ReadyIsReported`, `SpinReturns`, `ServiceIsRestarted`, `FinalizeReturns`), as reasoning
under fairness needs ENABLED, which is beyond the prover; and that the values of
`HashJen` are those of the macro, which TLC evaluates.

## 5. What a reader of the code would not expect

The modules take these steps of the code. Four contradict a document or a test, and are the
findings of section 3: what a failing callback leaves behind, a burst of more than one
`recv`, the restart of a non-recoverable service and a reply in parts. Of the others, a
property names the exception, or none speaks of it.

- A callback that fails closes the socket of its session and leaves session, hash and
  poller as they are (server.c:53). When the number is given out again two sessions share
  it, an event is taken for another connection's, a second close may hit another
  thread's descriptor, and `poller_remove_connection` may meet a number it does not know
  and end the process. Every property that says "unless a callback fails" is about this.
- A lookup during the expansion of the table misses a session that is there
  (`MissedOnlyInExpansion`, server.c:31), and then its data stays unread until the client
  sends again (`DataIsReceived`). Additions and deletions do not hide it. It may also
  read memory that was freed: a freed entry or a freed array of buckets, where
  `SessionHash` stops (`freed`). `NoUseAfterFree` is about sessions.
- A partial `send` loses the rest of the buffer (`cut` in `SentOnceInOrder`,
  server.c:60-65); what a full socket refused waits until the client sends again
  (`SendFails` and `RecvFails`, server.c:43-46 and 61); data sent just before a
  half-close is dropped (`PollDisconnected`, os/linux/poller.c:72).
- Where no address can be bound the listener is closed twice (tcp_server.c:79, 89),
  and on Windows `poller_destroy` closes it after the server did: both may hit
  another thread's descriptor (`ClosesItsOwn`). Addresses leak where `socket` or
  `setsockopt` fails, and WSAStartup is not taken back (`NothingIsLeftOpen`).
- With all descriptors of WSAPoll ready, one event too many is written
  (`EventsAreFresh`, win32/poller.c:73). On bsd `accept` may wait for a client that
  has gone (`Hangs`).
- A client's reply in two parts goes to the wrong place, and may go behind its
  buffer (`ReplyIsWhole`, tcpclient.c:169-186); a timeout may be a thousand times
  too late (195-199); an empty nonblocking receive frees what is not a block
  (`RecvNonblock`, 152).
- create, await, destroy of a future joins a thread id a second time and may take
  another future's thread (`robbed`, future.c:57); a future without a thread aborts
  when it is awaited (future.c:52 and 93).
- A reset client ends the process (`SendKills`); a non-recoverable service is started
  again after ten seconds (`NonRecoverableStaysDown`, watchdog.c:92); on Windows
  one that ends with 259 counts as running (win32/os.c:117); an empty text added to
  a cleared send buffer ends the process (`ReallocFails`, commbuf.c:41).

## 6. Not modelled

- Vendored code the program does not use: `utlist.h`, `utstring.h`, `utarray.h`, and of
  `uthash.h` everything but the macros behind `HASH_FIND_INT`, `HASH_ADD_INT`, `HASH_DEL`
  and `HASH_ITER`. There is no call from which a model could be written.
- `tmp/ssl/ssl_server.c` and `tmp/tests`, which are not built and use an interface the
  server does not have any more.
- The window, logs, error texts and `main.c`: output without state. The argument
  vector of a service, sleeping, and the subtraction of two timers.
- Of the Windows layer the job object, which kills the children after the parent
  (`g_job`), the console handler, and the mutexes and condition variables of
  `os/win32/pthread.c`, which are the operating system's own.
- Plain memory: leaks of blocks (for instance the receive buffer at server.c:43-46),
  allocation failure except where it ends the process.
- Failures of system calls that end the process or cannot happen on the descriptor at
  hand: `fcntl(F_GETFL)` on a fresh one (tcp_server.c:131-134), `epoll_wait` and `kevent`
  other than EINTR. An interrupted `epoll_wait` is an empty batch; a failing WSAPoll
  returns none either.
- Words of memory that a reader sees half written or out of order, clock changes
  (`time()` is taken to go forward), host names and addresses beyond their number.

## 7. Plan

Done: the pool and its promise; the server over it; the data path; buffer, watchdog
and future on both platforms; the session hash; the pollers with the TCP server;
the client; the proofs above.

Next:

1. Lemmas about `HashJen`: every word stays within its 32 bits. The prover knows no laws
   of 2^n for a variable n, so that each shift would have to be shown by itself.
