------------------------------- MODULE Server -------------------------------
(***************************************************************************)
(* The event loop of src/server/server.c at work: the main thread polls,   *)
(* accepts, flushes, disconnects and finally tears the server down, while  *)
(* server_process_session runs on a worker of the session pool (or on the  *)
(* main thread itself when the server is SINGLE_THREADED).                 *)
(*                                                                         *)
(* The module is about the life of connections: descriptors and Session    *)
(* addresses, which the kernel and the allocator hand out again, the       *)
(* session_hash, and the pool, which is TaskPool (what SessionPool is      *)
(* proved to implement). Data is one bit per socket: DataPath counts it.   *)
(***************************************************************************)
EXTENDS Naturals, FiniteSets, FiniteSetsExt

CONSTANTS
  Fds,           \* the descriptors connections may get
  Sessions,      \* the addresses a Session may have
  MaxBacklog,    \* bound on the connections waiting to be accepted
  Configs,       \* the configurations a server is started with
  Resets         \* may a client that has closed answer with a reset?

ASSUME ServerAssumption ==
  /\ Fds \subseteq Nat /\ IsFiniteSet(Fds) /\ Fds # {}
  /\ MaxBacklog \in Nat
  /\ Configs \subseteq [threaded : BOOLEAN, on_recv_fails : BOOLEAN]
  /\ Resets \in BOOLEAN

VARIABLES
  config,         \* n_threads is not SINGLE_THREADED; on_recv may fail
  held, pending, running,  \* the session pool, see TaskPool
  sock,           \* the kernel's view of every connection
  unread,         \* the descriptors with data to receive
  ready_list,     \* the descriptors with an edge epoll has not reported yet
  backlog,        \* connections made and not accepted
  termination_requested,
  live,           \* the allocated sessions
  fd,             \* session->fd
  session_hash,   \* the sessions with an entry, under the key fd
  events,         \* what is left of the events of this iteration
  mpc,            \* where the main thread is
  cur,            \* the session it adds or removes
  left,           \* the entries that the loop of server_finalize left behind
  wpc             \* where server_process_session is, if it runs

poolVars == <<held, pending, running>>
netVars  == <<sock, unread, ready_list, backlog, termination_requested>>
mainVars == <<live, fd, session_hash, events, mpc, cur, left>>
vars == <<config, poolVars, netVars, mainVars, wpc>>

Threaded == config.threaded

Pool == INSTANCE TaskPool

Init ==
  /\ config \in Configs
  /\ Pool!Init
  /\ sock = [f \in Fds |-> "closed"]
  /\ unread = {}
  /\ ready_list = {}
  /\ backlog = 0
  /\ termination_requested = FALSE
  /\ live = {}
  /\ fd = [s \in Sessions |-> Min(Fds)]
  /\ session_hash = {}
  /\ events = {}
  /\ mpc = "poll"
  /\ cur \in Sessions
  /\ left = {}
  /\ wpc = "none"

\* Mutant of Find: the lookup compares wrongly.
FindOther(f) == {s \in session_hash : fd[s] # f}

\* HASH_FIND_INT: with two entries under a key it finds one of them.
Find(f) == {s \in session_hash : fd[s] = f}

-----------------------------------------------------------------------------
(* The clients and the operator *)

Connect ==
  /\ backlog < MaxBacklog
  /\ backlog' = backlog + 1
  /\ UNCHANGED <<poolVars, mainVars, wpc, sock, unread, ready_list,
                 termination_requested>>

ClientSends(f) ==
  /\ sock[f] = "open"
  /\ unread' = unread \cup {f}
  /\ ready_list' = ready_list \cup {f}
  /\ UNCHANGED <<poolVars, mainVars, wpc, sock, backlog,
                 termination_requested>>

ClientCloses(f) ==
  /\ sock[f] = "open"
  /\ sock' = [sock EXCEPT ![f] = "hup"]
  /\ ready_list' = ready_list \cup {f}
  /\ UNCHANGED <<poolVars, mainVars, wpc, unread, backlog,
                 termination_requested>>

\* The handler of SIGINT and SIGTERM.
HandleSigint ==
  /\ ~termination_requested
  /\ termination_requested' = TRUE
  /\ UNCHANGED <<poolVars, mainVars, wpc, sock, unread, ready_list, backlog>>

-----------------------------------------------------------------------------
(* The main thread: server_iterate *)

NewConnection   == [type |-> "PT_NEW_CONNECTION"]
NewData(f)      == [type |-> "PT_NEW_DATA", fd |-> f]
Disconnected(f) == [type |-> "PT_DISCONNECTED", fd |-> f]

\* Mutant of ClosedPeers: EPOLLRDHUP, EPOLLHUP and EPOLLERR are not asked for.
NoClosedPeers == {}

\* Mutant of ClosedPeers: whatever epoll reports counts as closed.
ReadyPeers == ready_list

\* The descriptors epoll reports with EPOLLRDHUP, EPOLLHUP or EPOLLERR.
ClosedPeers == {f \in ready_list : sock[f] = "hup"}

\* Mutant of KeepsRunning: server_run does not look at termination_requested.
KeepsRunningForEver == TRUE

KeepsRunning == ~termination_requested

Acceptable == IF backlog > 0 THEN {NewConnection} ELSE {}

\* poller_wait: every ready descriptor is reported once, the listener as long
\* as a connection waits; a closed peer hides the data that came before.
PollerWait ==
  /\ mpc = "poll"
  /\ KeepsRunning
  /\ events' = {Disconnected(f) : f \in ClosedPeers}
        \cup {NewData(f) : f \in {g \in ready_list : sock[g] = "open"}}
        \cup Acceptable
  /\ ready_list' = {}
  /\ mpc' = "dispatch"
  /\ UNCHANGED <<poolVars, wpc, sock, unread, backlog, termination_requested,
                 live, fd, session_hash, cur, left>>

IterationDone ==
  /\ mpc = "dispatch"
  /\ events = {}
  /\ mpc' = "poll"
  /\ UNCHANGED <<poolVars, netVars, wpc, live, fd, session_hash, events, cur, left>>

\* handle_new_connection up to HASH_ADD. The kernel gives the lowest free
\* descriptor; the client may already have sent data or gone.
AcceptConnection(s) ==
  /\ mpc = "dispatch"
  /\ NewConnection \in events
  /\ s \in Sessions \ live
  /\ LET free == {g \in Fds : sock[g] = "closed"}
         f    == Min(free)
     IN  /\ free # {}
         /\ \E state \in {"open", "hup"}, data \in SUBSET {f} :
              /\ sock' = [sock EXCEPT ![f] = state]
              /\ unread' = unread \cup data
              /\ ready_list' = IF state = "hup" \/ data # {}
                               THEN ready_list \cup {f} ELSE ready_list
         /\ fd' = [fd EXCEPT ![s] = f]
  /\ backlog' = backlog - 1
  /\ live' = live \cup {s}
  /\ cur' = s
  /\ events' = events \ {NewConnection}
  /\ mpc' = "hash_add"
  /\ UNCHANGED <<poolVars, wpc, termination_requested, session_hash, left>>

\* accept fails when no descriptor is left; the connection keeps waiting.
AcceptFails ==
  /\ mpc = "dispatch"
  /\ NewConnection \in events
  /\ \A f \in Fds : sock[f] # "closed"
  /\ events' = events \ {NewConnection}
  /\ UNCHANGED <<poolVars, netVars, wpc, live, fd, session_hash, mpc, cur, left>>

\* MALLOC exits the process when no address is left for a session.
AllocationFails ==
  /\ mpc = "dispatch"
  /\ NewConnection \in events
  /\ \E f \in Fds : sock[f] = "closed"
  /\ live = Sessions
  /\ mpc' = "exited"
  /\ UNCHANGED <<poolVars, netVars, wpc, live, fd, session_hash, events, cur, left>>

\* The end of HASH_ADD_INT.
HashAdded ==
  /\ mpc = "hash_add"
  /\ session_hash' = session_hash \cup {cur}
  /\ mpc' = "pool_add"
  /\ UNCHANGED <<poolVars, netVars, wpc, live, fd, events, cur, left>>

PoolAdd ==
  /\ mpc = "pool_add"
  /\ IF Threaded THEN Pool!Add(cur) ELSE UNCHANGED poolVars
  /\ mpc' = "dispatch"
  /\ UNCHANGED <<netVars, wpc, live, fd, session_hash, events, cur, left>>

\* handle_new_data. With no threads the flush processes the session on the
\* spot, and the main thread goes on when that returns.
HandleNewData(f) ==
  /\ mpc = "dispatch"
  /\ NewData(f) \in events
  /\ events' = events \ {NewData(f)}
  /\ \/ /\ Find(f) = {}
        /\ UNCHANGED <<poolVars, mpc, wpc>>
     \/ /\ Threaded
        /\ \E s \in Find(f) : Pool!Flush(s)
        /\ UNCHANGED <<mpc, wpc>>
     \/ /\ ~Threaded
        /\ \E s \in Find(f) : running' = {s}
        /\ mpc' = "inline"
        /\ wpc' = "lookup"
        /\ UNCHANGED <<held, pending>>
  /\ UNCHANGED <<netVars, live, fd, session_hash, cur, left>>

-----------------------------------------------------------------------------
(* The main thread: handle_disconnect and server_finalize *)

\* Mutant of Disconnect: the session is freed without leaving the pool.
DisconnectUnpooled(f) ==
  IF Find(f) = {}
    THEN UNCHANGED <<mpc, cur>>
    ELSE /\ cur' \in Find(f)
         /\ mpc' = "free"

Disconnect(f) ==
  IF Find(f) = {}
    THEN UNCHANGED <<mpc, cur>>
    ELSE /\ cur' \in Find(f)
         /\ mpc' = "pool_remove"

HandleDisconnect(f) ==
  /\ mpc = "dispatch"
  /\ Disconnected(f) \in events
  /\ events' = events \ {Disconnected(f)}
  /\ Disconnect(f)
  /\ UNCHANGED <<poolVars, netVars, wpc, live, fd, session_hash, left>>

PoolRemove ==
  /\ mpc = "pool_remove"
  /\ IF Threaded THEN Pool!Remove(cur) ELSE UNCHANGED poolVars
  /\ mpc' = "free"
  /\ UNCHANGED <<netVars, wpc, live, fd, session_hash, events, cur, left>>

\* session_finalize and free.
FreeSession ==
  /\ mpc = "free"
  /\ live' = live \ {cur}
  /\ mpc' = "close"
  /\ UNCHANGED <<poolVars, netVars, wpc, fd, session_hash, events, cur, left>>

CloseSocket(f) ==
  /\ sock' = [sock EXCEPT ![f] = "closed"]
  /\ unread' = unread \ {f}
  /\ ready_list' = ready_list \ {f}

\* Mutant of HashDel: the entry stays in the hash.
HashDelForgets == session_hash

HashDel == session_hash \ {cur}

\* HASH_DEL, poller_remove_connection and server_close_socket.
\* FATAL_NON_RECOVERABLE when the descriptor is not in the poller.
CloseConnection ==
  /\ mpc = "close"
  /\ session_hash' = HashDel
  /\ IF sock[fd[cur]] = "closed"
       THEN /\ mpc' = "exited"
            /\ UNCHANGED <<sock, unread, ready_list>>
       ELSE /\ mpc' = "dispatch"
            /\ CloseSocket(fd[cur])
  /\ UNCHANGED <<poolVars, wpc, backlog, termination_requested, live, fd,
                 events, cur, left>>

\* HASH_ITER of server_finalize, for the next entry s. handle_disconnect looks
\* the descriptor up: of two entries with one number it may take the other one,
\* and s is left behind. There are no events, so that the way back to the loop is
\* through the end of an empty iteration.
FinalizeConnection ==
  /\ mpc = "poll"
  /\ ~KeepsRunning
  /\ \E s \in session_hash \ left :
       /\ Disconnect(fd[s])
       /\ left' = (left \cup {s}) \ {cur'}
  /\ UNCHANGED <<poolVars, netVars, wpc, live, fd, session_hash, events>>

\* The other one was the next entry, which HASH_ITER has saved: it is freed, and
\* its number, if it can still be read, is no more in the poller.
FinalizeReadsFreed ==
  /\ mpc = "poll"
  /\ ~KeepsRunning
  /\ \E s \in session_hash \ left : ~(Find(fd[s]) \subseteq left \cup {s})
  /\ mpc' = "exited"
  /\ UNCHANGED <<poolVars, netVars, wpc, live, fd, session_hash, events, cur, left>>

AllFinalized == session_hash \subseteq left

\* The rest of it: the listener is closed and the pool joins its workers.
FinalizeServer ==
  /\ mpc = "poll"
  /\ ~KeepsRunning
  /\ AllFinalized
  /\ running = {}
  /\ backlog' = 0
  /\ mpc' = "ended"
  /\ UNCHANGED <<poolVars, wpc, sock, unread, ready_list,
                 termination_requested, live, fd, session_hash, events, cur, left>>

-----------------------------------------------------------------------------
(* server_process_session, on a worker or inline *)

StartSession(s) ==
  /\ Threaded
  /\ Pool!Start(s)
  /\ wpc' = "lookup"
  /\ UNCHANGED <<netVars, mainVars>>

Return ==
  /\ Pool!Finish
  /\ wpc' = "none"
  /\ mpc' = IF Threaded THEN mpc ELSE "dispatch"
  /\ UNCHANGED <<live, fd, session_hash, events, cur, left>>

\* HASH_ADD_INT, which may expand the table, and HASH_DEL, free.
TableChanges == mpc \in {"hash_add", "close"}

\* server_is_session_active, which takes no lock. SessionHash shows what a lookup
\* meets while the table changes: it may miss a session that is there, or read
\* what was freed, with any outcome.
LookupFinds(s) ==
  /\ wpc = "lookup"
  /\ Find(fd[s]) # {}
  /\ wpc' = "recv"
  /\ UNCHANGED <<poolVars, netVars, mainVars>>

LookupMisses(s) ==
  /\ wpc = "lookup"
  /\ Find(fd[s]) = {} \/ TableChanges
  /\ wpc' = "missed"
  /\ UNCHANGED <<poolVars, netVars, mainVars>>

LookupReadsFreed(s) ==
  /\ wpc = "lookup"
  /\ TableChanges
  /\ mpc' = "exited"
  /\ UNCHANGED <<poolVars, netVars, wpc, live, fd, session_hash, events, cur, left>>

NotActive(s) ==
  /\ wpc = "missed"
  /\ Return
  /\ UNCHANGED netVars

\* r > 0, r = 0 and r < 0.
RecvData(s) ==
  /\ wpc = "recv"
  /\ fd[s] \in unread
  /\ unread' = unread \ {fd[s]}
  /\ wpc' = "on_recv"
  /\ UNCHANGED <<poolVars, mainVars, sock, ready_list, backlog,
                 termination_requested>>

RecvEnd(s) ==
  /\ wpc = "recv"
  /\ fd[s] \notin unread
  /\ sock[fd[s]] = "hup"
  /\ wpc' = "send"
  /\ UNCHANGED <<poolVars, netVars, mainVars>>

RecvFails(s) ==
  /\ wpc = "recv"
  /\ fd[s] \notin unread
  /\ sock[fd[s]] # "hup"
  /\ Return
  /\ UNCHANGED netVars

OnRecv(s) ==
  /\ wpc = "on_recv"
  /\ wpc' = "send"
  /\ UNCHANGED <<poolVars, netVars, mainVars>>

OnRecvFails(s) ==
  /\ config.on_recv_fails
  /\ wpc = "on_recv"
  /\ CloseSocket(fd[s])
  /\ wpc' = "send"
  /\ UNCHANGED <<poolVars, mainVars, backlog, termination_requested>>

Send(s) ==
  /\ wpc = "send"
  /\ Return
  /\ UNCHANGED netVars

\* A send after the reset of an earlier one raises SIGPIPE, which nothing
\* ignores or handles.
SendKills(s) ==
  /\ Resets
  /\ wpc = "send"
  /\ sock[fd[s]] = "hup"
  /\ mpc' = "exited"
  /\ UNCHANGED <<poolVars, netVars, wpc, live, fd, session_hash, events, cur, left>>

-----------------------------------------------------------------------------
Environment ==
  \/ Connect \/ HandleSigint
  \/ \E f \in Fds : ClientSends(f) \/ ClientCloses(f)

MainThread ==
  \/ PollerWait \/ IterationDone \/ AcceptFails \/ AllocationFails
  \/ HashAdded \/ PoolAdd
  \/ PoolRemove \/ FreeSession \/ CloseConnection
  \/ FinalizeConnection \/ FinalizeReadsFreed \/ FinalizeServer
  \/ \E s \in Sessions : AcceptConnection(s)
  \/ \E f \in Fds : HandleNewData(f) \/ HandleDisconnect(f)

ProcessSession ==
  \E s \in running :
    \/ LookupFinds(s) \/ LookupMisses(s) \/ LookupReadsFreed(s) \/ NotActive(s)
    \/ RecvData(s) \/ RecvEnd(s) \/ RecvFails(s)
    \/ OnRecv(s) \/ OnRecvFails(s) \/ Send(s) \/ SendKills(s)

Ended == mpc \in {"ended", "exited"}

Next ==
  \/ /\ ~Ended
     /\ UNCHANGED config
     /\ \/ Environment
        \/ MainThread
        \/ \E s \in Sessions : StartSession(s)
        \/ ProcessSession
  \/ Ended /\ UNCHANGED vars

Spec == Init /\ [][Next]_vars

\* The main thread and a running session go on when they can, and the pool
\* runs what is pending: a worker collects all its ready sessions at once
\* (SessionPool), and is taken not to lose the pool mutex for ever.
Fairness ==
  /\ WF_vars(~Ended /\ MainThread /\ UNCHANGED config)
  /\ WF_vars(~Ended /\ ProcessSession /\ UNCHANGED config)
  /\ \A s \in Sessions :
       SF_vars(~Ended /\ StartSession(s) /\ UNCHANGED config)

FairSpec == Spec /\ Fairness

-----------------------------------------------------------------------------
(* Properties *)

TypeOK ==
  /\ config \in Configs
  /\ Pool!TypeOK \/ ~Threaded
  /\ running \in SUBSET Sessions
  /\ sock \in [Fds -> {"closed", "open", "hup"}]
  /\ unread \in SUBSET Fds
  /\ ready_list \in SUBSET Fds
  /\ backlog \in 0 .. MaxBacklog
  /\ termination_requested \in BOOLEAN
  /\ live \in SUBSET Sessions
  /\ fd \in [Sessions -> Fds]
  /\ session_hash \in SUBSET Sessions
  /\ events \subseteq {NewConnection} \cup UNION {{NewData(f), Disconnected(f)} : f \in Fds}
  /\ mpc \in {"poll", "dispatch", "hash_add", "pool_add", "inline",
              "pool_remove", "free", "close", "ended", "exited"}
  /\ cur \in Sessions
  /\ left \in SUBSET Sessions
  /\ wpc \in {"none", "lookup", "missed", "recv", "on_recv", "send"}

\* The pool never holds, runs or keeps pending a session that was freed:
\* handle_disconnect takes it out of the pool first (lines 109-113).
NoUseAfterFree == held \cup pending \cup running \subseteq live

\* Between two events the session hash, the pool and the allocated sessions
\* are the same sessions: none is leaked and none is left half removed. When the
\* server has ended there are none, unless a callback fails: then HASH_ITER may
\* leave one of two sessions with one number behind (lines 167-173).
HashMatchesPool ==
  /\ mpc \in {"poll", "dispatch", "ended"} =>
       /\ session_hash = live
       /\ Threaded => held = live
  /\ mpc = "ended" /\ ~config.on_recv_fails => live = {}

\* Unless a callback fails, every session owns its socket: no other session has
\* the descriptor, and it is not closed as long as the session is in the hash
\* (lines 87 and 116-123). And whatever fails, between two events every open
\* connection has a session, so that no descriptor is forgotten.
SessionOwnsSocket ==
  /\ ~config.on_recv_fails => \A s \in session_hash :
       /\ sock[fd[s]] # "closed"
       /\ \A r \in session_hash : fd[r] = fd[s] => r = s
  /\ mpc \in {"poll", "dispatch", "ended"} => \A f \in Fds :
       sock[f] # "closed" => \E s \in session_hash : fd[s] = f

\* Unless a callback fails, a socket that a running session uses is never closed.
CloseIsExclusive ==
  [][~config.on_recv_fails =>
       \A s \in running : sock[fd[s]] # "closed" => sock'[fd[s]] # "closed"]_vars

Conn == INSTANCE Connections WITH served <- {fd[s] : s \in session_hash}

\* Unless a callback fails, the server does with its connections what Connections
\* says: it takes no descriptor from a client that is still there, whichever of
\* the events of a batch came before (lines 81-171).
ConnectionPromise == [][~config.on_recv_fails => Conn!Next]_(Conn!vars)

\* "If the connection is closed, all data related to that connection is
\* released" (HACKING.md:22): a session whose socket is no longer open, closed
\* by the client or by the server, is freed, with the whole process at the
\* latest.
ClosedIsReleased ==
  \A s \in Sessions :
    s \in live /\ sock[fd[s]] # "open" ~> s \notin live \/ mpc = "exited"

\* The same unless a callback fails (lines 95-124).
ConnectionIsReleased ==
  \A s \in Sessions :
    ~config.on_recv_fails /\ s \in live /\ sock[fd[s]] # "open"
      ~> s \notin live \/ mpc = "exited"

\* Data that comes in, which is an edge for the poller, is received, unless the
\* connection is closed or the process ends first. The one exception is a run whose
\* lookup misses the session because the main thread changes the table meanwhile
\* (lines 31 and 87; uthash.h:833-883): it returns without a recv, and the data
\* waits for the next edge.
DataIsReceived ==
  \A f \in Fds :
    f \in unread /\ f \in ready_list
      ~> \/ f \notin unread
         \/ mpc = "exited"
         \/ wpc = "missed" /\ \E s \in running : fd[s] = f

\* A server asked to terminate does, or its process ends before.
ServerEnds == termination_requested ~> Ended
=============================================================================
