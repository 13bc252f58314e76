------------------------------ MODULE TcpServer ------------------------------
(***************************************************************************)
(* A TCPServer from tcp_server_create to tcp_server_destroy, with the      *)
(* descriptors of its process: the listener that is opened for the first   *)
(* address that can be bound, the kernel's queue of the poller, the        *)
(* accepted connections, and what other threads of the process open and    *)
(* close meanwhile. Server is about the sessions of these connections and  *)
(* DataPath about their data; here a connection has news or it has not.    *)
(***************************************************************************)
EXTENDS Poller, Integers, FiniteSets

CONSTANTS
  Fds,        \* the descriptors of the process
  Clients,
  Addresses   \* how many addresses getaddrinfo finds

ASSUME TcpServerAssumption ==
  /\ Fds \subseteq Nat /\ IsFiniteSet(Fds)
  /\ Addresses \in Nat \ {0}
  /\ Clients \cap {"free", "other", "listener", "poller"} = {}

VARIABLES
  fdt,           \* who has every descriptor of the process
  servinfo,      \* the addresses are allocated
  addr,          \* the address that is tried
  listener,
  backlog,       \* the clients whose connection waits for accept
  session_hash,  \* the descriptors with a session
  hidden,        \* those with two, since a worker closed the first one's socket
  left,          \* those that server_finalize has gone past
  events,        \* what is left of the events of this iteration
  termination_requested,
  wsa_started,   \* WSAStartup without a WSACleanup
  mpc

setupVars == <<servinfo, addr, listener, wsa_started>>
hashVars  == <<session_hash, hidden, left>>
loopVars  == <<hashVars, events>>
vars == <<config, pollerVars, kernelVars, fdt, setupVars, backlog, loopVars,
          termination_requested, mpc>>

INVALID_SOCKET == -1

Init ==
  /\ config \in Configs
  /\ fs_socket = INVALID_SOCKET /\ poll_fds = <<>> /\ queue = <<>>
  /\ readable = {} /\ hungup = {}
  /\ fdt = [f \in Fds |-> "free"]
  /\ servinfo = FALSE /\ addr = 1 /\ listener = INVALID_SOCKET
  /\ wsa_started = FALSE
  /\ backlog = {}
  /\ session_hash = {} /\ hidden = {} /\ left = {} /\ events = <<>>
  /\ termination_requested = FALSE
  /\ mpc = "initialize"

-----------------------------------------------------------------------------
(* Descriptors *)

\* A new descriptor is the lowest one that is free; on Windows it is any.
NewFds ==
  LET free == {f \in Fds : fdt[f] = "free"}
  IN  {f \in free : On("win32") \/ \A g \in free : f <= g}

\* close ends the descriptor, whoever has it by now.
Closed(f) == IF f \in Fds THEN [fdt EXCEPT ![f] = "free"] ELSE fdt

Close(f) ==
  /\ fdt' = Closed(f)
  /\ readable' = readable \ {f}
  /\ hungup' = hungup \ {f}

OtherOpens ==
  /\ \E f \in NewFds : fdt' = [fdt EXCEPT ![f] = "other"]
  /\ UNCHANGED <<config, pollerVars, kernelVars, setupVars, backlog, loopVars,
                 termination_requested, mpc>>

OtherCloses(f) ==
  /\ fdt[f] = "other"
  /\ Close(f)
  /\ UNCHANGED <<config, pollerVars, setupVars, backlog, loopVars, termination_requested, mpc>>

\* What comes for another thread's descriptor matters where a session, or the
\* array of win32, has its number.
OtherGets(f) ==
  /\ fdt[f] = "other" /\ f \in session_hash
  /\ \/ readable' = readable \cup {f} /\ UNCHANGED hungup
     \/ f \in Registered /\ hungup' = hungup \cup {f} /\ UNCHANGED readable
  /\ UNCHANGED <<config, pollerVars, fdt, setupVars, backlog, loopVars,
                 termination_requested, mpc>>

-----------------------------------------------------------------------------
(* tcp_server_get_listener *)

SetupUnchanged ==
  UNCHANGED <<config, pollerVars, backlog, loopVars, termination_requested>>

\* FATAL: the listener is closed unless it is INVALID_SOCKET.
Fatal ==
  /\ Close(listener)
  /\ mpc' = "failed"
  /\ UNCHANGED setupVars

\* socket_init.
Initialize ==
  /\ mpc = "initialize"
  /\ wsa_started' = On("win32")
  /\ mpc' = "getaddrinfo"
  /\ UNCHANGED <<kernelVars, fdt, servinfo, addr, listener>>
  /\ SetupUnchanged

GetAddrInfo ==
  /\ mpc = "getaddrinfo"
  /\ \/ Fatal
     \/ /\ servinfo' = TRUE
        /\ mpc' = "socket"
        /\ UNCHANGED <<kernelVars, fdt, addr, listener, wsa_started>>
  /\ SetupUnchanged

\* Mutant of SocketFails: the variable keeps the descriptor closed before.
SocketFailsQuietly == Fatal

SocketFails ==
  /\ listener' = INVALID_SOCKET
  /\ mpc' = "failed"
  /\ UNCHANGED <<kernelVars, fdt, servinfo, addr, wsa_started>>

OpenSocket ==
  /\ mpc = "socket" /\ addr <= Addresses
  /\ \/ SocketFails
     \/ \E f \in NewFds :
          /\ fdt' = [fdt EXCEPT ![f] = "listener"]
          /\ listener' = f
          /\ mpc' = "bind"
          /\ UNCHANGED <<kernelVars, servinfo, addr, wsa_started>>
  /\ SetupUnchanged

\* setsockopt may fail; where bind fails the next address is tried.
Bind ==
  /\ mpc = "bind"
  /\ \/ Fatal
     \/ /\ Close(listener)
        /\ addr' = addr + 1
        /\ mpc' = "socket"
        /\ UNCHANGED <<servinfo, listener, wsa_started>>
     \/ mpc' = "bound" /\ UNCHANGED <<kernelVars, fdt, setupVars>>
  /\ SetupUnchanged

FreeAddrInfo ==
  /\ \/ mpc = "bound"
     \/ mpc = "socket" /\ addr > Addresses
  /\ servinfo' = FALSE
  /\ addr' = 1
  /\ mpc' = IF addr > Addresses THEN "unbound" ELSE "listen"
  /\ UNCHANGED <<kernelVars, fdt, listener, wsa_started>>
  /\ SetupUnchanged

\* No address could be bound: the listener is closed a second time.
FailedToBind == mpc = "unbound" /\ Fatal /\ SetupUnchanged

Listen ==
  /\ mpc = "listen"
  /\ \/ Fatal
     \/ mpc' = "create" /\ UNCHANGED <<kernelVars, fdt, setupVars>>
  /\ SetupUnchanged

\* tcp_server_free of a server that was not created, with socket_finalize.
FreeServer ==
  /\ mpc = "failed"
  /\ wsa_started' = FALSE
  /\ mpc' = "freed"
  /\ UNCHANGED <<kernelVars, fdt, servinfo, addr, listener>>
  /\ SetupUnchanged

-----------------------------------------------------------------------------
(* server_initialize and server_iterate *)

\* epoll's or kqueue's own descriptor. Where there is none for it the listener
\* cannot be registered, and the program ends.
OpenPoller ==
  IF NewFds = {} THEN mpc' = "exit" /\ UNCHANGED <<fdt, pollerVars>>
  ELSE /\ \E f \in NewFds : fdt' = [fdt EXCEPT ![f] = "poller"]
       /\ mpc' = "poll"
       /\ PollerCreate(listener)

CreatePoller ==
  /\ mpc = "create"
  /\ \/ On("win32") /\ mpc' = "poll" /\ UNCHANGED fdt /\ PollerCreate(listener)
     \/ ~On("win32") /\ OpenPoller
  /\ UNCHANGED <<config, kernelVars, setupVars, backlog, loopVars, termination_requested>>

\* The events carry, for the properties, whose connection they are about.
PollerWait ==
  /\ mpc = "poll" /\ ~termination_requested
  /\ events' = LET batch == Batch
               IN  [n \in DOMAIN batch |->
                      [type |-> batch[n].type, fd |-> batch[n].fd, of |-> fdt[batch[n].fd]]]
  /\ queue' = Rest
  /\ mpc' = IF events' = <<>> THEN "poll" ELSE "dispatch"
  /\ UNCHANGED <<config, fs_socket, poll_fds, kernelVars, fdt, setupVars, backlog,
                 hashVars, termination_requested>>

Dispatch(type) ==
  /\ mpc = "dispatch"
  /\ Head(events).type = type
  /\ events' = Tail(events)
  /\ UNCHANGED <<config, setupVars, termination_requested>>

Goes(on) == mpc' = IF on THEN IF Len(events) = 1 THEN "poll" ELSE "dispatch" ELSE "exit"

\* The client may have sent data and closed before it is accepted. The listener
\* blocks: where no connection waits any more accept does not return on bsd.
HandleNewConnection ==
  /\ Dispatch("PT_NEW_CONNECTION")
  /\ \E c \in backlog, f \in NewFds, sent, gone \in BOOLEAN :
       /\ fdt' = [fdt EXCEPT ![f] = c]
       /\ backlog' = backlog \ {c}
       /\ readable' = (IF backlog = {c} THEN readable \ {fs_socket} ELSE readable)
                      \cup (IF sent THEN {f} ELSE {})
       /\ hungup' = IF gone THEN hungup \cup {f} ELSE hungup
       /\ Goes(~Full)
       /\ IF Full THEN UNCHANGED <<pollerVars, session_hash, hidden>>
          ELSE /\ AddConnection(f, sent \/ gone)
               /\ session_hash' = session_hash \cup {f}
               /\ hidden' = hidden \cup (session_hash \cap {f})
  /\ UNCHANGED left

\* accept fails for want of a descriptor, or because the client has gone.
AcceptFails ==
  /\ Dispatch("PT_NEW_CONNECTION")
  /\ \/ backlog # {} /\ NewFds = {}
     \/ backlog = {} /\ On("win32")
  /\ Goes(TRUE)
  /\ UNCHANGED <<pollerVars, kernelVars, fdt, backlog, hashVars>>

\* The flush is up to the pool.
HandleNewData ==
  /\ Dispatch("PT_NEW_DATA")
  /\ Goes(TRUE)
  /\ UNCHANGED <<pollerVars, kernelVars, fdt, backlog, hashVars>>

\* Mutant of ReleaseConnection: the descriptor is not closed.
ReleaseConnectionOpen(f) ==
  /\ session_hash' = session_hash \ {f}
  /\ UNCHANGED hidden
  /\ RemoveConnection(f)
  /\ UNCHANGED <<fdt, kernelVars>>

\* handle_disconnect of a descriptor with a session: where it has two, one of
\* them stays.
ReleaseConnection(f) ==
  /\ session_hash' = session_hash \ ({f} \ hidden)
  /\ hidden' = hidden \ {f}
  /\ RemoveConnection(f)
  /\ Close(f)

HandleDisconnect ==
  /\ Dispatch("PT_DISCONNECTED")
  /\ LET f == Head(events).fd
     IN  IF f \notin session_hash
         THEN Goes(TRUE) /\ UNCHANGED <<pollerVars, kernelVars, fdt, session_hash, hidden>>
         ELSE Goes(f \in Registered) /\ ReleaseConnection(f)
  /\ UNCHANGED <<backlog, left>>

-----------------------------------------------------------------------------
(* server_finalize *)

\* HASH_ITER is at an entry with f. Where two entries have f, the other one may
\* be found and deleted: this one is then left behind, or the loop goes on with
\* the one that was freed.
FinalizeConnection ==
  /\ mpc = "poll" /\ termination_requested
  /\ \E f \in session_hash \ left :
       /\ ReleaseConnection(f)
       /\ \/ left' = left /\ mpc' = IF f \in Registered THEN "poll" ELSE "exit"
          \/ /\ f \in hidden
             /\ left' = left \cup {f}
             /\ mpc' \in IF f \in Registered THEN {"poll", "undefined"} ELSE {"exit"}
  /\ UNCHANGED <<config, setupVars, backlog, events, termination_requested>>

CloseListener ==
  /\ mpc = "poll" /\ termination_requested
  /\ session_hash \subseteq left
  /\ Close(listener)
  /\ backlog' = {}
  /\ mpc' = "destroy"
  /\ UNCHANGED <<config, pollerVars, setupVars, loopVars, termination_requested>>

ClosePoller == \E f \in Fds : fdt[f] = "poller" /\ Close(f)

\* poller_destroy, which on win32 closes the listener.
PollerDestroy ==
  /\ mpc = "destroy"
  /\ IF On("win32") THEN Close(fs_socket) ELSE ClosePoller
  /\ mpc' = "ended"
  /\ UNCHANGED <<config, pollerVars, setupVars, backlog, loopVars, termination_requested>>

-----------------------------------------------------------------------------
(* The clients, the workers and the operator *)

Kernel(f) ==
  /\ queue' = Queued(f)
  /\ UNCHANGED <<config, fs_socket, poll_fds, fdt, setupVars, loopVars,
                 termination_requested, mpc>>

\* A client connects again only when the server knows nothing of it any more.
Connect(c) ==
  /\ mpc \in {"create", "poll", "dispatch"}
  /\ c \notin backlog
  /\ \A f \in Fds : fdt[f] # c
  /\ \A n \in DOMAIN events : events[n].of # c
  /\ backlog' = backlog \cup {c}
  /\ readable' = readable \cup {listener}
  /\ Kernel(listener)
  /\ UNCHANGED hungup

\* A connection is reset before it is accepted. Linux lets accept return it.
Abort(c) ==
  /\ ~On("linux")
  /\ c \in backlog
  /\ backlog' = backlog \ {c}
  /\ readable' = IF backlog = {c} THEN readable \ {listener} ELSE readable
  /\ UNCHANGED <<config, pollerVars, hungup, fdt, setupVars, loopVars,
                 termination_requested, mpc>>

ClientSends(f) ==
  /\ fdt[f] \in Clients /\ f \notin hungup
  /\ readable' = readable \cup {f}
  /\ Kernel(f)
  /\ UNCHANGED <<backlog, hungup>>

ClientCloses(f) ==
  /\ fdt[f] \in Clients /\ f \notin hungup
  /\ hungup' = hungup \cup {f}
  /\ Kernel(f)
  /\ UNCHANGED <<backlog, readable>>

\* A worker receives what is there, whatever woke it.
WorkerReceives(f) ==
  /\ f \in session_hash /\ f \in readable
  /\ readable' = readable \ {f}
  /\ UNCHANGED <<config, pollerVars, hungup, fdt, setupVars, backlog, loopVars,
                 termination_requested, mpc>>

\* Where on_recv fails the worker closes the descriptor of the session, whoever
\* has it by now; the session, its entry of the hash and win32's entry of the
\* poller stay. Bound: two entries at most have one number.
CallbackFails(f) ==
  /\ config.on_recv_fails
  /\ f \in session_hash \ hidden /\ f \in readable
  /\ Close(f)
  /\ ClosedUnder(f)
  /\ UNCHANGED <<config, setupVars, backlog, loopVars, termination_requested, mpc>>

\* The handler of SIGINT and SIGTERM, which on bsd ends the process.
Terminate ==
  /\ ~termination_requested
  /\ termination_requested' = TRUE
  /\ mpc' = IF On("bsd") THEN "killed" ELSE mpc
  /\ UNCHANGED <<config, pollerVars, kernelVars, fdt, setupVars, backlog, loopVars>>

-----------------------------------------------------------------------------
Setup ==
  \/ Initialize \/ GetAddrInfo \/ OpenSocket \/ Bind \/ FreeAddrInfo \/ FailedToBind
  \/ Listen \/ CreatePoller \/ FreeServer

Iterate ==
  \/ PollerWait \/ HandleNewConnection \/ AcceptFails \/ HandleNewData \/ HandleDisconnect

MainThread ==
  \/ Setup \/ Iterate
  \/ FinalizeConnection \/ CloseListener \/ PollerDestroy

Environment ==
  \/ \E c \in Clients : Connect(c) \/ Abort(c)
  \/ \E f \in Fds : \/ ClientSends(f) \/ ClientCloses(f) \/ WorkerReceives(f) \/ CallbackFails(f)
                    \/ OtherCloses(f) \/ OtherGets(f)
  \/ OtherOpens \/ Terminate

\* The process has ended, by exit or by a signal, or it has read freed memory.
Exited == mpc \in {"exit", "killed", "undefined"}

Next ==
  \/ ~Exited /\ (MainThread \/ Environment)
  \/ Exited /\ UNCHANGED vars

Spec == Init /\ [][Next]_vars

\* server_run iterates as long as it runs.
FairSpec == Spec /\ WF_vars(Iterate)

-----------------------------------------------------------------------------
(* Properties *)

Running == mpc \in {"poll", "dispatch"}

CallbacksSucceed == ~config.on_recv_fails

TypeOK ==
  /\ config \in Configs
  /\ {listener, fs_socket} \subseteq Fds \cup {INVALID_SOCKET}
  /\ Registered \cup ToSet(queue) \subseteq Fds
  /\ readable \cup hungup \cup session_hash \subseteq Fds
  /\ hidden \subseteq session_hash /\ left \subseteq Fds
  /\ fdt \in [Fds -> Clients \cup {"free", "other", "listener", "poller"}]
  /\ backlog \subseteq Clients
  /\ {servinfo, termination_requested, wsa_started} \subseteq BOOLEAN
  /\ addr \in 1 .. Addresses + 1

\* Every accepted connection has a session and the listener is open, whatever
\* fails. Unless a callback fails, what is registered with the poller, what has a
\* session and what is open is one and the same: the listener and the accepted
\* connections, each once. So poller_remove_connection never meets a descriptor it
\* does not know, and the only ends of the program are a full array and a missing
\* descriptor (server.c:81-87, 116-123; win32/poller.c:41, 61). A callback that
\* fails has the descriptor of its session closed under both (server.c:53).
RegistryMatches ==
  /\ TypeOK
  /\ Running => /\ fdt[listener] = "listener"
                /\ {f \in Fds : fdt[f] \in Clients} \subseteq session_hash
  /\ CallbacksSucceed =>
       /\ Running => /\ IsInjective(poll_fds) /\ IsInjective(queue)
                     /\ Registered = session_hash \cup {listener}
                     /\ ToSet(queue) \subseteq Registered
                     /\ session_hash = {f \in Fds : fdt[f] \in Clients}
       /\ mpc = "exit" => Full \/ poll_fds = <<>>

\* Unless a callback fails, an event that waits behind others is never about an
\* earlier connection of a descriptor that a new connection has got since
\* (server.c:140-152; a worker that closes a socket may do so between the event
\* and its turn, and accept gets the number again, server.c:53). And the
\* events fit their array, except that WSAPoll's last descriptor may put two
\* events where there is room for one (server.c:138, win32/poller.c:73-86).
EventsAreFresh ==
  /\ CallbacksSucceed =>
       \A n \in DOMAIN events : events[n].fd \in session_hash => events[n].of = fdt[events[n].fd]
  /\ Len(events) <= config.evt_sz + (IF On("win32") THEN 1 ELSE 0)

\* Whatever fails, callbacks included, a server that is not created or that is
\* destroyed leaves no descriptor open; the addresses are leaked where socket or
\* setsockopt fails, and only a server that was not created takes its WSAStartup back
\* (tcp_server.c:34-44, 69-75, 86, 171-188; server.c:167-177).
NothingIsLeftOpen ==
  mpc \in {"freed", "ended"} =>
    /\ \A f \in Fds : fdt[f] \in {"free", "other"}
    /\ servinfo => addr <= Addresses
    /\ wsa_started <=> mpc = "ended" /\ On("win32")

\* The server never closes a descriptor that another thread has got, although
\* numbers are used again at once: except when no address could be bound
\* (tcp_server.c:79, 89), when win32 closes the listener twice (server.c:175,
\* win32/poller.c:35), and where a callback fails: its session keeps a number that
\* is free, which a second run, an event of win32's WSAPoll or server_finalize
\* closes again (server.c:53, 123, 171).
ClosesItsOwn ==
  [][\A f \in Fds : CallbacksSucceed /\ fdt[f] = "other" /\ fdt'[f] # "other" =>
        \/ OtherCloses(f)
        \/ mpc = "unbound"
        \/ mpc = "destroy" /\ On("win32")]_vars

Sock == [f \in Fds |-> IF fdt[f] \notin Clients THEN "closed"
                        ELSE IF f \in hungup THEN "hup" ELSE "open"]

Conn == INSTANCE Connections WITH sock <- Sock, served <- session_hash

\* Unless a callback fails, the server does with its connections what Connections
\* says: before it is asked to terminate none is closed while its client is there,
\* for an event of an earlier one under its number or for an event that says
\* something else, and each has its own descriptor (server.c:81-171). Where a
\* callback fails the worker closes a connection whose client is there
\* (server.c:53).
ConnectionPromise == Conn!Init /\ [][CallbacksSucceed => Conn!Next]_(Conn!vars)

\* The listener or a client's connection has news that the poller can see.
Due(who) ==
  \E f \in Registered : /\ fdt[f] = who
                        /\ HasNews(f)
                        /\ On("win32") \/ f \in ToSet(queue)

Reported(who) == \E n \in DOMAIN events : events[n].of = who

\* accept waits for a client that has gone.
Hangs ==
  mpc = "dispatch" /\ Head(events).type = "PT_NEW_CONNECTION" /\ backlog = {} /\ On("bsd")

\* However busy the other descriptors are and however few events fit, news of
\* a descriptor is reported, unless the server ends or accept hangs
\* (linux/poller.c:55-83, bsd/poller.c:59-79, win32/poller.c:64-90).
ReadyIsReported ==
  \A who \in Clients \cup {"listener"} :
    Due(who) ~> ~Due(who) \/ Reported(who) \/ ~Running \/ termination_requested \/ Hangs
=============================================================================
