------------------------------- MODULE Poller -------------------------------
(***************************************************************************)
(* The poller of src/os: what poller_wait tells the server of the          *)
(* descriptors it registered, in the three implementations of poller.h.    *)
(*                                                                         *)
(*   linux   epoll: the kernel queues a descriptor when it gets news; the  *)
(*           listener is level-triggered, connections are edge-triggered   *)
(*   bsd     kqueue: as above, with every descriptor level-triggered       *)
(*   win32   WSAPoll: an array that is scanned from its beginning          *)
(***************************************************************************)
EXTENDS Naturals, SequencesExt

CONSTANT
  Configs   \* the platforms, with the evt_sz of poller_wait and FD_SETSIZE, and
            \* whether a callback of a session may fail

ASSUME PollerAssumption ==
  /\ Configs \subseteq [platform : {"linux", "bsd", "win32"}, evt_sz : Nat \ {0},
                        fd_setsize : Nat \ {0}, on_recv_fails : BOOLEAN]
  \* MAX_EVENTS of server.c:14 is 64, which is also what winsock2.h gives FD_SETSIZE.
  /\ \A c \in Configs : c.platform = "win32" => c.fd_setsize <= c.evt_sz

VARIABLES
  config,
  fs_socket,  \* the listener
  poll_fds,   \* the registered descriptors, in the order they were added
  queue,      \* epoll and kqueue: those with news, the oldest first
  readable,   \* the kernel's state: descriptors with a connection or data to take
  hungup      \* and connections that the client closed

pollerVars == <<fs_socket, poll_fds, queue>>
kernelVars == <<readable, hungup>>

On(platform) == config.platform = platform

Registered == ToSet(poll_fds)

Event(type, f) == [type |-> type, fd |-> f]

When(p, event) == IF p THEN <<event>> ELSE <<>>

\* Mutant of News: what can be read is taken for a hang-up.
NewsGone(f) ==
  IF f = fs_socket THEN When(f \in readable, Event("PT_NEW_CONNECTION", f))
  ELSE When(f \in readable \cup hungup, Event("PT_DISCONNECTED", f))

\* What is reported of a descriptor. WSAPoll's flags are tested one after the
\* other, so that a closed connection with data makes two events.
News(f) ==
  LET gone == When(f \in hungup, Event("PT_DISCONNECTED", f))
      data == When(f \in readable, Event("PT_NEW_DATA", f))
  IN  IF f = fs_socket THEN When(f \in readable, Event("PT_NEW_CONNECTION", f))
      ELSE IF On("win32") THEN gone \o data
      ELSE IF f \in hungup THEN gone ELSE data

HasNews(f) == News(f) # <<>>

\* The elements of s that are in S, in their order.
Among(s, S) ==
  LET kept[n \in 0 .. Len(s)] ==
        IF n = 0 THEN <<>>
        ELSE IF s[n] \in S THEN Append(kept[n - 1], s[n]) ELSE kept[n - 1]
  IN  kept[Len(s)]

\* The kernel's queue when a descriptor gets news.
Queued(f) ==
  IF On("win32") \/ f \notin Registered \/ f \in ToSet(queue) THEN queue ELSE Append(queue, f)

\* The queue of poller_wait: stale descriptors are dropped, what is
\* level-triggered goes to the end again.
Fitting(s) == IF Len(s) <= config.evt_sz THEN s ELSE SubSeq(s, 1, config.evt_sz)

Live == Among(queue, {f \in ToSet(queue) : HasNews(f)})

Taken == Fitting(Live)

Rest == LET live  == Live
            taken == Fitting(live)
            again == {f \in ToSet(taken) : On("bsd") \/ f = fs_socket}
        IN  SubSeq(live, Len(taken) + 1, Len(live)) \o Among(taken, again)

\* Mutant of Scan: a descriptor without news ends the loop.
ScanBreaks ==
  LET idle == SelectInSeq(poll_fds, LAMBDA f : ~HasNews(f))
  IN  FoldLeft(LAMBDA out, f : IF Len(out) < config.evt_sz THEN out \o News(f) ELSE out,
               <<>>, IF idle = 0 THEN poll_fds ELSE SubSeq(poll_fds, 1, idle - 1))

\* Mutant of Scan: the events of the connections first, then the listener's.
ScanListenerLater ==
  LET Gone(e) == e.type = "PT_DISCONNECTED"
      all == FoldLeft(LAMBDA out, f : out \o News(f), <<>>, poll_fds)
  IN  Fitting(SelectSeq(all, Gone) \o SelectSeq(all, LAMBDA e : ~Gone(e)))

\* The loop over poll_fds, which tests evt_sz once for every descriptor.
Scan ==
  LET out[n \in 0 .. Len(poll_fds)] ==
        IF n = 0 THEN <<>>
        ELSE LET before == out[n - 1]
             IN  IF Len(before) < config.evt_sz THEN before \o News(poll_fds[n]) ELSE before
  IN  out[Len(poll_fds)]

\* The events of poller_wait. An interrupted epoll_wait reports none.
Batch ==
  LET taken == Taken
  IN  IF On("win32") THEN Scan ELSE [n \in 1 .. Len(taken) |-> News(taken[n])[1]]

PollerCreate(f) ==
  /\ fs_socket' = f
  /\ poll_fds' = <<f>>
  /\ queue' = IF ~On("win32") /\ f \in readable THEN <<f>> ELSE <<>>

\* Where win32 has no room the program ends.
Full == On("win32") /\ Len(poll_fds) >= config.fd_setsize

\* Registering a descriptor that has news already puts it in the queue.
AddConnection(f, news) ==
  /\ poll_fds' = Append(poll_fds, f)
  /\ queue' = IF On("win32") \/ ~news THEN queue ELSE Append(queue, f)
  /\ UNCHANGED fs_socket

\* Mutant of Without: the entry after it is overwritten in its place.
WithoutNext(s, f) ==
  LET i == CHOOSE n \in DOMAIN s : s[n] = f
  IN  IF i = Len(s) THEN s ELSE RemoveAt(s, i + 1)

\* The array without the first entry for a descriptor, shifted left.
Without(s, f) ==
  IF f \notin ToSet(s) THEN s
  ELSE LET i == CHOOSE n \in DOMAIN s : s[n] = f /\ \A m \in DOMAIN s : s[m] = f => n <= m
       IN  [n \in 1 .. Len(s) - 1 |-> IF n < i THEN s[n] ELSE s[n + 1]]

\* Where the descriptor is not registered the program ends.
RemoveConnection(f) ==
  /\ poll_fds' = Without(poll_fds, f)
  /\ queue' = Among(queue, ToSet(queue) \ {f})
  /\ UNCHANGED fs_socket

\* A descriptor is closed under the poller: the kernel forgets it, and the array
\* of win32 does not.
ClosedUnder(f) ==
  IF On("win32") THEN UNCHANGED pollerVars ELSE RemoveConnection(f)
=============================================================================
