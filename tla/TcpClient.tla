------------------------------ MODULE TcpClient ------------------------------
(***************************************************************************)
(* src/client/tcpclient.c: a client that connects to the first address     *)
(* that answers, and waits in tcpclient_recv_spinlock for a reply that the *)
(* network brings in parts of any size. Bytes are numbered in the order of *)
(* the stream; the reader's memory has, for every offset, the byte that    *)
(* was written there, or 0. The clock is in milliseconds.                  *)
(***************************************************************************)
EXTENDS Integers, FiniteSets

CONSTANTS
  Fds,        \* the descriptors the process may get
  Addresses,  \* how many addresses getaddrinfo finds
  Sz,         \* the size of the reader's buffer
  Timeouts,   \* the timeouts it may give
  Second,     \* milliseconds in a second: 1000
  MaxBytes,   \* bound on the bytes the server sends
  MaxClock    \* bound on the clock of a call

ASSUME ClientAssumption ==
  /\ Fds \subseteq Nat /\ IsFiniteSet(Fds)
  /\ Addresses \in Nat /\ Sz \in Nat /\ MaxBytes \in Nat /\ MaxClock \in Nat
  /\ Timeouts \subseteq Nat
  /\ Second \in Nat \ {0}

VARIABLES
  platform,    \* "posix" or "win32"
  open,        \* the descriptors of this client's sockets
  fd,          \* t->fd
  servinfo,    \* the addresses are allocated
  addr,        \* the address that is tried
  arrived, taken,  \* bytes that came in, and those that recv has returned
  peer,        \* the server's end: "open", "closed" or "reset"
  errno,       \* "EAGAIN", or "other": what an earlier failure left there
  mem,         \* the reader's memory, from its buffer on
  data, pos,   \* the pointer, as an offset, and the bytes received
  parts,       \* the number of recv calls that returned some
  timeout_ms, start, now,
  result,      \* what the last receive returned
  pc

connectVars == <<open, fd, servinfo, addr>>
streamVars  == <<arrived, taken, peer>>
spinVars    == <<mem, data, pos, parts, timeout_ms, start>>
vars == <<platform, connectVars, streamVars, errno, spinVars, now, result, pc>>

INVALID_SOCKET == -1

\* The buffer and what lies behind it.
Memory == 0 .. 2 * Sz

Init ==
  /\ platform \in {"posix", "win32"}
  /\ open = {} /\ fd = INVALID_SOCKET /\ servinfo = FALSE /\ addr = 1
  /\ arrived = 0 /\ taken = 0 /\ peer = "closed"
  /\ errno = "other"
  /\ mem = [m \in Memory |-> 0]
  /\ data = 0 /\ pos = 0 /\ parts = 0
  /\ timeout_ms \in Timeouts /\ start = 0 /\ now = 0
  /\ result = 0
  /\ pc = "none"

\* The reader's buffer before a receive: another memory, or nothing in it yet.
Fresh ==
  /\ data' = 0 /\ pos' = 0 /\ parts' = 0 /\ result' = 0
  /\ mem' = [m \in Memory |-> 0]

-----------------------------------------------------------------------------
(* tcpclient_create and tcpclient_destroy *)

Connecting ==
  UNCHANGED <<platform, arrived, taken, errno, spinVars, now, result>>

\* getaddrinfo fails, or finds the addresses.
GetAddrInfo ==
  /\ pc = "none"
  /\ \/ pc' = "none" /\ fd' = INVALID_SOCKET /\ UNCHANGED <<servinfo, addr>>
     \/ pc' = "socket" /\ servinfo' = TRUE /\ addr' = 1 /\ UNCHANGED fd
  /\ UNCHANGED <<open, peer>> /\ Connecting

\* Where socket fails the next address is tried.
OpenSocket ==
  /\ pc = "socket" /\ addr <= Addresses
  /\ \/ addr' = addr + 1 /\ UNCHANGED <<open, fd, pc>>
     \/ \E f \in Fds \ open : /\ open' = open \cup {f}
                              /\ fd' = f
                              /\ pc' = "connect"
                              /\ UNCHANGED addr
  /\ UNCHANGED <<servinfo, peer>> /\ Connecting

\* Mutant of ConnectFails: the socket of the address that failed stays open.
ConnectFailsOpen ==
  /\ addr' = addr + 1
  /\ pc' = "socket"
  /\ UNCHANGED <<open, servinfo, peer>>

ConnectFails ==
  /\ open' = open \ {fd}
  /\ addr' = addr + 1
  /\ pc' = "socket"
  /\ UNCHANGED <<servinfo, peer>>

Connect ==
  /\ pc = "connect"
  /\ \/ ConnectFails
     \/ /\ peer' = "open"
        /\ servinfo' = FALSE
        /\ pc' = "connected"
        /\ UNCHANGED <<open, addr>>
  /\ UNCHANGED fd /\ Connecting

\* No address answers: servinfo is not freed.
FailedToConnect ==
  /\ pc = "socket" /\ addr > Addresses
  /\ fd' = INVALID_SOCKET
  /\ pc' = "none"
  /\ UNCHANGED <<open, servinfo, addr, peer>> /\ Connecting

\* What had arrived and was not received is lost.
Destroy ==
  /\ pc = "connected"
  /\ open' = open \ {fd}
  /\ fd' = INVALID_SOCKET
  /\ peer' = "closed"
  /\ arrived' = 0 /\ taken' = 0
  /\ Fresh
  /\ pc' = "none"
  /\ UNCHANGED <<platform, servinfo, addr, errno, timeout_ms, start, now>>

-----------------------------------------------------------------------------
(* The server and the clock *)

Arrives ==
  /\ peer = "open"
  /\ arrived < MaxBytes
  /\ arrived' = arrived + 1
  /\ UNCHANGED <<platform, connectVars, taken, peer, errno, spinVars, now, result, pc>>

PeerEnds ==
  /\ peer = "open" /\ pc # "none"
  /\ peer' \in {"closed", "reset"}
  /\ UNCHANGED <<platform, connectVars, arrived, taken, errno, spinVars, now, result, pc>>

Later(t) == IF t < MaxClock THEN t + 1 ELSE t

Tick ==
  /\ pc \in {"recv", "sleep", "clock"}
  /\ now < MaxClock
  /\ now' = Later(now)
  /\ UNCHANGED <<platform, connectVars, streamVars, errno, spinVars, result, pc>>

-----------------------------------------------------------------------------
(* tcpclient_recv_nonblock and tcpclient_recv_spinlock *)

Receiving == UNCHANGED <<platform, connectVars, arrived>>

\* Where nothing is returned the address of the caller's variable is freed,
\* which ends the program or worse.
RecvNonblock ==
  /\ pc = "connected"
  /\ IF arrived > taken THEN taken' = arrived /\ UNCHANGED pc
                        ELSE pc' = "undefined" /\ UNCHANGED taken
  /\ Fresh
  /\ UNCHANGED <<peer, errno, timeout_ms, start, now>> /\ Receiving

\* The clock is counted from the beginning of the second of the call.
SpinBegins ==
  /\ pc = "connected"
  /\ start' \in 0 .. Second - 1 /\ now' = start'
  /\ timeout_ms' \in Timeouts
  /\ Fresh
  /\ pc' = IF Sz > 0 THEN "recv" ELSE "connected"
  /\ UNCHANGED <<streamVars, errno>> /\ Receiving

Returns(r) == result' = r /\ pc' = "connected"

\* Mutant of Room: a byte for a terminator is forgotten.
RoomForOneMore == Sz - pos + 1

Room == Sz - pos

\* &data[pos] after data was advanced as well.
Target == data + pos

RecvSome ==
  /\ pc = "recv" /\ arrived > taken
  /\ LET r == IF arrived - taken < Room THEN arrived - taken ELSE Room
     IN  /\ mem' = [m \in Memory |-> IF m \in Target .. Target + r - 1
                                     THEN taken + 1 + m - Target ELSE mem[m]]
         /\ taken' = taken + r
         /\ pos' = pos + r
         /\ data' = data + r
         /\ pc' = IF pos + r < Sz THEN "sleep" ELSE "clock"
  /\ parts' = parts + 1
  /\ UNCHANGED <<peer, errno, timeout_ms, start, now, result>> /\ Receiving

\* recv returns nothing at the end of the stream, and does not set errno.
RecvEnd ==
  /\ pc = "recv" /\ arrived = taken /\ peer = "closed"
  /\ IF platform = "posix" /\ errno # "EAGAIN" THEN Returns(0)
     ELSE pc' = "sleep" /\ UNCHANGED result
  /\ UNCHANGED <<taken, peer, errno, spinVars, now>> /\ Receiving

\* recv fails: it would block, or the connection was reset.
RecvFails ==
  /\ pc = "recv" /\ arrived = taken /\ peer # "closed"
  /\ IF peer = "open" THEN errno' = "EAGAIN" /\ pc' = "sleep" /\ UNCHANGED <<peer, result>>
     ELSE errno' = "other" /\ peer' = "closed" /\ Returns(-1)
  /\ UNCHANGED <<taken, spinVars, now>> /\ Receiving

Sleep ==
  /\ pc = "sleep"
  /\ now' = Later(now)
  /\ pc' = "clock"
  /\ UNCHANGED <<streamVars, errno, spinVars, result>> /\ Receiving

\* Mutant of Elapsed: only the nanoseconds are compared.
ElapsedNanoseconds == (now % Second) - (start % Second)

\* Mutant of Elapsed: the start's milliseconds are not subtracted.
ElapsedFromSecond == (now \div Second - start \div Second) * Second + (now % Second)

\* The POSIX code adds seconds to milliseconds.
Elapsed ==
  IF platform = "win32" THEN now - start
  ELSE (now \div Second - start \div Second) + ((now % Second) - (start % Second))

TestClock ==
  /\ pc = "clock"
  /\ IF Elapsed > timeout_ms \/ pos >= Sz THEN Returns(pos)
     ELSE pc' = "recv" /\ UNCHANGED result
  /\ UNCHANGED <<streamVars, errno, spinVars, now>> /\ Receiving

-----------------------------------------------------------------------------
Spin == RecvSome \/ RecvEnd \/ RecvFails \/ Sleep \/ TestClock

Next ==
  \/ GetAddrInfo \/ OpenSocket \/ Connect \/ FailedToConnect \/ Destroy
  \/ RecvNonblock \/ SpinBegins \/ Spin
  \/ Arrives \/ PeerEnds \/ Tick
  \/ pc = "undefined" /\ UNCHANGED vars

Spec == Init /\ [][Next]_vars

\* The loop spins.
FairSpec == Spec /\ WF_vars(Spin)

-----------------------------------------------------------------------------
(* Properties *)

TypeOK ==
  /\ platform \in {"posix", "win32"}
  /\ fd \in Fds \cup {INVALID_SOCKET}
  /\ servinfo \in BOOLEAN /\ addr \in Nat
  /\ arrived \in Nat /\ taken \in Nat
  /\ data \in Nat /\ pos \in Nat /\ parts \in Nat
  /\ start \in Nat /\ now \in Nat
  /\ peer \in {"open", "closed", "reset"} /\ errno \in {"EAGAIN", "other"}
  /\ mem \in [Memory -> Nat]
  /\ timeout_ms \in Timeouts
  /\ result \in Int
  /\ pc \in {"none", "socket", "connect", "connected", "undefined", "recv", "sleep", "clock"}

\* Whatever addresses fail, the client has exactly the socket it is connected
\* with, none when it could not connect or was destroyed; the addresses are
\* leaked where none answered (tcpclient.c:54-74, 94, 108-133).
SocketIsOwned ==
  /\ TypeOK
  /\ open = IF pc \in {"none", "socket"} THEN {} ELSE {fd}
  /\ servinfo => pc \in {"socket", "connect"} \/ addr > Addresses

\* A reply that comes in ONE part is in the buffer from its first byte to its
\* last, nothing is written behind it, and its length is returned unless the
\* server closes (tcpclient.c:169-186). It says nothing of a reply that TCP cuts
\* into parts, which ReplyIsWhole is about.
ReplyIsDelivered ==
  parts <= 1 =>
    /\ pos <= Sz
    /\ \A m \in Memory : mem[m] = IF m < pos THEN taken - pos + m + 1 ELSE 0
    /\ pc = "connected" /\ peer = "open" => result = pos

\* What the tests assert of every reply, however TCP cuts it: where r bytes are
\* returned, the reader's buffer has the r bytes that were received, in their
\* order (tests/tcp.cc:76-79, 103-105, 135-137). It does not hold: the pointer is
\* advanced and indexed by pos as well, so that the second part goes to twice
\* its offset (tcpclient.c:171, 184-185).
ReplyIsWhole ==
  pc = "connected" => \A m \in 0 .. result - 1 : mem[m] = taken - result + m + 1

\* The loop never gives up before the timeout, although the elapsed time adds
\* seconds to milliseconds that may be negative (tcpclient.c:195-199).
TimeoutIsNotEarly ==
  [][pc = "clock" /\ pc' = "connected" /\ pos < Sz => now - start > timeout_ms]_vars

\* tcpclient_recv_spinlock returns, at a timeout that may be late by a factor
\* of a thousand, whether the server answers, goes silent or closes.
SpinReturns == pc = "recv" ~> pc = "connected"
=============================================================================
