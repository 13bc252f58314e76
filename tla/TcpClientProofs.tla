-------------------------- MODULE TcpClientProofs --------------------------
(***************************************************************************)
(* Proofs about the TCP client, for any buffer, timeout, clock and number  *)
(* of addresses.                                                           *)
(***************************************************************************)
EXTENDS TcpClient, TLAPS

Spinning == pc \in {"recv", "sleep", "clock"}

\* The pointer and the position advance together, so that a part is written at
\* twice the position, and the first part at the beginning.
PartsAreWritten ==
  /\ data = pos
  /\ pos <= Sz
  /\ parts = 0 => pos = 0
  /\ pc = "recv" => pos < Sz
  /\ taken <= arrived

\* Between two receives the result is what was received; before one it is nothing.
ResultIsKept ==
  /\ pc \in {"none", "socket", "connect"} => result = 0 /\ pos = 0
  /\ pc = "connected" /\ peer = "open" => result = pos

Inv ==
  /\ SocketIsOwned
  /\ Spinning => start <= now
  /\ PartsAreWritten
  /\ ResultIsKept
  /\ ReplyIsDelivered

-----------------------------------------------------------------------------
LEMMA InitInv == Init => Inv
<1> SUFFICES ASSUME Init PROVE Inv
  OBVIOUS
<1> USE ClientAssumption DEF Init
<1>1. TypeOK
  <2>1. mem \in [Memory -> Nat]
    OBVIOUS
  <2>2. servinfo \in BOOLEAN
    OBVIOUS
  <2>3. platform \in {"posix", "win32"} /\ fd \in Fds \cup {INVALID_SOCKET}
    OBVIOUS
  <2>4. peer \in {"open", "closed", "reset"} /\ errno \in {"EAGAIN", "other"}
    OBVIOUS
  <2>5. QED
    BY <2>1, <2>2, <2>3, <2>4 DEF TypeOK
<1>2. SocketIsOwned
  BY <1>1 DEF SocketIsOwned
<1>3. PartsAreWritten /\ ResultIsKept
  BY DEF PartsAreWritten, ResultIsKept, Memory
<1>4. ReplyIsDelivered
  BY DEF ReplyIsDelivered, Memory
<1>5. QED
  BY <1>2, <1>3, <1>4 DEF Inv, Spinning

-----------------------------------------------------------------------------
(* The connection *)

LEMMA StepSocket == Inv /\ [Next]_vars => SocketIsOwned'
<1> SUFFICES ASSUME SocketIsOwned, PartsAreWritten, [Next]_vars PROVE SocketIsOwned'
  BY DEF Inv
<1> USE ClientAssumption
    DEF SocketIsOwned, TypeOK, INVALID_SOCKET, connectVars, streamVars, spinVars
<1>1. CASE GetAddrInfo
  <2>0. servinfo' \in BOOLEAN
    BY <1>1 DEF GetAddrInfo
  <2>5. addr' \in Nat /\ fd' \in Fds \cup {INVALID_SOCKET}
    BY <1>1 DEF GetAddrInfo
  <2>1. TypeOK'
    BY <1>1, <2>0, <2>5 DEF GetAddrInfo, Connecting
  <2>2. open' = {} /\ (servinfo' => pc' = "socket" \/ addr' > Addresses)
    BY <1>1 DEF GetAddrInfo, Connecting
  <2>3. pc' \in {"none", "socket"}
    BY <1>1 DEF GetAddrInfo, Connecting
  <2>4. QED
    BY <2>1, <2>2, <2>3
<1>2. CASE OpenSocket
  BY <1>2 DEF OpenSocket, Connecting
<1>3. CASE Connect
  <2>0. addr' \in Nat /\ fd' = fd /\ peer' \in {peer, "open"} /\ pc' \in {"socket", "connected"}
    BY <1>3 DEF Connect, ConnectFails
  <2>5. servinfo' \in BOOLEAN
    BY <1>3 DEF Connect, ConnectFails
  <2>1. TypeOK'
    BY <1>3, <2>0, <2>5 DEF Connect, Connecting
  <2>2. open' = IF pc' = "socket" THEN {} ELSE {fd'}
    BY <1>3 DEF Connect, ConnectFails
  <2>3. servinfo' => pc' = "socket"
    BY <1>3 DEF Connect, ConnectFails
  <2>4. QED
    BY <2>0, <2>1, <2>2, <2>3
<1>4. CASE FailedToConnect
  BY <1>4 DEF FailedToConnect, Connecting
<1>5. CASE Destroy \/ RecvNonblock \/ SpinBegins
  BY <1>5 DEF Destroy, RecvNonblock, SpinBegins, Fresh, Receiving
<1>6. CASE RecvSome
  <2> DEFINE r == IF arrived - taken < Room THEN arrived - taken ELSE Room
  <2>1. r \in Nat
    BY <1>6 DEF RecvSome, PartsAreWritten, Room
  <2>2. mem' \in [Memory -> Nat]
    <3>1. \A m \in Memory : m \in Target .. Target + r - 1 => taken + 1 + m - Target \in Nat
      BY <2>1 DEF Target, Memory
    <3>2. QED
      BY <1>6, <3>1 DEF RecvSome
  <2>3. taken' \in Nat /\ pos' \in Nat /\ data' \in Nat
    BY <1>6, <2>1 DEF RecvSome
  <2>4. parts' \in Nat /\ pc' \in {"sleep", "clock"}
    BY <1>6 DEF RecvSome
  <2>5. QED
    BY <1>6, <2>2, <2>3, <2>4 DEF RecvSome, Receiving
<1>7. CASE RecvEnd \/ RecvFails
  BY <1>7 DEF RecvEnd, RecvFails, Returns, Receiving
<1>8. CASE Sleep \/ TestClock
  BY <1>8 DEF Sleep, TestClock, Later, Returns, Receiving
<1>9. CASE Arrives \/ PeerEnds \/ Tick
  BY <1>9 DEF Arrives, PeerEnds, Tick, Later
<1>10. CASE UNCHANGED vars
  BY <1>10 DEF vars
<1>11. QED
  BY <1>1, <1>2, <1>3, <1>4, <1>5, <1>6, <1>7, <1>8, <1>9, <1>10 DEF Next, Spin

-----------------------------------------------------------------------------
(* The reply *)

\* One part of the reply is written and counted.
LEMMA RecvSomeStep ==
  ASSUME Inv, RecvSome
  PROVE  PartsAreWritten' /\ ResultIsKept' /\ ReplyIsDelivered'
<1> USE ClientAssumption DEF Inv, SocketIsOwned, TypeOK
<1> DEFINE r == IF arrived - taken < Room THEN arrived - taken ELSE Room
<1>1. r \in Nat \ {0} /\ r <= Sz - pos /\ r <= arrived - taken
  BY DEF RecvSome, PartsAreWritten, Room
<1>2. /\ pos' = pos + r /\ data' = data + r /\ taken' = taken + r /\ parts' = parts + 1
      /\ pc' = IF pos + r < Sz THEN "sleep" ELSE "clock"
      /\ UNCHANGED <<arrived, peer, result>>
  BY DEF RecvSome, Receiving
<1>3. \A m \in Memory : mem'[m] = IF m \in 2 * pos .. 2 * pos + r - 1
                                  THEN taken + 1 + m - 2 * pos ELSE mem[m]
  BY DEF RecvSome, Target, PartsAreWritten
<1> HIDE DEF r
<1>4. PartsAreWritten'
  BY <1>1, <1>2 DEF PartsAreWritten
<1>5. ReplyIsDelivered'
  <2>2. ASSUME parts' <= 1, NEW m \in Memory
        PROVE  mem'[m] = IF m < pos' THEN taken' - pos' + m + 1 ELSE 0
    <3>1. pos = 0 /\ parts = 0
      BY <1>2, <2>2 DEF PartsAreWritten
    <3>2. mem[m] = 0
      BY <3>1 DEF ReplyIsDelivered, Memory
    <3>3. QED
      BY <1>1, <1>2, <1>3, <3>1, <3>2 DEF Memory
  <2>3. pos' <= Sz /\ pc' # "connected"
    BY <1>1, <1>2
  <2>4. QED
    BY <2>2, <2>3 DEF ReplyIsDelivered
<1>6. QED
  BY <1>2, <1>4, <1>5 DEF ResultIsKept

LEMMA StepReply ==
  ASSUME Inv, [Next]_vars, TypeOK'
  PROVE  PartsAreWritten' /\ ResultIsKept' /\ ReplyIsDelivered'
<1> DEFINE Goal == PartsAreWritten /\ ResultIsKept /\ ReplyIsDelivered
<1>1. ASSUME Fresh, UNCHANGED arrived, taken' \in {taken, arrived},
             pc' \in {"none", "connected", "undefined", "recv"}, pc' = "recv" => Sz > 0
      PROVE  Goal'
  <2> USE <1>1, ClientAssumption DEF Inv, SocketIsOwned, TypeOK, Fresh, Memory
  <2>1. PartsAreWritten'
    BY DEF PartsAreWritten
  <2>2. ResultIsKept'
    BY DEF ResultIsKept
  <2>3. /\ pos' = 0 /\ result' = 0
        /\ \A m \in Memory : mem'[m] = 0 /\ ~(m < pos')
    OBVIOUS
  <2>4. ReplyIsDelivered'
    <3>1. pos' <= Sz /\ result' = pos'
      BY <2>3
    <3>3. \A m \in Memory : mem'[m] = IF m < pos' THEN taken' - pos' + m + 1 ELSE 0
      BY <2>3
    <3> QED
      BY <3>1, <3>3 DEF ReplyIsDelivered
  <2>5. QED
    BY <2>1, <2>2, <2>4
<1> USE ClientAssumption
    DEF Inv, SocketIsOwned, TypeOK, connectVars, streamVars, spinVars,
        PartsAreWritten, ResultIsKept, ReplyIsDelivered
<1>2. CASE GetAddrInfo \/ OpenSocket \/ Connect \/ FailedToConnect
  BY <1>2 DEF GetAddrInfo, OpenSocket, Connect, ConnectFails, FailedToConnect, Connecting
<1>3. CASE Destroy
  BY <1>3 DEF Destroy, Fresh, Memory
<1>4. CASE RecvNonblock \/ SpinBegins
  BY <1>1, <1>4 DEF RecvNonblock, SpinBegins, Receiving
<1>5. CASE RecvSome
  BY <1>5, RecvSomeStep
<1>6. CASE RecvEnd \/ RecvFails
  BY <1>6 DEF RecvEnd, RecvFails, Returns, Receiving
<1>7. CASE Sleep \/ TestClock
  BY <1>7 DEF Sleep, TestClock, Returns, Receiving
<1>8. CASE Arrives \/ PeerEnds \/ Tick
  BY <1>8 DEF Arrives, PeerEnds, Tick
<1>9. CASE UNCHANGED vars
  BY <1>9 DEF vars
<1>10. QED
  BY <1>2, <1>3, <1>4, <1>5, <1>6, <1>7, <1>8, <1>9 DEF Next, Spin

-----------------------------------------------------------------------------
(* The clock *)

LEMMA StepClock == Inv /\ [Next]_vars => (Spinning => start <= now)'
<1> SUFFICES ASSUME Inv, [Next]_vars, Spinning' PROVE start' <= now'
  OBVIOUS
<1> USE ClientAssumption
    DEF Inv, SocketIsOwned, TypeOK, Spinning, connectVars, streamVars, spinVars
<1>1. CASE GetAddrInfo \/ OpenSocket \/ Connect \/ FailedToConnect \/ Destroy \/ RecvNonblock
  BY <1>1 DEF GetAddrInfo, OpenSocket, Connect, ConnectFails, FailedToConnect, Destroy, RecvNonblock
<1>2. CASE SpinBegins
  BY <1>2 DEF SpinBegins
<1>3. CASE RecvSome \/ RecvEnd \/ RecvFails \/ TestClock
  BY <1>3 DEF RecvSome, RecvEnd, RecvFails, TestClock
<1>4. CASE Sleep \/ Tick
  BY <1>4 DEF Sleep, Tick, Later
<1>5. CASE Arrives \/ PeerEnds \/ UNCHANGED vars
  BY <1>5 DEF Arrives, PeerEnds, vars
<1>6. QED
  BY <1>1, <1>2, <1>3, <1>4, <1>5 DEF Next, Spin

LEMMA DivMod ==
  ASSUME NEW n \in Nat, NEW d \in Nat \ {0}
  PROVE  /\ n \div d \in Nat /\ n % d \in Nat
         /\ n = d * (n \div d) + (n % d)
         /\ n % d < d
  OBVIOUS

\* The elapsed time of the code is never more than the time that went by.
LEMMA ElapsedIsNotMore ==
  ASSUME start \in Nat, now \in Nat, start <= now
  PROVE  Elapsed \in Int /\ Elapsed <= now - start
<1> USE ClientAssumption
<1> DEFINE sd == start \div Second
           nd == now \div Second
<1>1. /\ sd \in Nat /\ start % Second \in Nat /\ start = Second * sd + (start % Second)
      /\ start % Second < Second
      /\ nd \in Nat /\ now % Second \in Nat /\ now = Second * nd + (now % Second)
      /\ now % Second < Second
  BY DivMod
<1> HIDE DEF sd, nd
<1>2. sd <= nd
  <2> SUFFICES ASSUME nd + 1 <= sd PROVE FALSE
    BY <1>1
  <2>1. Second * (nd + 1) <= Second * sd
    BY <1>1
  <2>2. Second * (nd + 1) = Second * nd + Second
    BY <1>1
  <2>3. QED
    BY <1>1, <2>1, <2>2
<1>3. nd - sd <= Second * (nd - sd)
  BY <1>1, <1>2
<1>4. Second * (nd - sd) = Second * nd - Second * sd
  BY <1>1
<1>5. QED
  BY <1>1, <1>3, <1>4 DEF Elapsed, sd, nd

-----------------------------------------------------------------------------
(* The theorems *)

LEMMA StepInv == Inv /\ [Next]_vars => Inv'
<1> SUFFICES ASSUME Inv, [Next]_vars PROVE Inv'
  OBVIOUS
<1>1. SocketIsOwned'
  BY StepSocket
<1>2. (Spinning => start <= now)'
  BY StepClock
<1>3. PartsAreWritten' /\ ResultIsKept' /\ ReplyIsDelivered'
  BY <1>1, StepReply DEF SocketIsOwned
<1>4. QED
  BY <1>1, <1>2, <1>3 DEF Inv

\* The socket, the place in the buffer and the two clocks agree, whatever connect,
\* recv and the time do (tcpclient.c:36-203).
THEOREM InvHolds == Spec => []Inv
  BY InitInv, StepInv, PTL DEF Spec

\* The client has the socket it is connected with and no other, whatever
\* addresses fail (tcpclient.c:54-74, 94, 108-133).
THEOREM OneSocket == Spec => []SocketIsOwned
  BY InvHolds, PTL DEF Inv

\* A reply that comes in one part is in the buffer from its first byte to its
\* last, with nothing behind it (tcpclient.c:169-186). Nothing is said of a reply
\* in several parts, which is not delivered.
THEOREM ReplyIsThere == Spec => []ReplyIsDelivered
  BY InvHolds, PTL DEF Inv

\* The loop never gives up before its timeout, whatever the clock shows at its
\* beginning and however many milliseconds there are in a second
\* (tcpclient.c:195-199).
THEOREM NeverEarly == Spec => TimeoutIsNotEarly
<1> DEFINE InTime == pc = "clock" /\ pc' = "connected" /\ pos < Sz => now - start > timeout_ms
<1>1. Inv /\ [Next]_vars => [InTime]_vars
  <2> SUFFICES ASSUME Inv, Next, pc = "clock", pc' = "connected", pos < Sz
               PROVE  now - start > timeout_ms
    OBVIOUS
  <2> USE ClientAssumption DEF Inv, SocketIsOwned, TypeOK
  <2>1. TestClock
    BY DEF Next, Spin, GetAddrInfo, OpenSocket, Connect, FailedToConnect, Destroy, RecvNonblock,
           SpinBegins, RecvSome, RecvEnd, RecvFails, Sleep, Arrives, PeerEnds, Tick
  <2>2. Elapsed \in Int /\ Elapsed <= now - start
    BY ElapsedIsNotMore DEF Spinning
  <2>3. Elapsed > timeout_ms
    BY <2>1 DEF TestClock
  <2>4. QED
    BY <2>2, <2>3
<1>2. QED
  BY <1>1, InvHolds, PTL DEF Spec, TimeoutIsNotEarly
=============================================================================
