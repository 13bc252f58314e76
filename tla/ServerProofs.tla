---------------------------- MODULE ServerProofs ----------------------------
(***************************************************************************)
(* Proofs about the life of connections, for any number of descriptors and *)
(* sessions and every configuration.                                       *)
(***************************************************************************)
EXTENDS Server, WellFoundedInduction, TLAPS

\* The session that handle_new_connection has not added to the hash yet.
Arriving == IF mpc = "hash_add" THEN {cur} ELSE {}

\* The hash is the allocated sessions but for one that is being added or
\* removed; so is the pool, which knows a session only while it is in the hash.
HashIsMatched ==
  /\ mpc \in {"hash_add", "pool_add", "pool_remove", "free"} => cur \in live
  /\ mpc = "close" => cur \notin live
  /\ ~config.on_recv_fails => left = {} /\ (mpc = "ended" => live = {})
  /\ mpc # "exited" =>
       session_hash = (live \ Arriving) \cup (IF mpc = "close" THEN {cur} ELSE {})

PoolIsMatched ==
  /\ Threaded => /\ pending \cup running \subseteq held
                 /\ held \subseteq live
                 /\ mpc # "inline"
                 /\ mpc \in {"hash_add", "pool_add", "free"} => held = live \ {cur}
                 /\ mpc \notin {"hash_add", "pool_add", "free", "exited"} => held = live
  /\ ~Threaded => /\ held = {} /\ pending = {}
                  /\ running \subseteq live
                  /\ mpc \notin {"inline", "exited"} => running = {}

Owners == session_hash \cup Arriving

SocketsAreOwned ==
  /\ ~config.on_recv_fails =>
       \A s \in Owners : /\ sock[fd[s]] # "closed"
                         /\ \A r \in Owners : fd[r] = fd[s] => r = s
  /\ mpc # "exited" => \A f \in Fds : sock[f] # "closed" => \E s \in Owners : fd[s] = f

\* A connection that was reported still waits, and polling begins with no events.
EventsAreTrue ==
  /\ NewConnection \in events => backlog > 0
  /\ mpc = "poll" => events = {}

Inv ==
  /\ TypeOK
  /\ EventsAreTrue
  /\ HashIsMatched
  /\ PoolIsMatched
  /\ SocketsAreOwned

-----------------------------------------------------------------------------
LEMMA MinIsMember ==
  ASSUME NEW F, F \subseteq Nat, F # {}
  PROVE  Min(F) \in F
<1>1. \E x \in F : \A y \in F : ~(<<y, x>> \in OpToRel(<, Nat))
  BY NatLessThanWellFounded, WFMin
<1>2. \A x, y \in Nat : y < x => <<y, x>> \in OpToRel(<, Nat)
  BY DEF OpToRel
<1>3. \A x, y \in F : ~(y < x) => x =< y
  OBVIOUS
<1>4. \E x \in F : \A y \in F : x =< y
  BY <1>1, <1>2, <1>3
<1>5. QED
  BY <1>4 DEF Min

LEMMA InitInv == Init => Inv
<1> SUFFICES ASSUME Init PROVE Inv
  OBVIOUS
<1> USE ServerAssumption DEF Init, Pool!Init
<1>1. Min(Fds) \in Fds
  BY MinIsMember
<1>2. TypeOK
  <2>1. fd \in [Sessions -> Fds]
    BY <1>1
  <2>2. Pool!TypeOK /\ running \in SUBSET Sessions
    BY DEF Pool!TypeOK
  <2>3. backlog \in 0 .. MaxBacklog
    OBVIOUS
  <2>4. QED
    BY <2>1, <2>2, <2>3 DEF TypeOK, Pool!TypeOK
<1>3. Owners = {}
  BY DEF Owners, Arriving
<1>4. QED
  BY <1>2, <1>3
     DEF Inv, EventsAreTrue, HashIsMatched, PoolIsMatched, SocketsAreOwned, Arriving

-----------------------------------------------------------------------------
(* Types *)

LEMMA StepType ==
  ASSUME Inv, [Next]_vars
  PROVE  TypeOK' /\ EventsAreTrue'
<1>0. config' = config
  BY DEF Next, vars
<1> DEFINE Events == {NewConnection} \cup UNION {{NewData(f), Disconnected(f)} : f \in Fds}
           Pooled == (Pool!TypeOK \/ ~Threaded) /\ running \in SUBSET Sessions
           Types  == TypeOK /\ EventsAreTrue
<1> USE <1>0, ServerAssumption
    DEF Inv, TypeOK, EventsAreTrue, Threaded, poolVars, netVars, mainVars
<1>1. ASSUME Environment PROVE Types'
  <2>1. CASE Connect
    BY <2>1 DEF Connect, Pool!TypeOK
  <2>2. CASE HandleSigint
    BY <2>2 DEF HandleSigint, Pool!TypeOK
  <2>3. ASSUME NEW f \in Fds, ClientSends(f) \/ ClientCloses(f) PROVE Types'
    BY <2>3 DEF ClientSends, ClientCloses, Pool!TypeOK
  <2>4. QED
    BY <1>1, <2>1, <2>2, <2>3 DEF Environment
<1>2. CASE PollerWait
  <2>1. events' \subseteq Events
    BY <1>2 DEF PollerWait, ClosedPeers, Acceptable
  <2>2. NewConnection \in events' => backlog > 0
    BY <1>2 DEF PollerWait, Acceptable, NewConnection, NewData, Disconnected
  <2>3. QED
    BY <1>2, <2>1, <2>2 DEF PollerWait, Pool!TypeOK
<1>3. CASE IterationDone \/ AcceptFails \/ AllocationFails
  BY <1>3 DEF IterationDone, AcceptFails, AllocationFails, Pool!TypeOK
<1>4. CASE HashAdded \/ FreeSession \/ CloseConnection
  BY <1>4 DEF HashAdded, FreeSession, CloseConnection, HashDel, CloseSocket, Pool!TypeOK
<1>5. CASE PoolAdd \/ PoolRemove
  <2>1. Pooled'
    BY <1>5 DEF PoolAdd, PoolRemove, Pool!Add, Pool!Remove, Pool!TypeOK
  <2>2. QED
    BY <1>5, <2>1 DEF PoolAdd, PoolRemove
<1>6. CASE FinalizeConnection \/ FinalizeReadsFreed \/ FinalizeServer
  <2>1. CASE FinalizeConnection
    <3>1. cur' \in Sessions /\ mpc' \in {mpc, "pool_remove"} /\ left' \in SUBSET Sessions
      BY <2>1 DEF FinalizeConnection, Disconnect, Find
    <3>2. UNCHANGED <<held, pending, running>>
      BY <2>1 DEF FinalizeConnection
    <3>3. (Pool!TypeOK \/ ~Threaded)'
      BY <3>2 DEF Pool!TypeOK
    <3>4. QED
      BY <2>1, <3>1, <3>3 DEF FinalizeConnection
  <2>2. CASE FinalizeServer
    <3>1. UNCHANGED <<held, pending, running>>
      BY <2>2 DEF FinalizeServer
    <3>2. (Pool!TypeOK \/ ~Threaded)'
      BY <3>1 DEF Pool!TypeOK
    <3>3. QED
      BY <2>2, <3>2 DEF FinalizeServer
  <2>3. CASE FinalizeReadsFreed
    BY <2>3 DEF FinalizeReadsFreed, Pool!TypeOK
  <2>4. QED
    BY <1>6, <2>1, <2>2, <2>3
<1>7. ASSUME NEW s \in Sessions, AcceptConnection(s) PROVE Types'
  <2> DEFINE free == {g \in Fds : sock[g] = "closed"}
  <2>0. free \subseteq Nat /\ free # {}
    BY <1>7 DEF AcceptConnection
  <2>1. Min(free) \in Fds
    BY <2>0, MinIsMember
  <2>2. backlog' \in 0 .. MaxBacklog
    BY <1>7 DEF AcceptConnection
  <2>3. /\ sock' \in [Fds -> {"closed", "open", "hup"}]
        /\ unread' \subseteq Fds /\ ready_list' \subseteq Fds
    <3>1. PICK state \in {"open", "hup"}, data \in SUBSET {Min(free)} :
            /\ sock' = [sock EXCEPT ![Min(free)] = state]
            /\ unread' = unread \cup data
            /\ ready_list' = IF state = "hup" \/ data # {}
                             THEN ready_list \cup {Min(free)} ELSE ready_list
      BY <1>7 DEF AcceptConnection
    <3>2. QED
      BY <2>1, <3>1
  <2>4. fd' \in [Sessions -> Fds]
    BY <1>7, <2>1 DEF AcceptConnection
  <2>5. QED
    BY <1>7, <2>2, <2>3, <2>4 DEF AcceptConnection, Pool!TypeOK
<1>8. ASSUME NEW f \in Fds, HandleNewData(f) PROVE Types'
  <2>1. Pooled'
    BY <1>8 DEF HandleNewData, Find, Pool!Flush, Pool!TypeOK
  <2>2. mpc' \in {"dispatch", "inline"} /\ wpc' \in {wpc, "lookup"}
    BY <1>8 DEF HandleNewData
  <2>3. QED
    BY <1>8, <2>1, <2>2 DEF HandleNewData
<1>9. ASSUME NEW f \in Fds, HandleDisconnect(f) PROVE Types'
  BY <1>9 DEF HandleDisconnect, Disconnect, Find, Pool!TypeOK
<1>10. ASSUME NEW s \in Sessions, StartSession(s) PROVE Types'
  BY <1>10 DEF StartSession, Pool!Start, Pool!TypeOK
<1>11. ASSUME NEW s \in running, NotActive(s) \/ RecvFails(s) \/ Send(s) PROVE Types'
  BY <1>11 DEF NotActive, RecvFails, Send, Return, Pool!Finish, Pool!TypeOK
<1>12. ASSUME NEW s \in running,
              \/ LookupFinds(s) \/ LookupMisses(s) \/ LookupReadsFreed(s) \/ RecvData(s)
              \/ RecvEnd(s) \/ OnRecv(s) \/ OnRecvFails(s) \/ SendKills(s)
       PROVE  Types'
  BY <1>12 DEF LookupFinds, LookupMisses, LookupReadsFreed, RecvData, RecvEnd, OnRecv,
               OnRecvFails, SendKills, CloseSocket, Pool!TypeOK
<1>13. CASE UNCHANGED vars
  BY <1>13 DEF vars, Pool!TypeOK
<1>14. QED
  BY <1>1, <1>2, <1>3, <1>4, <1>5, <1>6, <1>7, <1>8, <1>9, <1>10, <1>11, <1>12, <1>13
     DEF Next, MainThread, ProcessSession

-----------------------------------------------------------------------------
(* The hash and the pool *)

LEMMA StepMatched ==
  ASSUME Inv, [Next]_vars, TypeOK'
  PROVE  HashIsMatched' /\ PoolIsMatched'
<1>0. config' = config
  BY DEF Next, vars
<1> DEFINE Matched == HashIsMatched /\ PoolIsMatched
<1> USE <1>0 DEF Inv, TypeOK, Threaded, poolVars, netVars, mainVars,
                 HashIsMatched, PoolIsMatched, Arriving
<1>1. CASE Environment
  BY <1>1 DEF Environment, Connect, HandleSigint, ClientSends, ClientCloses
<1>2. CASE PollerWait \/ IterationDone \/ AcceptFails \/ AllocationFails
  BY <1>2 DEF PollerWait, IterationDone, AcceptFails, AllocationFails
<1>3. CASE HashAdded
  BY <1>3 DEF HashAdded
<1>4. CASE PoolAdd
  <2>1. CASE Threaded
    BY <1>4, <2>1, SMTT(20) DEF PoolAdd, Pool!Add
  <2>2. CASE ~Threaded
    BY <1>4, <2>2 DEF PoolAdd
  <2>3. QED
    BY <2>1, <2>2
<1>5. CASE PoolRemove
  BY <1>5 DEF PoolRemove, Pool!Remove
<1>6. CASE FreeSession
  BY <1>6 DEF FreeSession
<1>7. CASE CloseConnection
  BY <1>7 DEF CloseConnection, HashDel
<1>8. CASE FinalizeConnection \/ FinalizeReadsFreed
  <2>1. ASSUME FinalizeConnection, ~config.on_recv_fails PROVE left' = {}
    <3>1. PICK s \in session_hash : Disconnect(fd[s]) /\ left' = (left \cup {s}) \ {cur'}
      BY <2>1 DEF FinalizeConnection
    <3>2. cur' \in session_hash /\ fd[cur'] = fd[s]
      BY <3>1 DEF Disconnect, Find
    <3>3. cur' = s
      BY <2>1, <3>2 DEF SocketsAreOwned, Owners
    <3>4. QED
      BY <2>1, <3>1, <3>3
  <2>2. QED
    BY <1>8, <2>1 DEF FinalizeConnection, FinalizeReadsFreed, Disconnect, Find
<1>9. CASE FinalizeServer
  BY <1>9 DEF FinalizeServer, AllFinalized
<1>10. ASSUME NEW s \in Sessions, AcceptConnection(s) PROVE Matched'
  BY <1>10 DEF AcceptConnection
<1>11. ASSUME NEW f \in Fds, HandleNewData(f) PROVE Matched'
  <2>1. CASE Find(f) = {} /\ UNCHANGED <<poolVars, mpc, wpc>>
    BY <1>11, <2>1 DEF HandleNewData
  <2>2. CASE Threaded /\ (\E s \in Find(f) : Pool!Flush(s)) /\ UNCHANGED <<mpc, wpc>>
    BY <1>11, <2>2 DEF HandleNewData, Find, Pool!Flush
  <2>3. ASSUME NEW s \in Find(f), ~Threaded, running' = {s}, mpc' = "inline",
               UNCHANGED <<held, pending>>
        PROVE  Matched'
    BY <1>11, <2>3 DEF HandleNewData, Find
  <2>4. QED
    BY <1>11, <2>1, <2>2, <2>3 DEF HandleNewData
<1>12. ASSUME NEW f \in Fds, HandleDisconnect(f) PROVE Matched'
  BY <1>12 DEF HandleDisconnect, Disconnect, Find
<1>13. ASSUME NEW s \in Sessions, StartSession(s) PROVE Matched'
  BY <1>13 DEF StartSession, Pool!Start
<1>14. ASSUME NEW s \in running, NotActive(s) \/ RecvFails(s) \/ Send(s),
              mpc \notin {"ended", "exited"}
       PROVE  Matched'
  BY <1>14 DEF NotActive, RecvFails, Send, Return, Pool!Finish
<1>15. ASSUME NEW s \in running,
              \/ LookupFinds(s) \/ LookupMisses(s) \/ LookupReadsFreed(s) \/ RecvData(s)
              \/ RecvEnd(s) \/ OnRecv(s) \/ OnRecvFails(s) \/ SendKills(s)
       PROVE  Matched'
  BY <1>15 DEF LookupFinds, LookupMisses, LookupReadsFreed, RecvData, RecvEnd, OnRecv,
               OnRecvFails, SendKills
<1>16. CASE UNCHANGED vars
  BY <1>16 DEF vars
<1>17. QED
  BY <1>1, <1>2, <1>3, <1>4, <1>5, <1>6, <1>7, <1>8, <1>9, <1>10, <1>11, <1>12, <1>13,
     <1>14, <1>15, <1>16
     DEF Next, MainThread, ProcessSession, Ended

-----------------------------------------------------------------------------
(* The sockets *)

\* Nothing changes who owns what.
LEMMA OwnersUnchanged ==
  ASSUME TypeOK, SocketsAreOwned, config' = config,
         mpc' # "exited" => mpc # "exited",
         Owners' = Owners, UNCHANGED <<sock, fd>>
  PROVE  SocketsAreOwned'
  BY DEF SocketsAreOwned

LEMMA StepSockets ==
  ASSUME Inv, [Next]_vars, TypeOK'
  PROVE  SocketsAreOwned'
<1>0. config' = config
  BY DEF Next, vars
<1> USE <1>0 DEF Inv, TypeOK, poolVars, netVars, mainVars
<1>1. CASE Environment
  <2>1. /\ UNCHANGED <<fd, session_hash, mpc, cur>>
        /\ \A f \in Fds : sock'[f] # "closed" <=> sock[f] # "closed"
    BY <1>1 DEF Environment, Connect, HandleSigint, ClientSends, ClientCloses
  <2>2. Owners' = Owners /\ Owners \subseteq Sessions
    BY <2>1 DEF Owners, Arriving
  <2>3. QED
    BY <2>1, <2>2 DEF SocketsAreOwned
<1>2. CASE \/ PollerWait \/ IterationDone \/ AcceptFails \/ AllocationFails \/ HashAdded \/ PoolAdd
           \/ PoolRemove \/ FreeSession \/ FinalizeConnection \/ FinalizeReadsFreed \/ FinalizeServer
  <2>1. UNCHANGED <<sock, fd>> /\ (mpc' # "exited" => mpc # "exited")
    BY <1>2 DEF PollerWait, IterationDone, AcceptFails, AllocationFails, HashAdded, PoolAdd,
                PoolRemove, FreeSession, FinalizeConnection, FinalizeReadsFreed, FinalizeServer
  <2>2. Owners' = Owners
    BY <1>2 DEF PollerWait, IterationDone, AcceptFails, AllocationFails, HashAdded, PoolAdd,
                PoolRemove, FreeSession, FinalizeConnection, FinalizeReadsFreed, FinalizeServer,
                Disconnect, Owners, Arriving
  <2>3. QED
    BY <2>1, <2>2, OwnersUnchanged
<1>3. CASE CloseConnection
  <2>1. mpc = "close" /\ session_hash' = session_hash \ {cur} /\ UNCHANGED <<fd, cur>>
    BY <1>3 DEF CloseConnection, HashDel
  <2>2. Owners = session_hash /\ Owners' = session_hash \ {cur} /\ cur \in session_hash
    BY <1>3, <2>1 DEF CloseConnection, Owners, Arriving, HashIsMatched
  <2>3. CASE sock[fd[cur]] = "closed"
    <3>1. UNCHANGED sock /\ mpc' = "exited"
      BY <1>3, <2>3 DEF CloseConnection
    <3>2. QED
      BY <2>1, <2>2, <3>1 DEF SocketsAreOwned
  <2>4. CASE sock[fd[cur]] # "closed"
    <3>1. sock' = [sock EXCEPT ![fd[cur]] = "closed"]
      BY <1>3, <2>4 DEF CloseConnection, CloseSocket
    <3>2. QED
      BY <2>1, <2>2, <3>1 DEF SocketsAreOwned
  <2>5. QED
    BY <2>3, <2>4
<1>4. ASSUME NEW s \in Sessions, AcceptConnection(s) PROVE SocketsAreOwned'
  <2> DEFINE free == {g \in Fds : sock[g] = "closed"}
             f    == Min(free)
  <2>1. free \subseteq Nat /\ free # {}
    BY <1>4, ServerAssumption DEF AcceptConnection
  <2>2. f \in Fds /\ sock[f] = "closed"
    BY <2>1, MinIsMember
  <2>3. /\ sock' = [sock EXCEPT ![f] = sock'[f]] /\ sock'[f] # "closed"
        /\ fd' = [fd EXCEPT ![s] = f]
    <3>1. PICK state \in {"open", "hup"} : sock' = [sock EXCEPT ![f] = state]
      BY <1>4 DEF AcceptConnection
    <3>2. QED
      BY <1>4, <2>2, <3>1 DEF AcceptConnection
  <2>4. /\ mpc = "dispatch" /\ mpc' = "hash_add" /\ cur' = s
        /\ session_hash' = session_hash /\ s \notin session_hash
    BY <1>4 DEF AcceptConnection, HashIsMatched, Arriving
  <2>5. Owners = session_hash /\ Owners' = session_hash \cup {s}
    BY <2>4 DEF Owners, Arriving
  <2> HIDE DEF f
  <2>6. \A r \in session_hash : r \in Sessions /\ fd'[r] = fd[r] /\ fd[r] \in Fds
    BY <2>3, <2>4
  <2>7. fd'[s] = f
    BY <2>3
  <2>8. ASSUME ~config.on_recv_fails, NEW q \in Owners'
        PROVE  /\ sock'[fd'[q]] # "closed"
               /\ \A r \in Owners' : fd'[r] = fd'[q] => r = q
    <3>1. \A r \in session_hash : fd[r] # f /\ sock[fd[r]] # "closed"
      BY <2>2, <2>5, <2>8 DEF SocketsAreOwned
    <3>2. \A r \in session_hash : sock'[fd[r]] # "closed"
      BY <2>3, <2>6, <3>1
    <3>3. QED
      BY <2>3, <2>5, <2>6, <2>7, <2>8, <3>1, <3>2 DEF SocketsAreOwned
  <2>9. ASSUME NEW g \in Fds, sock'[g] # "closed" PROVE \E r \in Owners' : fd'[r] = g
    <3>1. CASE g = f
      BY <2>5, <2>7, <3>1
    <3>2. CASE g # f
      <4>1. sock[g] # "closed"
        BY <2>3, <2>9, <3>2
      <4>2. PICK r \in session_hash : fd[r] = g
        BY <2>4, <2>5, <4>1 DEF SocketsAreOwned
      <4>3. QED
        BY <2>5, <2>6, <4>2
    <3>3. QED
      BY <3>1, <3>2
  <2>10. QED
    BY <2>8, <2>9 DEF SocketsAreOwned
<1>5. ASSUME NEW f \in Fds, HandleNewData(f) \/ HandleDisconnect(f) PROVE SocketsAreOwned'
  <2>1. /\ UNCHANGED <<sock, fd, session_hash>> /\ mpc = "dispatch"
        /\ mpc' \in {"dispatch", "inline", "pool_remove"}
    BY <1>5 DEF HandleNewData, HandleDisconnect, Disconnect
  <2>2. Owners' = Owners
    BY <2>1 DEF Owners, Arriving
  <2>3. QED
    BY <2>1, <2>2, OwnersUnchanged
<1>6. ASSUME NEW s \in Sessions, StartSession(s) PROVE SocketsAreOwned'
  <2>1. Owners' = Owners
    BY <1>6 DEF StartSession, Owners, Arriving
  <2>2. QED
    BY <1>6, <2>1, OwnersUnchanged DEF StartSession
<1>7. ASSUME NEW s \in running, NotActive(s) \/ RecvFails(s) \/ Send(s),
             mpc \notin {"ended", "exited"}
      PROVE  SocketsAreOwned'
  <2>1. /\ UNCHANGED <<sock, fd, session_hash, cur>>
        /\ mpc' = IF Threaded THEN mpc ELSE "dispatch"
        /\ ~Threaded => mpc = "inline"
    BY <1>7 DEF NotActive, RecvFails, Send, Return, PoolIsMatched
  <2>2. Owners' = Owners
    BY <2>1 DEF Owners, Arriving
  <2>3. QED
    BY <1>7, <2>1, <2>2, OwnersUnchanged
<1>8. ASSUME NEW s \in running,
             LookupFinds(s) \/ LookupMisses(s) \/ RecvData(s) \/ RecvEnd(s) \/ OnRecv(s)
      PROVE  SocketsAreOwned'
  <2>1. UNCHANGED <<sock, fd, session_hash, cur, mpc>>
    BY <1>8 DEF LookupFinds, LookupMisses, RecvData, RecvEnd, OnRecv
  <2>2. Owners' = Owners
    BY <2>1 DEF Owners, Arriving
  <2>3. QED
    BY <2>1, <2>2, OwnersUnchanged
<1>9. ASSUME NEW s \in running, OnRecvFails(s) PROVE SocketsAreOwned'
  <2>1. /\ UNCHANGED <<fd, session_hash, cur, mpc>> /\ config.on_recv_fails
        /\ sock' = [sock EXCEPT ![fd[s]] = "closed"]
    BY <1>9 DEF OnRecvFails, CloseSocket
  <2>2. Owners' = Owners
    BY <2>1 DEF Owners, Arriving
  <2>3. QED
    BY <2>1, <2>2 DEF SocketsAreOwned
<1>10. ASSUME NEW s \in running, LookupReadsFreed(s) \/ SendKills(s) PROVE SocketsAreOwned'
  <2>1. UNCHANGED <<sock, fd, session_hash, cur>> /\ mpc' = "exited"
    BY <1>10 DEF LookupReadsFreed, SendKills
  <2>2. Owners' \subseteq Owners
    BY <2>1 DEF Owners, Arriving
  <2>3. QED
    BY <2>1, <2>2 DEF SocketsAreOwned
<1>11. CASE UNCHANGED vars
  <2>1. Owners' = Owners
    BY <1>11 DEF vars, Owners, Arriving
  <2>2. QED
    BY <1>11, <2>1, OwnersUnchanged DEF vars
<1>12. QED
  BY <1>1, <1>2, <1>3, <1>4, <1>5, <1>6, <1>7, <1>8, <1>9, <1>10, <1>11
     DEF Next, MainThread, ProcessSession, Ended

-----------------------------------------------------------------------------
(* The theorems *)

LEMMA StepInv == Inv /\ [Next]_vars => Inv'
  BY StepType, StepMatched, StepSockets DEF Inv

\* The invariant is one, with or without workers and whatever callbacks do.
THEOREM InvHolds == Spec => []Inv
  BY InitInv, StepInv, PTL DEF Spec

\* No session that was freed is still held by the pool, pending or being processed
\* (server.c:109-113).
THEOREM PoolUsesLive == Spec => []NoUseAfterFree
<1>1. Inv => NoUseAfterFree
  BY DEF Inv, PoolIsMatched, NoUseAfterFree
<1>2. QED
  BY <1>1, InvHolds, PTL

\* Between two events the hash, the pool and the heap have the same sessions,
\* and in the end, unless a callback fails, none (server.c:70-124, 167-173).
THEOREM HashIsPool == Spec => []HashMatchesPool
<1>1. Inv => HashMatchesPool
  BY DEF Inv, HashIsMatched, PoolIsMatched, HashMatchesPool, Arriving
<1>2. QED
  BY <1>1, InvHolds, PTL

\* Unless a callback fails no two sessions share a socket and none has lost its
\* own, and no open connection is without a session (server.c:87, 116-123).
THEOREM SocketsHaveOwners == Spec => []SessionOwnsSocket
<1>1. Inv => SessionOwnsSocket
  BY DEF Inv, SocketsAreOwned, SessionOwnsSocket, Owners, Arriving
<1>2. QED
  BY <1>1, InvHolds, PTL

\* Unless a callback fails, no step closes a socket that a running session uses
\* (server.c:109-124).
THEOREM RunningKeepsSocket == Spec => CloseIsExclusive
<1> DEFINE Keeps == ~config.on_recv_fails =>
                      \A s \in running : sock[fd[s]] # "closed" => sock'[fd[s]] # "closed"
<1>1. Inv /\ [Next]_vars => [Keeps]_vars
  <2> SUFFICES ASSUME Inv, Next, ~config.on_recv_fails, NEW s \in running,
                      sock[fd[s]] # "closed"
               PROVE  sock'[fd[s]] # "closed"
    OBVIOUS
  <2> USE DEF Inv, TypeOK, netVars, mainVars
  <2>0. s \in Sessions /\ fd[s] \in Fds
    OBVIOUS
  <2>1. CASE CloseConnection
    <3>1. s \in live /\ running # {}
      BY DEF PoolIsMatched
    <3>2. mpc = "close" /\ cur \in session_hash /\ s \in session_hash /\ s # cur
      BY <2>1, <3>1 DEF CloseConnection, HashIsMatched, Arriving
    <3>3. fd[s] # fd[cur]
      BY <3>2 DEF SocketsAreOwned, Owners
    <3>4. QED
      BY <2>0, <2>1, <3>3 DEF CloseConnection, CloseSocket
  <2>2. ASSUME NEW r \in Sessions, AcceptConnection(r) PROVE sock'[fd[s]] # "closed"
    <3> DEFINE free == {g \in Fds : sock[g] = "closed"}
    <3>1. PICK state \in {"open", "hup"} : sock' = [sock EXCEPT ![Min(free)] = state]
      BY <2>2 DEF AcceptConnection
    <3>2. QED
      BY <2>0, <3>1
  <2>3. CASE Environment
    BY <2>0, <2>3 DEF Environment, Connect, HandleSigint, ClientSends, ClientCloses
  <2>4. CASE ~(CloseConnection \/ Environment \/ \E r \in Sessions : AcceptConnection(r))
    <3>1. UNCHANGED sock
      BY <2>4
         DEF Next, MainThread, ProcessSession, vars, PollerWait, IterationDone, AcceptFails,
             AllocationFails, HashAdded, PoolAdd, PoolRemove, FreeSession, FinalizeConnection,
             FinalizeReadsFreed, FinalizeServer, HandleNewData, HandleDisconnect, StartSession,
             LookupFinds, LookupMisses, LookupReadsFreed, NotActive, RecvData, RecvEnd,
             RecvFails, OnRecv, OnRecvFails, Send, SendKills
    <3>2. QED
      BY <3>1
  <2>5. QED
    BY <2>1, <2>2, <2>3, <2>4
<1>2. QED
  BY <1>1, InvHolds, PTL DEF Spec, CloseIsExclusive

\* What the pool asks of its caller: only a session that it does not have is
\* added, and only one that it has is flushed or removed.
CallsAreLegal ==
  /\ Threaded /\ mpc = "pool_add" => cur \notin held
  /\ Threaded /\ mpc = "pool_remove" => cur \in held
  /\ Threaded /\ mpc = "dispatch" => session_hash \subseteq held

\* The server never adds a session twice, which would give it two entries in the
\* map of the pool, and never flushes or removes one that the pool does not have,
\* which the pool would pass over in silence (server.c:90, 109, 133;
\* spool.c:175, 188, 205).
THEOREM PoolIsCalledRightly == Spec => []CallsAreLegal
<1>1. Inv => CallsAreLegal
  BY DEF Inv, HashIsMatched, PoolIsMatched, CallsAreLegal, Arriving
<1>2. QED
  BY <1>1, InvHolds, PTL

-----------------------------------------------------------------------------
(* The promise about the connections *)

\* Where callbacks succeed, who is reported as gone has gone and stays so until
\* the connection is closed, which is released for that reason or at the end.
ReportsAreTrue ==
  ~config.on_recv_fails =>
    /\ \A f \in Fds : Disconnected(f) \in events => sock[f] = "hup"
    /\ mpc \in {"pool_remove", "free", "close"} =>
         /\ sock[fd[cur]] = "hup" \/ termination_requested
         /\ Disconnected(fd[cur]) \notin events

\* The events of a batch are different, and about one descriptor each.
LEMMA EventsDiffer ==
  ASSUME NEW f \in Fds, NEW g \in Fds
  PROVE  /\ Disconnected(f) # NewConnection
         /\ Disconnected(f) # NewData(g)
         /\ Disconnected(f) = Disconnected(g) => f = g
  BY DEF Disconnected, NewConnection, NewData

LEMMA StepReports ==
  ASSUME Inv, ReportsAreTrue, [Next]_vars
  PROVE  ReportsAreTrue'
<1> SUFFICES ASSUME ~config.on_recv_fails PROVE ReportsAreTrue'
  BY DEF ReportsAreTrue, Next, vars
<1>0. /\ config' = config
      /\ fd \in [Sessions -> Fds] /\ cur \in Sessions /\ session_hash \subseteq Sessions
      /\ sock \in [Fds -> {"closed", "open", "hup"}]
      /\ \A f \in Fds : Disconnected(f) \in events => sock[f] = "hup"
  BY DEF Next, vars, Inv, TypeOK, ReportsAreTrue
<1> USE <1>0 DEF poolVars, netVars, mainVars
<1>1. CASE /\ \A f \in Fds : sock[f] = "hup" => sock'[f] = "hup"
           /\ termination_requested => termination_requested'
           /\ UNCHANGED <<fd, cur>>
           /\ events' \subseteq events
           /\ mpc' \in {"pool_remove", "free", "close"} => mpc \in {"pool_remove", "free", "close"}
  BY <1>1 DEF ReportsAreTrue
<1>2. CASE PollerWait
  <2>1. ASSUME NEW f \in Fds, Disconnected(f) \in events' PROVE sock[f] = "hup"
    <3>1. Disconnected(f) \in {Disconnected(g) : g \in ClosedPeers}
      BY <1>2, <2>1, EventsDiffer DEF PollerWait, Acceptable, Inv, TypeOK
    <3>2. \A g \in ClosedPeers : g \in Fds /\ sock[g] = "hup"
      BY DEF ClosedPeers, Inv, TypeOK
    <3>3. QED
      BY <3>1, <3>2, EventsDiffer
  <2>2. UNCHANGED sock /\ mpc' = "dispatch"
    BY <1>2 DEF PollerWait
  <2>3. QED
    BY <2>1, <2>2 DEF ReportsAreTrue
<1>3. CASE CloseConnection
  <2>1. Disconnected(fd[cur]) \notin events /\ UNCHANGED events /\ mpc' \in {"dispatch", "exited"}
    BY <1>3 DEF CloseConnection, ReportsAreTrue
  <2>2. \A f \in Fds : f # fd[cur] => sock'[f] = sock[f]
    BY <1>3 DEF CloseConnection, CloseSocket
  <2>3. QED
    BY <2>1, <2>2 DEF ReportsAreTrue
<1>4. CASE FinalizeConnection
  <2>1. events = {} /\ termination_requested /\ UNCHANGED <<events, sock, termination_requested>>
    BY <1>4 DEF FinalizeConnection, KeepsRunning, Inv, EventsAreTrue
  <2>2. QED
    BY <2>1 DEF ReportsAreTrue
<1>5. ASSUME NEW g \in Fds, HandleDisconnect(g) PROVE ReportsAreTrue'
  <2>1. /\ sock[g] = "hup" /\ events' = events \ {Disconnected(g)} /\ UNCHANGED <<sock, fd>>
        /\ mpc = "dispatch"
    BY <1>5 DEF HandleDisconnect
  <2>2. \/ mpc' = "dispatch"
        \/ cur' \in Sessions /\ fd'[cur'] = g
    BY <1>5, <2>1 DEF HandleDisconnect, Disconnect, Find
  <2>3. QED
    BY <2>1, <2>2 DEF ReportsAreTrue
<1>6. ASSUME NEW s \in Sessions, AcceptConnection(s) PROVE ReportsAreTrue'
  <2> DEFINE free == {g \in Fds : sock[g] = "closed"}
  <2>1. free \subseteq Nat /\ free # {}
    BY <1>6, ServerAssumption DEF AcceptConnection
  <2>2. Min(free) \in free
    BY <2>1, MinIsMember
  <2>3. PICK state \in {"open", "hup"} : sock' = [sock EXCEPT ![Min(free)] = state]
    BY <1>6 DEF AcceptConnection
  <2>4. events' \subseteq events /\ mpc' = "hash_add"
    BY <1>6 DEF AcceptConnection
  <2>5. \A f \in Fds : sock[f] = "hup" => sock'[f] = "hup"
    BY <2>2, <2>3
  <2>6. QED
    BY <2>4, <2>5 DEF ReportsAreTrue
<1>7. CASE Environment
  BY <1>1, <1>7 DEF Environment, Connect, HandleSigint, ClientSends, ClientCloses
<1>8. CASE \/ IterationDone \/ AcceptFails \/ AllocationFails \/ HashAdded \/ PoolAdd \/ PoolRemove
           \/ FreeSession \/ FinalizeReadsFreed \/ FinalizeServer
  BY <1>1, <1>8
     DEF IterationDone, AcceptFails, AllocationFails, HashAdded, PoolAdd, PoolRemove, FreeSession,
         FinalizeReadsFreed, FinalizeServer
<1>9. ASSUME NEW f \in Fds, HandleNewData(f) PROVE ReportsAreTrue'
  BY <1>1, <1>9 DEF HandleNewData
<1>10. ASSUME NEW s \in Sessions, StartSession(s) PROVE ReportsAreTrue'
  BY <1>1, <1>10 DEF StartSession
<1>11. CASE ProcessSession
  BY <1>1, <1>11
     DEF ProcessSession, LookupFinds, LookupMisses, LookupReadsFreed, NotActive,
         RecvData, RecvEnd, RecvFails, OnRecv, OnRecvFails, Send, SendKills, Return
<1>12. CASE UNCHANGED vars
  BY <1>1, <1>12 DEF vars
<1>13. QED
  BY <1>2, <1>3, <1>4, <1>5, <1>6, <1>7, <1>8, <1>9, <1>10, <1>11, <1>12 DEF Next, MainThread

LEMMA ReportsHold == Spec => []ReportsAreTrue
<1>1. Init => ReportsAreTrue
  BY DEF Init, ReportsAreTrue
<1>2. QED
  BY <1>1, InvHolds, StepReports, PTL DEF Spec

\* What the steps of Connections look at.
Served == {fd[s] : s \in session_hash}

LEMMA StepConnections ==
  ASSUME Inv, ReportsAreTrue, Next, ~config.on_recv_fails, ~UNCHANGED Conn!vars
  PROVE  Conn!Next
<1>0. /\ fd \in [Sessions -> Fds] /\ cur \in Sessions /\ session_hash \subseteq Sessions
      /\ sock \in [Fds -> {"closed", "open", "hup"}] /\ Served \subseteq Fds
  BY DEF Inv, TypeOK, Served
<1> USE <1>0 DEF poolVars, netVars, mainVars
<1>1. ~UNCHANGED <<sock, Served, termination_requested>>
  BY DEF Conn!vars, Served
<1>2. ASSUME UNCHANGED <<sock, fd, session_hash, termination_requested>> PROVE FALSE
  BY <1>1, <1>2 DEF Served
<1>3. ASSUME NEW s \in Sessions, AcceptConnection(s) PROVE Conn!Next
  <2> DEFINE free == {g \in Fds : sock[g] = "closed"}
  <2>1. free \subseteq Nat /\ free # {}
    BY <1>3, ServerAssumption DEF AcceptConnection
  <2>2. PICK f \in Fds : f = Min(free) /\ sock[f] = "closed"
    BY <2>1, MinIsMember
  <2>3. \E state \in {"open", "hup"} : sock' = [sock EXCEPT ![f] = state]
    BY <1>3, <2>2 DEF AcceptConnection
  <2>4. /\ fd' = [fd EXCEPT ![s] = f] /\ session_hash' = session_hash
        /\ s \notin session_hash /\ termination_requested' = termination_requested
        /\ mpc = "dispatch"
    BY <1>3, <2>2 DEF AcceptConnection, Inv, HashIsMatched, Arriving
  <2>5. Served' = Served
    BY <2>4 DEF Served
  <2>6. {g \in Fds : sock[g] # "closed"} \subseteq Served
    BY <2>4 DEF Inv, SocketsAreOwned, Owners, Arriving, Served
  <2>7. Conn!Accept(f)
    BY <2>2, <2>3, <2>4, <2>5, <2>6 DEF Conn!Accept, Served
  <2>8. QED
    BY <2>2, <2>7 DEF Conn!Next
<1>4. CASE HashAdded
  <2>1. /\ session_hash' = session_hash \cup {cur} /\ mpc = "hash_add"
        /\ UNCHANGED <<sock, fd, termination_requested>>
    BY <1>4 DEF HashAdded
  <2>2. sock[fd[cur]] # "closed"
    BY <2>1 DEF Inv, SocketsAreOwned, Owners, Arriving
  <2>3. Served' = Served \cup {fd[cur]}
    BY <2>1 DEF Served
  <2>4. fd[cur] \notin Served
    BY <1>1, <2>1, <2>3
  <2>5. \E f \in Fds : Conn!Serve(f)
    <3>1. PICK f \in Fds : f = fd[cur]
      OBVIOUS
    <3>2. Conn!Serve(f)
      BY <2>1, <2>2, <2>3, <2>4, <3>1 DEF Conn!Serve, Served
    <3>3. QED
      BY <3>2
  <2>6. QED
    BY <2>5 DEF Conn!Next
<1>5. CASE CloseConnection
  <2>1. /\ session_hash' = session_hash \ {cur} /\ mpc = "close"
        /\ UNCHANGED <<fd, termination_requested>>
    BY <1>5 DEF CloseConnection, HashDel
  <2>2. cur \in session_hash
    BY <2>1 DEF Inv, HashIsMatched, Arriving
  <2>3. /\ sock[fd[cur]] # "closed"
        /\ \A r \in session_hash : fd[r] = fd[cur] => r = cur
    BY <2>2 DEF Inv, SocketsAreOwned, Owners
  <2>4. sock' = [sock EXCEPT ![fd[cur]] = "closed"]
    BY <1>5, <2>3 DEF CloseConnection, CloseSocket
  <2>5. Served' = Served \ {fd[cur]} /\ fd[cur] \in Served
    BY <2>1, <2>2, <2>3 DEF Served
  <2>6. sock[fd[cur]] = "hup" \/ termination_requested
    BY <2>1 DEF ReportsAreTrue
  <2>7. \E f \in Fds : Conn!Release(f)
    <3>1. PICK f \in Fds : f = fd[cur]
      OBVIOUS
    <3>2. Conn!Release(f)
      BY <2>1, <2>3, <2>4, <2>5, <2>6, <3>1 DEF Conn!Release, Served
    <3>3. QED
      BY <3>2
  <2>8. QED
    BY <2>7, Zenon DEF Conn!Next
<1>6. ASSUME NEW f \in Fds, ClientCloses(f) PROVE Conn!Next
  <2>1. Conn!Leave(f)
    BY <1>6 DEF ClientCloses, Conn!Leave
  <2>2. QED
    BY <2>1 DEF Conn!Next
<1>7. CASE HandleSigint
  <2>1. Conn!Terminate
    BY <1>7 DEF HandleSigint, Conn!Terminate
  <2>2. QED
    BY <2>1 DEF Conn!Next
<1>8. ASSUME NEW f \in Fds, Connect \/ ClientSends(f) PROVE FALSE
  BY <1>2, <1>8 DEF Connect, ClientSends
<1>9. CASE \/ PollerWait \/ IterationDone \/ AcceptFails \/ AllocationFails \/ PoolAdd \/ PoolRemove
           \/ FreeSession \/ FinalizeConnection \/ FinalizeReadsFreed \/ FinalizeServer
  BY <1>2, <1>9
     DEF PollerWait, IterationDone, AcceptFails, AllocationFails, PoolAdd, PoolRemove, FreeSession,
         FinalizeConnection, FinalizeReadsFreed, FinalizeServer
<1>10. ASSUME NEW f \in Fds, HandleNewData(f) \/ HandleDisconnect(f) PROVE FALSE
  BY <1>2, <1>10 DEF HandleNewData, HandleDisconnect
<1>11. ASSUME NEW s \in Sessions, StartSession(s) PROVE FALSE
  BY <1>2, <1>11 DEF StartSession
<1>12. CASE ProcessSession
  BY <1>2, <1>12
     DEF ProcessSession, LookupFinds, LookupMisses, LookupReadsFreed, NotActive,
         RecvData, RecvEnd, RecvFails, OnRecv, OnRecvFails, Send, SendKills, Return
<1>13. CASE UNCHANGED vars
  BY <1>2, <1>13 DEF vars
<1>14. QED
  BY <1>3, <1>4, <1>5, <1>6, <1>7, <1>8, <1>9, <1>10, <1>11, <1>12, <1>13, ServerAssumption
     DEF Next, Environment, MainThread

\* Where callbacks succeed, every step of the server is a step of Connections or
\* leaves it alone: a connection is closed with its session, and only when its
\* client has left or the server terminates (server.c:81-171).
THEOREM ServesConnections == Spec => ConnectionPromise
<1>1. Inv /\ ReportsAreTrue /\ [Next]_vars => [~config.on_recv_fails => Conn!Next]_(Conn!vars)
  <2> SUFFICES ASSUME Inv, ReportsAreTrue, [Next]_vars, ~config.on_recv_fails, ~UNCHANGED Conn!vars
               PROVE  Conn!Next
    OBVIOUS
  <2>1. CASE UNCHANGED vars
    BY <2>1 DEF vars, netVars, mainVars, Conn!vars
  <2>2. QED
    BY <2>1, StepConnections
<1>2. QED
  BY <1>1, InvHolds, ReportsHold, PTL DEF Spec, ConnectionPromise
=============================================================================
