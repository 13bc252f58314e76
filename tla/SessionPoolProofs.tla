------------------------- MODULE SessionPoolProofs -------------------------
(***************************************************************************)
(* Proofs about the session pool, for any number of workers and any set of *)
(* sessions. Inv is inductive; everything else follows from it.            *)
(***************************************************************************)
EXTENDS SessionPool, FiniteSetTheorems, TLAPS

LEMMA InitInv == Init => Inv
  BY PoolAssumption DEF Init, Inv, TypeOK, Threads, Mapped, WorkerLabels,
     MainLabels, NoLostWakeup, NoSleepThroughWake, StopReachesThread,
     WorkIsExclusive

LEMMA StepInv == Inv /\ [Next]_vars => Inv'
<1> SUFFICES ASSUME Inv, [Next]_vars PROVE Inv'
  OBVIOUS
<1> USE PoolAssumption DEF Inv, TypeOK, Threads, Mapped, WorkerLabels,
     MainLabels, NoLostWakeup, NoSleepThroughWake, StopReachesThread,
     WorkIsExclusive, workerVars, mainVars
<1>1. CASE CreateThread
  BY <1>1 DEF CreateThread, NextIndex
<1>2. CASE CreateThreadFails
  BY <1>2 DEF CreateThreadFails
<1>3. ASSUME NEW s \in Sessions, AddSession(s) PROVE Inv'
  BY <1>3 DEF AddSession
<1>4. ASSUME NEW s \in Sessions, FlushMark(s) PROVE Inv'
  BY <1>4 DEF FlushMark
<1>5. CASE FlushWake
  <2> DEFINE t == session_thread_map[cur]
  <2>1. t \in Threads /\ mpc = "flush" /\ t \notin ctx_mutex
    BY <1>5 DEF FlushWake
  <2>2. pc' = IF pc[t] = "asleep" THEN [pc EXCEPT ![t] = "relock"] ELSE pc
    BY <1>5 DEF FlushWake, RaiseFlag, Signal
  <2>3. /\ should_wake' = should_wake \cup {t}
        /\ mpc' = "idle" /\ cur' = NoSession
        /\ UNCHANGED <<session_thread_map, ready, session_threads_mutex,
                       thread_running, ctx_mutex, sessions, working, i>>
    BY <1>5 DEF FlushWake, RaiseFlag
  <2>4. \A s \in ready : cur = s => session_thread_map[s] = t
    OBVIOUS
  <2> HIDE DEF t
  <2>5. QED
    BY <2>1, <2>2, <2>3, <2>4
<1>6. ASSUME NEW s \in Sessions, RemoveLock(s) PROVE Inv'
  BY <1>6 DEF RemoveLock, LockPool
<1>7. CASE RemoveUnlink
  BY <1>7 DEF RemoveUnlink
<1>8. CASE DestroyLock
  BY <1>8 DEF DestroyLock, LockPool
<1>9. CASE StopThread
  BY <1>9 DEF StopThread, RaiseFlag, NextIndex
<1>10. CASE SignalThread
  BY <1>10 DEF SignalThread, Signal
<1>11. CASE JoinThread
  BY <1>11 DEF JoinThread, HasExited, NextIndex
<1>12. ASSUME NEW t \in Threads, CheckRunning(t) PROVE Inv'
  BY <1>12 DEF CheckRunning, KeepsRunning
<1>13. ASSUME NEW t \in Threads, LockCtx(t) PROVE Inv'
  BY <1>13 DEF LockCtx
<1>14. ASSUME NEW t \in Threads, Sleep(t) PROVE Inv'
  BY <1>14 DEF Sleep
<1>15. ASSUME NEW t \in Threads, SpuriousWakeup(t) PROVE Inv'
  BY <1>15 DEF SpuriousWakeup
<1>16. ASSUME NEW t \in Threads, ConsumeWake(t) PROVE Inv'
  BY <1>16 DEF ConsumeWake
<1>17. ASSUME NEW t \in Threads, CollectReady(t) PROVE Inv'
  BY <1>17 DEF CollectReady, LockPool
<1>18. ASSUME NEW t \in Threads, NEW s \in Sessions, ProcessSession(t, s)
       PROVE Inv'
  BY <1>18 DEF ProcessSession
<1>19. ASSUME NEW t \in Threads, UnlockPool(t) PROVE Inv'
  BY <1>19 DEF UnlockPool
<1>20. ASSUME NEW t \in Threads, SessionProcessed(t) PROVE Inv'
  BY <1>20 DEF SessionProcessed
<1>21. CASE UNCHANGED vars
  BY <1>21 DEF vars
<1>. QED
  BY <1>1, <1>2, <1>3, <1>4, <1>5, <1>6, <1>7, <1>8, <1>9, <1>10, <1>11,
     <1>12, <1>13, <1>14, <1>15, <1>16, <1>17, <1>18, <1>19, <1>20,
     <1>21
     DEF Next, SpoolStart, SpoolCall, ThreadFunction

\* Inv holds throughout every behaviour of the pool.
THEOREM InvHolds == Spec => []Inv
  BY InitInv, StepInv, PTL DEF Spec

\* Every variable of the pool keeps its type.
THEOREM TypeCorrect == Spec => []TypeOK
<1>1. Inv => TypeOK
  BY DEF Inv
<1>2. QED
  BY <1>1, InvHolds, PTL

\* No flush is lost on the way to the worker (lines 44-60 and 204-213).
THEOREM WakeupsAreKept == Spec => []NoLostWakeup
<1>1. Inv => NoLostWakeup
  BY DEF Inv
<1>2. QED
  BY <1>1, InvHolds, PTL

\* No worker sleeps through its wake flag, nor blocks after it was told to
\* stop (lines 47-51 and 113-130).
THEOREM SleepersAreWoken == Spec => [](NoSleepThroughWake /\ StopReachesThread)
<1>1. Inv => NoSleepThroughWake /\ StopReachesThread
  BY DEF Inv
<1>2. QED
  BY <1>1, InvHolds, PTL

\* A session is worked on by its own worker alone, under the pool mutex, and
\* cannot be removed meanwhile (lines 53-71 and 182-198).
THEOREM WorkExcludes == Spec => []WorkIsExclusive
<1>1. Inv => WorkIsExclusive
  BY DEF Inv
<1>2. QED
  BY <1>1, InvHolds, PTL

\* spool_destroy frees the pool only when nothing uses it (lines 108-141).
THEOREM DestroyIsClean == Spec => []DestroyedIsQuiet
<1>1. Inv => DestroyedIsQuiet
  BY PoolAssumption DEF Inv, TypeOK, DestroyedIsQuiet, Mapped
<1>2. QED
  BY <1>1, InvHolds, PTL

-----------------------------------------------------------------------------
(* The pool implements TaskPool *)

LEMMA InitPromise == Init => TP!Init
  BY PoolAssumption DEF Init, TP!Init, Mapped, Pending, Running

LEMMA StepPromise == Inv /\ [Next]_vars => [TP!Next]_(TP!vars)
<1> SUFFICES ASSUME Inv, [Next]_vars PROVE [TP!Next]_(TP!vars)
  OBVIOUS
<1> USE PoolAssumption
    DEF Inv, TypeOK, Mapped, Pending, Running, WorkIsExclusive
<1>1. ASSUME \A t \in Threads : pc[t] # "work"
      PROVE  Running = {} /\ \A t \in Threads : sessions[t] = {}
  BY <1>1
<1>2. ASSUME NEW s \in Sessions, AddSession(s) PROVE TP!Add(s)
  BY <1>1, <1>2 DEF AddSession, TP!Add, workerVars, mainVars
<1>3. ASSUME NEW s \in Sessions, FlushMark(s) PROVE TP!Flush(s)
  BY <1>1, <1>3 DEF FlushMark, TP!Flush, workerVars
<1>4. ASSUME RemoveUnlink PROVE cur \in Sessions /\ TP!Remove(cur)
  <2>1. cur \in Sessions /\ cur \in Mapped
    BY <1>4 DEF RemoveUnlink
  <2>2. Running = {} /\ \A t \in Threads : sessions[t] = {}
    BY <1>1, <1>4 DEF RemoveUnlink
  <2>3. QED
    BY <1>4, <2>1, <2>2 DEF RemoveUnlink, TP!Remove, workerVars
<1>5. ASSUME NEW t \in Threads, NEW s \in Sessions, ProcessSession(t, s)
      PROVE  TP!Start(s)
  <2>1. \A u \in Threads : u # t => sessions[u] = {} /\ working[u] = NoSession
    BY <1>5 DEF ProcessSession
  <2>2. Running = {} /\ s \in Pending /\ s \notin ready
    BY <1>5, <2>1 DEF ProcessSession
  <2>3. Pending' = Pending \ {s}
    BY <1>5, <2>1, <2>2 DEF ProcessSession
  <2>4. Running' = {s}
    BY <1>5, <2>1 DEF ProcessSession
  <2>5. QED
    BY <1>5, <2>2, <2>3, <2>4 DEF ProcessSession, TP!Start
<1>6. ASSUME NEW t \in Threads, SessionProcessed(t) PROVE TP!Finish
  <2>1. \A u \in Threads : u # t => working[u] = NoSession
    BY <1>6 DEF SessionProcessed
  <2>2. Running = {working[t]} /\ Running' = {}
    BY <1>6, <2>1 DEF SessionProcessed
  <2>3. QED
    BY <1>6, <2>2 DEF SessionProcessed, TP!Finish
<1>7. ASSUME NEW t \in Threads, CollectReady(t)
      PROVE  UNCHANGED <<Mapped, Pending, Running>>
  <2>1. sessions[t] = {}
    BY <1>7 DEF CollectReady, LockPool
  <2>2. Pending' = Pending
    BY <1>7, <2>1 DEF CollectReady
  <2>3. QED
    BY <1>7, <2>2 DEF CollectReady
<1>8. ASSUME UNCHANGED <<session_thread_map, ready, sessions, working>>
      PROVE  UNCHANGED <<Mapped, Pending, Running>>
  BY <1>8
<1>9. ASSUME NEW s \in Sessions, RemoveLock(s)
      PROVE  UNCHANGED <<session_thread_map, ready, sessions, working>>
  BY <1>9 DEF RemoveLock, workerVars
<1>10. CASE \/ CreateThread \/ CreateThreadFails \/ FlushWake \/ DestroyLock
            \/ StopThread \/ SignalThread \/ JoinThread
  <2>1. UNCHANGED <<session_thread_map, ready, sessions, working>>
    BY <1>10 DEF CreateThread, CreateThreadFails, FlushWake, DestroyLock,
       StopThread, SignalThread, JoinThread, workerVars
  <2>2. QED
    BY <1>8, <2>1 DEF TP!vars
<1>11. ASSUME NEW t \in Threads,
              \/ CheckRunning(t) \/ LockCtx(t) \/ Sleep(t)
              \/ SpuriousWakeup(t) \/ ConsumeWake(t) \/ UnlockPool(t)
       PROVE  UNCHANGED <<session_thread_map, ready, sessions, working>>
  BY <1>11 DEF CheckRunning, LockCtx, Sleep, SpuriousWakeup, ConsumeWake,
     UnlockPool
<1>12. CASE UNCHANGED vars
  BY <1>8, <1>12 DEF vars, TP!vars
<1> HIDE DEF Inv, TypeOK, Mapped, Pending, Running, WorkIsExclusive
<1>13. ASSUME NEW t \in Threads, ThreadFunction(t) \/ SpuriousWakeup(t)
       PROVE  [TP!Next]_(TP!vars)
  BY <1>5, <1>6, <1>7, <1>8, <1>11, <1>13 DEF ThreadFunction, TP!Next, TP!vars
<1>14. ASSUME SpoolStart PROVE [TP!Next]_(TP!vars)
  BY <1>2, <1>3, <1>8, <1>9, <1>10, <1>14 DEF SpoolStart, TP!Next, TP!vars
<1>15. ASSUME SpoolCall PROVE [TP!Next]_(TP!vars)
  BY <1>4, <1>10, <1>15 DEF SpoolCall, TP!Next
<1>16. QED
  BY <1>12, <1>13, <1>14, <1>15 DEF Next

\* The pool of spool.c keeps the promise of TaskPool: a flushed session stays
\* pending until it is processed once, one session is processed at a time, and
\* none is added, flushed or removed meanwhile.
THEOREM PoolImplementsTaskPool == Spec => PoolPromise
  BY InitPromise, StepPromise, InvHolds, PTL DEF Spec, PoolPromise, TP!Spec

-----------------------------------------------------------------------------
(* Balance *)

\* The load of a worker is a natural number.
LEMMA LoadType == \A t \in Threads : Load(t) \in Nat
  BY PoolAssumption, FS_Subset, FS_CardinalityType DEF Load

\* Attaching a session adds one to the load of its worker and leaves the other
\* loads alone.
LEMMA AddLoad ==
  ASSUME TypeOK, NEW s \in Sessions \ Mapped, NEW t \in Threads,
         session_thread_map' = [session_thread_map EXCEPT ![s] = t],
         NEW u \in Threads
  PROVE  Load(u)' = IF u = t THEN Load(u) + 1 ELSE Load(u)
<1> DEFINE On == {x \in Sessions : session_thread_map[x] = u}
<1>1. IsFiniteSet(On)
  BY PoolAssumption, FS_Subset
<1>2. s \notin On
  BY PoolAssumption DEF Mapped
<1>3. {x \in Sessions : session_thread_map'[x] = u} = IF u = t THEN On \cup {s} ELSE On
  BY PoolAssumption DEF TypeOK, Mapped
<1>4. Load(u)' = Cardinality(IF u = t THEN On \cup {s} ELSE On)
  BY <1>3 DEF Load
<1>5. Cardinality(On \cup {s}) = Cardinality(On) + 1
  BY <1>1, <1>2, FS_AddElement
<1>6. QED
  BY <1>4, <1>5 DEF Load

\* Where attaching a session keeps the loads within k, for every k above zero.
LEMMA StepBalance ==
  Inv /\ [Next]_vars =>
    [Mapped \subseteq Mapped' =>
       \A k \in 1 .. Cardinality(Sessions) : Within(k) => Within(k)']_vars
<1> SUFFICES ASSUME Inv, Next, Mapped \subseteq Mapped',
                    NEW k \in 1 .. Cardinality(Sessions), Within(k)
             PROVE  Within(k)'
  BY DEF vars, Within, Load, Mapped
<1>1. ASSUME NEW s \in Sessions, AddSession(s) PROVE Within(k)'
  <2>1. PICK t \in Threads :
          /\ IsLeastPopulated(t)
          /\ session_thread_map' = [session_thread_map EXCEPT ![s] = t]
    BY <1>1 DEF AddSession
  <2>2. \A u \in Threads : Load(u)' = IF u = t THEN Load(u) + 1 ELSE Load(u)
    BY <1>1, <2>1, AddLoad DEF AddSession, Inv
  <2>3. k \in Nat /\ k >= 1 /\ \A u \in Threads : Load(t) <= Load(u)
    BY <2>1, LoadType, PoolAssumption, FS_CardinalityType DEF IsLeastPopulated
  <2>4. \A u, v \in Threads : Load(u)' <= Load(v)' + k
    BY <2>2, <2>3, LoadType DEF Within
  <2>5. QED
    BY <2>4 DEF Within
<1>2. CASE session_thread_map' = session_thread_map
  BY <1>2 DEF Within, Load
<1>3. ~RemoveUnlink
  BY PoolAssumption DEF RemoveUnlink, Inv, TypeOK, Mapped
<1>4. ASSUME NEW t \in Threads, ThreadFunction(t) \/ SpuriousWakeup(t)
      PROVE  session_thread_map' = session_thread_map
  BY <1>4 DEF ThreadFunction, CheckRunning, LockCtx, Sleep, SpuriousWakeup,
     ConsumeWake, CollectReady, ProcessSession, SessionProcessed, UnlockPool
<1>5. ASSUME SpoolCall PROVE session_thread_map' = session_thread_map
  BY <1>3, <1>5 DEF SpoolCall, CreateThread, CreateThreadFails, FlushWake, RaiseFlag,
     StopThread, SignalThread, JoinThread
<1>6. ASSUME NEW s \in Sessions, FlushMark(s) \/ RemoveLock(s)
      PROVE  session_thread_map' = session_thread_map
  BY <1>6 DEF FlushMark, RemoveLock
<1>7. QED
  BY <1>1, <1>2, <1>4, <1>5, <1>6
     DEF Next, SpoolStart, DestroyLock, vars

\* spool_add_session (lines 143-174) never drives the loads of two workers
\* further apart than they were, or than one session.
THEOREM BalanceIsKept == Spec => AddKeepsBalance
  BY InvHolds, StepBalance, PTL DEF Spec, AddKeepsBalance
=============================================================================
