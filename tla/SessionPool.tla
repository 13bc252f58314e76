---------------------------- MODULE SessionPool ----------------------------
(***************************************************************************)
(* The session pool of src/server/spool/spool.c with at least one worker:  *)
(* the server's main thread creates the pool, attaches, flushes and        *)
(* removes sessions and destroys the pool; NThreads workers sleep on a     *)
(* condition variable each, collect the ready sessions attached to them    *)
(* under the pool mutex and process them while they still hold it.         *)
(*                                                                         *)
(* Grain: a critical section that waits for nothing inside is one step,    *)
(* taken when its mutex is free. A mutex held across steps, or while       *)
(* another one is awaited, is a variable.                                  *)
(***************************************************************************)
EXTENDS Naturals, FiniteSets

CONSTANTS
  NThreads,         \* n_threads, not SINGLE_THREADED
  Sessions,         \* the addresses a Session may have
  NoThread,         \* thread of a session that has no SessionThread entry
  NoSession,        \* no spool call is working on a session
  Main,             \* the main thread, as the owner of the pool mutex
  NoOne             \* the owner of a free mutex

Threads == 0 .. NThreads - 1

ASSUME PoolAssumption ==
  /\ NThreads \in Nat \ {0}
  /\ IsFiniteSet(Sessions)
  /\ NoThread \notin Threads
  /\ NoSession \notin Sessions
  /\ Main \notin Threads
  /\ NoOne \notin Threads
  /\ Main # NoOne

VARIABLES
  session_thread_map,     \* thread_n of every session, or NoThread
  ready,                  \* the sessions whose entry has ready = true
  session_threads_mutex,  \* the owner of the pool mutex
  should_wake,            \* the threads whose should_wake is true
  thread_running,         \* the threads whose thread_running is true
  ctx_mutex,              \* the threads that hold their own ctx->mutex
  sessions,               \* what is left of the local list of every worker
  working,                \* the session every worker is processing
  pc,                     \* where every worker is in thread_function
  mpc,                    \* the spool call the main thread is in
  cur,                    \* the session argument of that call
  i                       \* the loop index of that call

mainVars   == <<mpc, cur, i>>
workerVars == <<pc, sessions, working>>
vars == <<session_thread_map, ready, session_threads_mutex, should_wake,
          thread_running, ctx_mutex, sessions, working, pc, mpc, cur, i>>

WorkerLabels == {"unborn", "check", "lock", "test", "asleep", "relock",
                 "pool", "work", "exit"}
MainLabels   == {"create", "idle", "flush", "remove", "stop", "signal",
                 "join", "destroyed", "exited"}

Mapped == {s \in Sessions : session_thread_map[s] # NoThread}
Load(t) == Cardinality({s \in Sessions : session_thread_map[s] = t})

Init ==
  /\ session_thread_map = [s \in Sessions |-> NoThread]
  /\ ready = {}
  /\ session_threads_mutex = NoOne
  /\ should_wake = {}
  /\ thread_running = {}
  /\ ctx_mutex = {}
  /\ sessions = [t \in Threads |-> {}]
  /\ working = [t \in Threads |-> NoSession]
  /\ pc = [t \in Threads |-> "unborn"]
  /\ mpc = "create"
  /\ cur = NoSession
  /\ i = 0

-----------------------------------------------------------------------------
\* Mutant of LockPool: the mutex is not kept.
LockPoolAndUnlock(owner) ==
  session_threads_mutex = NoOne /\ UNCHANGED session_threads_mutex

\* pthread_mutex_lock on a mutex that is held across steps.
LockPool(owner) ==
  session_threads_mutex = NoOne /\ session_threads_mutex' = owner

-----------------------------------------------------------------------------
(* spool_create *)

\* The end of an iteration of a loop over the threads: the next index, or
\* the label that follows the loop.
NextIndex(loop, after) ==
  IF i = NThreads - 1
    THEN /\ i' = 0
         /\ mpc' = after
    ELSE /\ i' = i + 1
         /\ mpc' = loop

CreateThread ==
  /\ mpc = "create"
  /\ thread_running' = thread_running \cup {i}
  /\ should_wake' = should_wake \ {i}
  /\ pc' = [pc EXCEPT ![i] = "check"]
  /\ NextIndex("create", "idle")
  /\ UNCHANGED <<session_thread_map, ready, session_threads_mutex, ctx_mutex,
                 sessions, working, cur>>

\* pthread_create fails and FATAL_NON_RECOVERABLE ends the process.
CreateThreadFails ==
  /\ mpc = "create"
  /\ mpc' = "exited"
  /\ UNCHANGED <<session_thread_map, ready, session_threads_mutex,
                 should_wake, thread_running, ctx_mutex, workerVars, cur, i>>

-----------------------------------------------------------------------------
(* spool_add_session *)

\* Mutant of IsLeastPopulated: the comparison is the wrong way round.
IsMostPopulated(t) == \A u \in Threads : Load(t) >= Load(u)

\* cpool_least_populated_thread: the first of the threads with the fewest
\* sessions.
IsLeastPopulated(t) ==
  \A u \in Threads : Load(t) < Load(u) \/ (Load(t) = Load(u) /\ t <= u)

AddSession(s) ==
  /\ mpc = "idle"
  /\ s \notin Mapped
  /\ session_threads_mutex = NoOne
  /\ \E t \in Threads :
       /\ IsLeastPopulated(t)
       /\ session_thread_map' = [session_thread_map EXCEPT ![s] = t]
  /\ ready' = ready \ {s}
  /\ UNCHANGED <<session_threads_mutex, should_wake, thread_running,
                 ctx_mutex, workerVars, mainVars>>

-----------------------------------------------------------------------------
(* spool_flush_session *)

\* Mutant of Signal: nobody is woken.
SignalNobody(t) == pc

\* pthread_cond_signal on the condition of thread t, on which only worker t
\* ever waits.
Signal(t) == IF pc[t] = "asleep" THEN [pc EXCEPT ![t] = "relock"] ELSE pc

\* Mutant of RaiseFlag: the flag is not raised.
RaiseFlagForgets(t) == should_wake

RaiseFlag(t) == should_wake \cup {t}

FlushMark(s) ==
  /\ mpc = "idle"
  /\ s \in Mapped
  /\ session_threads_mutex = NoOne
  /\ ready' = ready \cup {s}
  /\ mpc' = "flush"
  /\ cur' = s
  /\ UNCHANGED <<session_thread_map, session_threads_mutex, should_wake,
                 thread_running, ctx_mutex, workerVars, i>>

FlushWake ==
  /\ mpc = "flush"
  /\ session_thread_map[cur] \notin ctx_mutex
  /\ should_wake' = RaiseFlag(session_thread_map[cur])
  /\ pc' = Signal(session_thread_map[cur])
  /\ mpc' = "idle"
  /\ cur' = NoSession
  /\ UNCHANGED <<session_thread_map, ready, session_threads_mutex,
                 thread_running, ctx_mutex, sessions, working, i>>

-----------------------------------------------------------------------------
(* spool_remove_session *)

RemoveLock(s) ==
  /\ mpc = "idle"
  /\ s \in Mapped
  /\ LockPool(Main)
  /\ mpc' = "remove"
  /\ cur' = s
  /\ UNCHANGED <<session_thread_map, ready, should_wake, thread_running,
                 ctx_mutex, workerVars, i>>

\* Takes the mutex of the session's thread while it holds the pool mutex.
RemoveUnlink ==
  /\ mpc = "remove"
  /\ session_thread_map[cur] \notin ctx_mutex
  /\ session_thread_map' = [session_thread_map EXCEPT ![cur] = NoThread]
  /\ ready' = ready \ {cur}
  /\ session_threads_mutex' = NoOne
  /\ mpc' = "idle"
  /\ cur' = NoSession
  /\ UNCHANGED <<should_wake, thread_running, ctx_mutex, workerVars, i>>

-----------------------------------------------------------------------------
(* spool_destroy, which server_finalize calls once every session is gone *)

DestroyLock ==
  /\ mpc = "idle"
  /\ Mapped = {}
  /\ LockPool(Main)
  /\ mpc' = "stop"
  /\ UNCHANGED <<session_thread_map, ready, should_wake, thread_running,
                 ctx_mutex, workerVars, cur, i>>

StopThread ==
  /\ mpc = "stop"
  /\ i \notin ctx_mutex
  /\ thread_running' = thread_running \ {i}
  /\ should_wake' = RaiseFlag(i)
  /\ NextIndex("stop", "signal")
  /\ session_threads_mutex' = IF i = NThreads - 1 THEN NoOne ELSE Main
  /\ UNCHANGED <<session_thread_map, ready, ctx_mutex, workerVars, cur>>

SignalThread ==
  /\ mpc = "signal"
  /\ i \notin ctx_mutex
  /\ pc' = Signal(i)
  /\ mpc' = "join"
  /\ UNCHANGED <<session_thread_map, ready, session_threads_mutex,
                 should_wake, thread_running, ctx_mutex, sessions, working,
                 cur, i>>

\* Mutant of HasExited: the thread is detached, not joined.
HasExitedAssumed(t) == TRUE

HasExited(t) == pc[t] = "exit"

JoinThread ==
  /\ mpc = "join"
  /\ HasExited(i)
  /\ NextIndex("signal", "destroyed")
  /\ UNCHANGED <<session_thread_map, ready, session_threads_mutex,
                 should_wake, thread_running, ctx_mutex, workerVars, cur>>

-----------------------------------------------------------------------------
(* thread_function *)

KeepsRunning(t) == t \in thread_running

\* The loop condition reads thread_running without a mutex.
CheckRunning(t) ==
  /\ pc[t] = "check"
  /\ pc' = [pc EXCEPT ![t] = IF KeepsRunning(t) THEN "lock" ELSE "exit"]
  /\ UNCHANGED <<session_thread_map, ready, session_threads_mutex,
                 should_wake, thread_running, ctx_mutex, sessions, working,
                 mainVars>>

\* pthread_mutex_lock, or the way out of pthread_cond_wait.
LockCtx(t) ==
  /\ pc[t] \in {"lock", "relock"}
  /\ t \notin ctx_mutex
  /\ ctx_mutex' = ctx_mutex \cup {t}
  /\ pc' = [pc EXCEPT ![t] = "test"]
  /\ UNCHANGED <<session_thread_map, ready, session_threads_mutex,
                 should_wake, thread_running, sessions, working, mainVars>>

Sleep(t) ==
  /\ pc[t] = "test"
  /\ t \notin should_wake
  /\ ctx_mutex' = ctx_mutex \ {t}
  /\ pc' = [pc EXCEPT ![t] = "asleep"]
  /\ UNCHANGED <<session_thread_map, ready, session_threads_mutex,
                 should_wake, thread_running, sessions, working, mainVars>>

SpuriousWakeup(t) ==
  /\ pc[t] = "asleep"
  /\ pc' = [pc EXCEPT ![t] = "relock"]
  /\ UNCHANGED <<session_thread_map, ready, session_threads_mutex,
                 should_wake, thread_running, ctx_mutex, sessions, working,
                 mainVars>>

ConsumeWake(t) ==
  /\ pc[t] = "test"
  /\ t \in should_wake
  /\ should_wake' = should_wake \ {t}
  /\ ctx_mutex' = ctx_mutex \ {t}
  /\ pc' = [pc EXCEPT ![t] = "pool"]
  /\ UNCHANGED <<session_thread_map, ready, session_threads_mutex,
                 thread_running, sessions, working, mainVars>>

\* Locks the pool and lists the ready sessions attached to the thread.
CollectReady(t) ==
  /\ pc[t] = "pool"
  /\ LockPool(t)
  /\ LET mine == {s \in ready : session_thread_map[s] = t}
     IN  /\ sessions' = [sessions EXCEPT ![t] = mine]
         /\ ready' = ready \ mine
  /\ pc' = [pc EXCEPT ![t] = "work"]
  /\ UNCHANGED <<session_thread_map, should_wake, thread_running, ctx_mutex,
                 working, mainVars>>

\* Calls server_process_session, with the pool mutex held; the list is walked
\* in the order sessions were attached, here in any order.
ProcessSession(t, s) ==
  /\ pc[t] = "work"
  /\ working[t] = NoSession
  /\ s \in sessions[t]
  /\ sessions' = [sessions EXCEPT ![t] = @ \ {s}]
  /\ working' = [working EXCEPT ![t] = s]
  /\ UNCHANGED <<session_thread_map, ready, session_threads_mutex,
                 should_wake, thread_running, ctx_mutex, pc, mainVars>>

\* server_process_session returns.
SessionProcessed(t) ==
  /\ working[t] # NoSession
  /\ working' = [working EXCEPT ![t] = NoSession]
  /\ UNCHANGED <<session_thread_map, ready, session_threads_mutex,
                 should_wake, thread_running, ctx_mutex, sessions, pc,
                 mainVars>>

UnlockPool(t) ==
  /\ pc[t] = "work"
  /\ sessions[t] = {}
  /\ working[t] = NoSession
  /\ session_threads_mutex' = NoOne
  /\ pc' = [pc EXCEPT ![t] = "check"]
  /\ UNCHANGED <<session_thread_map, ready, should_wake, thread_running,
                 ctx_mutex, sessions, working, mainVars>>

-----------------------------------------------------------------------------
\* The steps of a spool call the main thread is in; where it starts a call is
\* up to the clients.
SpoolCall ==
  \/ CreateThread \/ CreateThreadFails
  \/ FlushWake \/ RemoveUnlink
  \/ StopThread \/ SignalThread \/ JoinThread

SpoolStart ==
  \/ \E s \in Sessions : AddSession(s) \/ FlushMark(s) \/ RemoveLock(s)
  \/ DestroyLock

ThreadFunction(t) ==
  \/ CheckRunning(t) \/ LockCtx(t) \/ Sleep(t) \/ ConsumeWake(t)
  \/ CollectReady(t) \/ SessionProcessed(t) \/ UnlockPool(t)
  \/ \E s \in Sessions : ProcessSession(t, s)

Ended == mpc \in {"destroyed", "exited"}

Next ==
  \/ /\ mpc # "exited"
     /\ \/ SpoolStart
        \/ SpoolCall
        \/ \E t \in Threads : ThreadFunction(t) \/ SpuriousWakeup(t)
  \/ Ended /\ UNCHANGED vars

Spec == Init /\ [][Next]_vars

\* A thread that can take its next step takes it in the end; and the main
\* thread gets a mutex that is free again and again, although a worker that
\* wakes up for no reason takes it as often.
Fairness ==
  /\ SF_vars(mpc # "exited" /\ SpoolCall)
  /\ \A t \in Threads : WF_vars(mpc # "exited" /\ ThreadFunction(t))

FairSpec == Spec /\ Fairness

-----------------------------------------------------------------------------
(* Properties *)

TypeOK ==
  /\ session_thread_map \in [Sessions -> Threads \cup {NoThread}]
  /\ ready \in SUBSET Sessions
  /\ session_threads_mutex \in Threads \cup {Main, NoOne}
  /\ should_wake \in SUBSET Threads
  /\ thread_running \in SUBSET Threads
  /\ ctx_mutex \in SUBSET Threads
  /\ sessions \in [Threads -> SUBSET Sessions]
  /\ working \in [Threads -> Sessions \cup {NoSession}]
  /\ pc \in [Threads -> WorkerLabels]
  /\ mpc \in MainLabels
  /\ cur \in Sessions \cup {NoSession}
  /\ i \in Threads

\* A flushed session that no worker has collected yet is never forgotten:
\* its worker has its wake flag up, or is past the flag and about to collect,
\* or spool_flush_session (lines 204-213) has yet to raise the flag.
NoLostWakeup ==
  \A s \in ready :
    \/ session_thread_map[s] \in should_wake
    \/ pc[session_thread_map[s]] = "pool"
    \/ mpc = "flush" /\ cur = s

\* No worker sleeps on its condition variable through a raised flag, except
\* between the two loops of spool_destroy (lines 113-130), which raise all the
\* flags first and signal afterwards: the thread is still to be signalled.
NoSleepThroughWake ==
  \A t \in Threads :
    pc[t] = "asleep" /\ t \in should_wake =>
      \/ mpc = "stop"
      \/ mpc = "signal" /\ i <= t
      \/ mpc = "join" /\ i < t

\* A worker that was told to stop (line 118) cannot block again before it
\* reads thread_running: its flag is up or it is already past the wait.
StopReachesThread ==
  \A t \in Threads \ thread_running :
    pc[t] # "unborn" =>
      t \in should_wake \/ pc[t] \in {"pool", "work", "check", "exit"}

\* A session on a worker's local list, or being processed (lines 67-69), is
\* attached to that worker, not marked ready again, and the worker owns the
\* pool mutex: the main thread cannot remove and free the session, nor flush
\* it unseen, nor can another worker process it or any other session.
WorkIsExclusive ==
  \A t \in Threads : \A s \in sessions[t] \cup ({working[t]} \ {NoSession}) :
    /\ pc[t] = "work"
    /\ session_thread_map[s] = t
    /\ s \notin ready
    /\ session_threads_mutex = t

\* The contexts, mutexes and flags are freed (lines 127-139) only when no
\* worker can touch them any more, and with nothing left to do.
DestroyedIsQuiet ==
  mpc = "destroyed" =>
    /\ \A t \in Threads : pc[t] = "exit"
    /\ ready = {}
    /\ session_threads_mutex = NoOne

\* What the steps of the pool keep true together, and imply all of the above.
\* The mutexes are owned by the threads whose program counters say so, and
\* the sessions the pool works with are attached to it.
Inv ==
  /\ TypeOK
  /\ \A t \in Threads : session_threads_mutex = t <=> pc[t] = "work"
  /\ session_threads_mutex = Main <=> mpc \in {"remove", "stop"}
  /\ \A t \in Threads : t \in ctx_mutex <=> pc[t] = "test"
  /\ ready \subseteq Mapped
  /\ mpc \in {"flush", "remove"} => cur \in Mapped
  /\ mpc \notin {"idle", "flush", "remove"} => Mapped = {}
  /\ mpc = "create" => \A t \in Threads : t >= i => pc[t] = "unborn"
  /\ mpc \in {"signal", "join"} => \A t \in Threads : t < i => pc[t] = "exit"
  /\ mpc = "destroyed" => \A t \in Threads : pc[t] = "exit"
  /\ NoLostWakeup
  /\ NoSleepThroughWake
  /\ StopReachesThread
  /\ WorkIsExclusive

Within(k) == \A t, u \in Threads : Load(t) <= Load(u) + k

\* Attaching a session (lines 143-174) never takes the loads of two workers
\* further apart than they were, or than one session.
AddKeepsBalance ==
  [][Mapped \subseteq Mapped' =>
       \A k \in 1 .. Cardinality(Sessions) : Within(k) => Within(k)']_vars

Pending == ready \cup {s \in Sessions : \E t \in Threads : s \in sessions[t]}
Running == {s \in Sessions : \E t \in Threads : working[t] = s}

TP == INSTANCE TaskPool
        WITH held <- Mapped, pending <- Pending, running <- Running

\* The pool does what TaskPool says: a flushed session stays pending until it
\* is processed once, and spool calls and processing exclude one another.
PoolPromise == TP!Spec

\* When the main thread ends up making no more spool calls, every flushed
\* session is processed (lines 44-72), unless it was removed, whoever wins the
\* mutexes.
FlushIsServed ==
  <>[](mpc = "idle") =>
    \A s \in Sessions : s \in Pending ~> s \in Running \/ s \notin Mapped

\* spool_destroy (lines 108-141) returns: it joins every worker.
ShutdownCompletes == mpc = "stop" ~> mpc = "destroyed"
=============================================================================
