------------------------------ MODULE Watchdog ------------------------------
(***************************************************************************)
(* The watchdog of src/watchdog/watchdog.c over the processes of           *)
(* os/posix/os.c or os/win32/os.c: every call of watchdog_step starts the  *)
(* services that are down, waits for those that have died and forgives the *)
(* ones that gave up long ago; watchdog_finalize terminates them all.      *)
(*                                                                         *)
(* Children die by themselves at any point between two system calls, and   *)
(* the kernel gives a pid that was waited for to the next child (on        *)
(* Windows, where the watchdog keeps the handles, to no one: but no task   *)
(* has it any more). Time is what time() tells, in whole seconds; only     *)
(* differences are kept.                                                   *)
(***************************************************************************)
EXTENDS Naturals

CONSTANTS
  NTasks,          \* n_tasks
  Pids,            \* the process ids a child may have
  NoPid,           \* PID_NOT_RUNNING
  BadPid,          \* (DWORD) -1, which is not PID_NOT_RUNNING on Windows
  MaxAttempts,     \* MAX_ATTEMPTS
  SecToReset,      \* SEC_TO_RESET_ATTEMPS
  StartFails,      \* may fork or CreateProcess fail?
  Platforms        \* the platforms the watchdog may run on

Tasks == 0 .. NTasks - 1

ASSUME WatchdogAssumption ==
  /\ NTasks \in Nat \ {0}
  /\ MaxAttempts \in Nat \ {0}
  /\ SecToReset \in Nat \ {0}
  /\ NoPid \notin Pids /\ BadPid \notin Pids /\ BadPid # NoPid
  /\ StartFails \in BOOLEAN
  /\ Platforms \subseteq {"posix", "win32"}

VARIABLES
  platform,         \* the one it runs on
  pid,              \* task->pid
  recent_attempts,  \* task->recent_attempts
  age,              \* seconds since task->last_attempt, up to SecToReset + 1
  proc,             \* the kernel's view of every pid
  signalled,        \* the pids a SIGTERM was sent to, while they exist
  mpc,              \* the loop the watchdog is in
  i,                \* its index
  expired,          \* the five seconds of watchdog_finalize are over
  starts,           \* history: the ages of a task's last starts, newest first
  nonrecoverable    \* history: the tasks last seen to end with NON_RECOVERABLE_ERROR

taskVars == <<pid, recent_attempts, age>>
histVars == <<starts, nonrecoverable>>
vars == <<platform, taskVars, histVars, proc, signalled, mpc, i, expired>>

\* What a dead child's status says of it: it ended, it ended with
\* NON_RECOVERABLE_ERROR, or with 259, which on Windows is STILL_ACTIVE.
Statuses ==
  IF platform = "win32" THEN {"exited", "nonrecoverable", "still_active"}
  ELSE {"exited", "nonrecoverable"}

\* A pid that is no child's is free, or some other program's.
ProcessStates == {"none", "running", "exited", "nonrecoverable", "still_active"}

Children == {p \in Pids : proc[p] # "none"}

\* watchdog_init
Init ==
  /\ platform \in Platforms
  /\ pid = [t \in Tasks |-> NoPid]
  /\ recent_attempts = [t \in Tasks |-> 0]
  /\ age = [t \in Tasks |-> 0]
  /\ proc = [p \in Pids |-> "none"]
  /\ signalled = {}
  /\ mpc = "idle"
  /\ i = 0
  /\ expired = FALSE
  /\ starts = [t \in Tasks |-> [k \in 1 .. MaxAttempts + 1 |-> SecToReset + 1]]
  /\ nonrecoverable = {}

-----------------------------------------------------------------------------
(* Processes and time *)

\* A service returns, is killed, or exits with NON_RECOVERABLE_ERROR (as it
\* does when execvp fails).
ChildDies(p) ==
  /\ proc[p] = "running"
  /\ \E status \in Statuses : proc' = [proc EXCEPT ![p] = status]
  /\ UNCHANGED <<taskVars, histVars, signalled, mpc, i, expired>>

Older(a) == IF a > SecToReset THEN a ELSE a + 1

\* timer_current_ms gets past five seconds at some point.
TimerRuns == expired' \in {expired, mpc = "wait"}

Tick ==
  /\ age' = [t \in Tasks |-> Older(age[t])]
  /\ starts' = [t \in Tasks |->
                  [k \in 1 .. MaxAttempts + 1 |-> Older(starts[t][k])]]
  /\ TimerRuns
  /\ UNCHANGED <<pid, recent_attempts, nonrecoverable, proc, signalled, mpc, i>>

-----------------------------------------------------------------------------
(* watchdog_step *)

\* The end of an iteration of a loop over the tasks.
NextTask(loop, after) ==
  IF i = NTasks - 1
    THEN /\ i' = 0
         /\ mpc' = after
    ELSE /\ i' = i + 1
         /\ mpc' = loop

StepBegins ==
  /\ mpc = "idle"
  /\ mpc' = "start"
  /\ UNCHANGED <<taskVars, histVars, proc, signalled, i, expired>>

\* The part of start_task_if_stopped that follows os_start_service: a start that
\* failed is counted and dated like any other attempt.
Started(p) ==
  /\ pid' = [pid EXCEPT ![i] = p]
  /\ recent_attempts' = [recent_attempts EXCEPT ![i] = @ + 1]
  /\ age' = [age EXCEPT ![i] = 0]
  /\ starts' = [starts EXCEPT ![i] =
       [k \in 1 .. MaxAttempts + 1 |-> IF k = 1 THEN 0 ELSE starts[i][k - 1]]]
  /\ nonrecoverable' = nonrecoverable \ {i}

\* Mutant of IsStopped: a service that runs is started again.
IsStoppedAssumed(t) == TRUE

IsStopped(t) == pid[t] = NoPid

\* os_start_service: a child that will call execvp, which may fail (ChildDies).
ServiceStarts(p) ==
  /\ proc[p] = "none"
  /\ proc' = [proc EXCEPT ![p] = "running"]

\* What it returns when it starts nothing.
NotStarted == IF platform = "win32" THEN BadPid ELSE NoPid

StartTask ==
  /\ mpc = "start"
  /\ IsStopped(i)
  /\ recent_attempts[i] < MaxAttempts
  /\ \/ \E p \in Pids : ServiceStarts(p) /\ Started(p)
     \/ /\ StartFails
        /\ Started(NotStarted)
        /\ UNCHANGED proc
  /\ NextTask("start", "mark")
  /\ UNCHANGED <<signalled, expired>>

\* Giving up is one attempt more than there are, and is logged once.
GivenUp(attempts) == IF attempts = MaxAttempts THEN attempts + 1 ELSE attempts

GiveUp ==
  /\ mpc = "start"
  /\ IsStopped(i)
  /\ recent_attempts[i] >= MaxAttempts
  /\ recent_attempts' = [recent_attempts EXCEPT ![i] = GivenUp(@)]
  /\ NextTask("start", "mark")
  /\ UNCHANGED <<pid, age, histVars, proc, signalled, expired>>

TaskIsUp ==
  /\ mpc = "start"
  /\ ~IsStopped(i)
  /\ NextTask("start", "mark")
  /\ UNCHANGED <<taskVars, histVars, proc, signalled, expired>>

\* os_process_still_running: waitpid with WNOHANG, which reaps a dead child, or
\* OpenProcess, which fails with BadPid, and GetExitCodeProcess.
StillRunning(p) == p \in Pids /\ proc[p] \in {"running", "still_active"}

NonRecoverable(p) == p \in Pids /\ proc[p] = "nonrecoverable"

Reap(ps) ==
  /\ proc' = [p \in Pids |-> IF p \in ps THEN "none" ELSE proc[p]]
  /\ signalled' = signalled \ ps

MarkTask ==
  /\ mpc = "mark"
  /\ IF StillRunning(pid[i])
       THEN UNCHANGED <<pid, recent_attempts, nonrecoverable, proc, signalled>>
       ELSE /\ pid' = [pid EXCEPT ![i] = NoPid]
            /\ Reap({pid[i]})
            /\ recent_attempts' = [recent_attempts EXCEPT ![i] =
                 IF NonRecoverable(pid[i]) THEN MaxAttempts ELSE @]
            /\ nonrecoverable' =
                 nonrecoverable \cup (IF NonRecoverable(pid[i]) THEN {i} ELSE {})
  /\ NextTask("mark", "reset")
  /\ UNCHANGED <<age, starts, expired>>

\* Mutants of IsForgiven: only at the exact limit, and one second too early.
IsForgivenAtLimit(t) == recent_attempts[t] = MaxAttempts /\ age[t] > SecToReset
IsForgivenEarly(t) == recent_attempts[t] >= MaxAttempts /\ age[t] >= SecToReset

IsForgiven(t) == recent_attempts[t] >= MaxAttempts /\ age[t] > SecToReset

\* The last loop looks at one value of time() and at no process.
ResetAttempts ==
  /\ mpc = "reset"
  /\ recent_attempts' =
       [t \in Tasks |-> IF IsForgiven(t) THEN 0 ELSE recent_attempts[t]]
  /\ mpc' = "idle"
  /\ UNCHANGED <<pid, age, histVars, proc, signalled, i, expired>>

-----------------------------------------------------------------------------
(* watchdog_finalize *)

FinalizeBegins ==
  /\ mpc = "idle"
  /\ mpc' = "kill"
  /\ UNCHANGED <<taskVars, histVars, proc, signalled, i, expired>>

\* Mutant of ToKill: a service that is down is killed too, by kill(-1).
ToKillUnchecked(t) == {pid[t]}

ToKill(t) == {pid[t]} \ {NoPid}

\* SIGTERM or TerminateProcess, which no process with BadPid is there for. With
\* wait false nothing follows, and the children are left to themselves.
KillTask ==
  /\ mpc = "kill"
  /\ signalled' = signalled \cup (ToKill(i) \ {BadPid})
  /\ \E after \in {"wait", "left"} : NextTask("kill", after)
  /\ UNCHANGED <<taskVars, histVars, proc, expired>>

\* Mutant of TimeIsUp: the timer is not looked at.
TimeIsUpNever == FALSE

TimeIsUp == expired

\* One pass over the tasks, which keep their pid when it is reaped.
WaitPass ==
  /\ mpc = "wait"
  /\ ~TimeIsUp
  /\ LET mine == {p \in Pids : \E t \in Tasks : pid[t] = p}
     IN  /\ Reap({p \in mine : ~StillRunning(p)})
         /\ mpc' = IF \E p \in mine : StillRunning(p) THEN "wait" ELSE "freed"
  /\ UNCHANGED <<taskVars, histVars, i, expired>>

WaitTimesOut ==
  /\ mpc = "wait"
  /\ TimeIsUp
  /\ mpc' = "freed"
  /\ UNCHANGED <<taskVars, histVars, proc, signalled, i, expired>>

-----------------------------------------------------------------------------
\* The status that watchdog_program_state tells, between two calls.
ProgramStatus(t) ==
  IF recent_attempts[t] >= MaxAttempts THEN "WPS_GAVE_UP"
  ELSE IF pid[t] = NoPid THEN "WPS_STOPPED" ELSE "WPS_RUNNING"

WatchdogStep ==
  \/ StepBegins \/ StartTask \/ GiveUp \/ TaskIsUp \/ MarkTask \/ ResetAttempts

WatchdogFinalize == KillTask \/ WaitPass \/ WaitTimesOut

Finalized == mpc \in {"freed", "left"}

Next ==
  \/ /\ ~Finalized
     /\ UNCHANGED platform
     /\ \/ WatchdogStep
        \/ FinalizeBegins
        \/ WatchdogFinalize
        \/ Tick
        \/ \E p \in Pids : ChildDies(p)
  \/ Finalized /\ UNCHANGED vars

Spec == Init /\ [][Next]_vars

\* The caller goes on calling watchdog_step until it calls watchdog_finalize,
\* a call goes on to its end, time passes, and starts do not fail for ever.
Goes(A) == A /\ UNCHANGED platform

Fairness ==
  /\ WF_vars(Goes(WatchdogStep))
  /\ WF_vars(Goes(WatchdogFinalize))
  /\ WF_vars(Goes(~Finalized /\ Tick))
  /\ WF_vars(Goes(mpc = "wait" /\ Tick /\ expired'))
  /\ \A t \in Tasks :
       SF_vars(Goes(StartTask /\ i = t /\ pid'[t] \in Pids))

FairSpec == Spec /\ Fairness

-----------------------------------------------------------------------------
(* Properties *)

TypeOK ==
  /\ platform \in Platforms
  /\ pid \in [Tasks -> Pids \cup {NoPid, BadPid}]
  /\ recent_attempts \in [Tasks -> 0 .. MaxAttempts + 1]
  /\ age \in [Tasks -> 0 .. SecToReset + 1]
  /\ proc \in [Pids -> ProcessStates]
  /\ signalled \in SUBSET Pids
  /\ mpc \in {"idle", "start", "mark", "reset", "kill", "wait", "freed", "left"}
  /\ i \in Tasks
  /\ expired \in BOOLEAN
  /\ starts \in [Tasks -> [1 .. MaxAttempts + 1 -> 0 .. SecToReset + 1]]
  /\ nonrecoverable \in SUBSET Tasks

OneProcessEach ==
  mpc \notin {"wait", "freed", "left"} =>
    /\ Children = {p \in Pids : \E t \in Tasks : pid[t] = p}
    /\ \A t, u \in Tasks : pid[t] = pid[u] /\ pid[t] \in Pids => t = u

ReportsAreTrue ==
  mpc = "idle" => \A t \in Tasks :
    /\ ProgramStatus(t) = "WPS_RUNNING" => pid[t] \in Children
    /\ ProgramStatus(t) = "WPS_STOPPED" => pid[t] \notin Children

\* While the watchdog runs, its tasks and its children are the same
\* processes: no service runs twice, no child is lost or left a zombie, and
\* no pid is kept that the kernel may give to another program (lines 28-58).
\* Nor does watchdog_program_state call a service that could not be started
\* WPS_RUNNING, for the pid that was returned for it (os/win32/os.c:81), or one
\* that has a process WPS_STOPPED. (One that it calls WPS_GAVE_UP may run.)
TasksAreChildren == OneProcessEach /\ ReportsAreTrue

\* watchdog_finalize (lines 100-119) sends SIGTERM to every child that is left
\* and to no other process; and when it waits for them and returns before its
\* five seconds are over, no child is left.
FinalizeSignalsChildren ==
  /\ signalled \subseteq Children
  /\ mpc \in {"wait", "freed", "left"} => Children \subseteq signalled
  /\ mpc = "freed" /\ ~expired => Children = {}

\* A service that keeps dying is started at most MAX_ATTEMPTS times within any
\* SEC_TO_RESET_ATTEMPS seconds, whatever it dies of (lines 31-43 and 89-93):
\* the start that many starts ago is older than that.
RestartsAreLimited == \A t \in Tasks : starts[t][MaxAttempts + 1] > SecToReset

IsDown(t) ==
  \/ pid[t] = NoPid /\ t \notin nonrecoverable
  \/ pid[t] \in Pids /\ proc[pid[t]] = "exited"

IsUp(t) == pid[t] \in Pids /\ proc[pid[t]] = "running"

\* A service that is down or has died is in the end started again, however often
\* it died or failed to start before, as long as the caller goes on calling
\* watchdog_step (lines 79-96). Left out are the exit that is non-recoverable, of
\* which NonRecoverableStaysDown speaks, and the one that Windows takes for a
\* process that runs.
ServiceIsRestarted ==
  \A t \in Tasks : IsDown(t) ~> IsUp(t) \/ mpc \in {"kill", "wait", "freed", "left"}

\* The watchdog will "restart any services that have died, unless they're
\* non-recoverable" (HACKING.md:6-8): one that was seen to end with
\* NON_RECOVERABLE_ERROR (line 55) is not started again.
NonRecoverableStaysDown ==
  [][\A t \in Tasks : t \in nonrecoverable => pid'[t] \notin Pids]_vars

\* watchdog_finalize returns, whatever the services do with SIGTERM.
FinalizeReturns == mpc = "kill" ~> Finalized

-----------------------------------------------------------------------------
(* The inductive invariant *)

\* The pids the tasks have.
Pidded == {p \in Pids : \E t \in Tasks : pid[t] = p}

\* A start that is still counted is no older than the last attempt, and only
\* as many starts are younger than the limit as are counted.
StartsAreCounted ==
  \A t \in Tasks, k \in 1 .. MaxAttempts + 1 :
    /\ starts[t][k] >= age[t]
    /\ k > recent_attempts[t] \/ k = MaxAttempts + 1 => starts[t][k] > SecToReset

\* How far watchdog_finalize has come with its signals.
SignalsSoFar ==
  \A t \in Tasks : mpc = "kill" /\ t < i /\ pid[t] \in Children
                    => pid[t] \in signalled

\* The mark of a start that failed is gone when its task was looked at.
BadPidsAreMarked ==
  \A t \in Tasks :
    pid[t] = BadPid => mpc = "start" \/ (mpc = "mark" /\ i <= t)

\* What the loops of watchdog_step and watchdog_finalize keep true together:
\* every child is some task's in every loop, and nothing is forked once
\* watchdog_finalize has begun, so that its signals reach all there are.
Inv ==
  /\ TypeOK
  /\ StartsAreCounted
  /\ OneProcessEach
  /\ Children \subseteq Pidded
  /\ SignalsSoFar
  /\ BadPidsAreMarked
  /\ FinalizeSignalsChildren
  /\ mpc \in {"idle", "reset", "wait", "freed", "left"} => i = 0
  /\ expired => mpc \in {"wait", "freed"}
=============================================================================
