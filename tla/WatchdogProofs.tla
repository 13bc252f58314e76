--------------------------- MODULE WatchdogProofs ---------------------------
(***************************************************************************)
(* Proofs about the watchdog, for any number of services, any limits and   *)
(* any set of process ids.                                                 *)
(***************************************************************************)
EXTENDS Watchdog, TLAPS

LEMMA InitInv == Init => Inv
<1> SUFFICES ASSUME Init PROVE Inv
  OBVIOUS
<1> USE WatchdogAssumption DEF Init, Tasks
<1>0. 0 \in Tasks
  OBVIOUS
<1>1. TypeOK
  <2>1. starts \in [Tasks -> [1 .. MaxAttempts + 1 -> 0 .. SecToReset + 1]]
    <3>1. SecToReset + 1 \in 0 .. SecToReset + 1
      OBVIOUS
    <3>2. [k \in 1 .. MaxAttempts + 1 |-> SecToReset + 1]
             \in [1 .. MaxAttempts + 1 -> 0 .. SecToReset + 1]
      BY <3>1
    <3>3. QED
      BY <3>2
  <2>2. 0 \in 0 .. MaxAttempts + 1 /\ 0 \in 0 .. SecToReset + 1
    OBVIOUS
  <2>3. QED
    BY <1>0, <2>1, <2>2 DEF TypeOK, ProcessStates
<1>2. StartsAreCounted
  BY DEF StartsAreCounted
<1>3. Children = {} /\ Pidded = {}
  BY DEF Children, Pidded
<1>4. QED
  BY <1>1, <1>2, <1>3
     DEF Inv, SignalsSoFar, BadPidsAreMarked, OneProcessEach, FinalizeSignalsChildren, Pidded

\* NextTask stays within the tasks.
LEMMA NextTaskType ==
  ASSUME i \in Tasks, NEW loop, NEW after, NextTask(loop, after)
  PROVE  /\ i' \in Tasks
         /\ mpc' = IF i = NTasks - 1 THEN after ELSE loop
         /\ i' = IF i = NTasks - 1 THEN 0 ELSE i + 1
  BY WatchdogAssumption DEF Tasks, NextTask

LEMMA StepType == Inv /\ [Next]_vars => TypeOK'
<1> SUFFICES ASSUME TypeOK, [Next]_vars PROVE TypeOK'
  BY DEF Inv
<1>0. platform' = platform
  BY DEF Next, vars
<1> USE <1>0, WatchdogAssumption DEF TypeOK, ProcessStates, taskVars, histVars
<1>1. ASSUME NEW p \in Pids, ChildDies(p) PROVE TypeOK'
  BY <1>1 DEF ChildDies, Statuses
<1>2. CASE Tick
  <2>1. \A a \in 0 .. SecToReset + 1 : Older(a) \in 0 .. SecToReset + 1
    BY DEF Older
  <2>2. age' \in [Tasks -> 0 .. SecToReset + 1]
    BY <1>2, <2>1 DEF Tick
  <2>3. \A t \in Tasks : [k \in 1 .. MaxAttempts + 1 |-> Older(starts[t][k])]
                           \in [1 .. MaxAttempts + 1 -> 0 .. SecToReset + 1]
    <3>1. \A t \in Tasks : \A k \in 1 .. MaxAttempts + 1 : starts[t][k] \in 0 .. SecToReset + 1
      BY SMTT(30)
    <3> HIDE DEF TypeOK, ProcessStates, taskVars, histVars
    <3>2. QED
      BY <2>1, <3>1, Zenon
  <2>4. starts' \in [Tasks -> [1 .. MaxAttempts + 1 -> 0 .. SecToReset + 1]]
    <3>1. starts' = [t \in Tasks |-> [k \in 1 .. MaxAttempts + 1 |-> Older(starts[t][k])]]
      BY <1>2, Zenon DEF Tick
    <3> HIDE DEF TypeOK, ProcessStates, taskVars, histVars
    <3>2. QED
      BY <2>3, <3>1, Zenon
  <2>5. QED
    BY <1>2, <2>2, <2>4 DEF Tick, TimerRuns
<1>3. CASE StartTask
  <2>1. recent_attempts[i] + 1 \in 0 .. MaxAttempts + 1
    BY <1>3 DEF StartTask, ServiceStarts
  <2>2. ASSUME NEW p \in Pids \cup {NoPid, BadPid}, Started(p)
        PROVE  /\ pid' \in [Tasks -> Pids \cup {NoPid, BadPid}]
               /\ recent_attempts' \in [Tasks -> 0 .. MaxAttempts + 1]
               /\ age' \in [Tasks -> 0 .. SecToReset + 1]
               /\ starts' \in [Tasks -> [1 .. MaxAttempts + 1 -> 0 .. SecToReset + 1]]
               /\ nonrecoverable' \in SUBSET Tasks
    <3>1. [k \in 1 .. MaxAttempts + 1 |-> IF k = 1 THEN 0 ELSE starts[i][k - 1]]
            \in [1 .. MaxAttempts + 1 -> 0 .. SecToReset + 1]
      OBVIOUS
    <3>2. QED
      BY <2>1, <2>2, <3>1, SMTT(30) DEF Started
  <2>3. proc' \in [Pids -> ProcessStates]
    BY <1>3 DEF StartTask, ServiceStarts
  <2>4. i' \in Tasks /\ mpc' \in {"start", "mark"}
    BY <1>3, NextTaskType DEF StartTask, ServiceStarts
  <2>5. QED
    <3>1. PICK p \in Pids \cup {NoPid, BadPid} : Started(p)
      BY <1>3 DEF StartTask, ServiceStarts, NotStarted
    <3>2. UNCHANGED <<signalled, expired>>
      BY <1>3 DEF StartTask
    <3>3. QED
      BY <2>2, <2>3, <2>4, <3>1, <3>2
<1>4. CASE GiveUp
  <2>1. GivenUp(recent_attempts[i]) \in 0 .. MaxAttempts + 1
    BY DEF GivenUp
  <2>2. i' \in Tasks /\ mpc' \in {"start", "mark"}
    BY <1>4, NextTaskType DEF GiveUp
  <2>3. QED
    BY <1>4, <2>1, <2>2 DEF GiveUp
<1>5. CASE TaskIsUp
  BY <1>5, NextTaskType DEF TaskIsUp
<1>6. CASE MarkTask
  <2>1. i' \in Tasks /\ mpc' \in {"mark", "reset"}
    BY <1>6, NextTaskType DEF MarkTask
  <2>2. CASE StillRunning(pid[i])
    BY <1>6, <2>1, <2>2 DEF MarkTask
  <2>3. CASE ~StillRunning(pid[i])
    <3>1. /\ pid' = [pid EXCEPT ![i] = NoPid]
          /\ recent_attempts' \in [Tasks -> 0 .. MaxAttempts + 1]
          /\ Reap({pid[i]})
          /\ nonrecoverable' \in SUBSET Tasks
          /\ UNCHANGED <<age, starts, expired>>
      <4>1. MaxAttempts \in 0 .. MaxAttempts + 1
        OBVIOUS
      <4>2. recent_attempts' =
              [recent_attempts EXCEPT ![i] =
                 IF NonRecoverable(pid[i]) THEN MaxAttempts ELSE @]
        BY <1>6, <2>3 DEF MarkTask
      <4>3. recent_attempts' \in [Tasks -> 0 .. MaxAttempts + 1]
        BY <4>1, <4>2
      <4>4. QED
        BY <1>6, <2>3, <4>3 DEF MarkTask
    <3>2. proc' \in [Pids -> ProcessStates] /\ signalled' \in SUBSET Pids
      BY <3>1 DEF Reap
    <3>3. QED
      BY <2>1, <3>1, <3>2
  <2>4. QED
    BY <2>2, <2>3
<1>7. CASE KillTask
  <2>1. PICK after \in {"wait", "left"} : NextTask("kill", after)
    BY <1>7 DEF KillTask
  <2>2. i' \in Tasks /\ mpc' \in {"kill", "wait", "left"}
    BY <2>1, NextTaskType
  <2>3. QED
    BY <1>7, <2>2 DEF KillTask, ToKill
<1>8. CASE WaitPass
  BY <1>8 DEF WaitPass, Reap
<1>9. CASE UNCHANGED vars
  BY <1>9 DEF vars
<1>10. CASE ResetAttempts
  <2>1. recent_attempts' \in [Tasks -> 0 .. MaxAttempts + 1]
    BY <1>10 DEF ResetAttempts
  <2>2. QED
    BY <1>10, <2>1 DEF ResetAttempts
<1>11. CASE StepBegins \/ FinalizeBegins \/ WaitTimesOut
  BY <1>11 DEF StepBegins, FinalizeBegins, WaitTimesOut
<1>12. QED
  BY <1>1, <1>2, <1>3, <1>4, <1>5, <1>6, <1>7, <1>8, <1>9, <1>10, <1>11
     DEF Next, WatchdogStep, WatchdogFinalize

\* What bounds the restarts: a start makes room in the history and is counted,
\* and attempts are only forgiven when every start is old.
LEMMA StepStarts == Inv /\ [Next]_vars => StartsAreCounted'
<1> SUFFICES ASSUME TypeOK, StartsAreCounted, [Next]_vars
             PROVE  StartsAreCounted'
  BY DEF Inv
<1> USE WatchdogAssumption DEF TypeOK, StartsAreCounted, taskVars, histVars
<1>1. CASE Tick
  BY <1>1, SMTT(30) DEF Tick, Older
<1>2. CASE StartTask
  <2>1. PICK p : Started(p)
    BY <1>2 DEF StartTask, ServiceStarts
  <2>2. recent_attempts[i] < MaxAttempts
    BY <1>2 DEF StartTask, ServiceStarts
  <2>3. SUFFICES ASSUME NEW t \in Tasks, NEW k \in 1 .. MaxAttempts + 1
        PROVE  /\ starts'[t][k] >= age'[t]
               /\ k > recent_attempts'[t] \/ k = MaxAttempts + 1
                    => starts'[t][k] > SecToReset
    OBVIOUS
  <2>4. CASE t = i
    <3>1. /\ age'[t] = 0 /\ recent_attempts'[t] = recent_attempts[t] + 1
          /\ starts'[t][k] = IF k = 1 THEN 0 ELSE starts[t][k - 1]
      BY <2>1, <2>4 DEF Started
    <3>2. k # 1 => k - 1 \in 1 .. MaxAttempts + 1
      OBVIOUS
    <3>3. QED
      BY <2>2, <2>4, <3>1, <3>2
  <2>5. CASE t # i
    BY <2>1, <2>5 DEF Started
  <2>6. QED
    BY <2>4, <2>5
<1>3. CASE GiveUp
  BY <1>3 DEF GiveUp, GivenUp
<1>4. CASE MarkTask
  <2>1. \A t \in Tasks : recent_attempts'[t] \in {recent_attempts[t], MaxAttempts}
    BY <1>4 DEF MarkTask
  <2>2. UNCHANGED <<age, starts>>
    BY <1>4 DEF MarkTask
  <2>3. SUFFICES ASSUME NEW t \in Tasks, NEW k \in 1 .. MaxAttempts + 1
        PROVE  /\ starts[t][k] >= age[t]
               /\ k > recent_attempts'[t] \/ k = MaxAttempts + 1
                    => starts[t][k] > SecToReset
    BY <2>2
  <2>4. CASE k = MaxAttempts + 1 \/ recent_attempts'[t] = recent_attempts[t]
    BY <2>4
  <2>5. QED
    BY <2>1, <2>4
<1>5. CASE ResetAttempts
  <2>1. UNCHANGED <<age, starts>>
    BY <1>5 DEF ResetAttempts
  <2>2. SUFFICES ASSUME NEW t \in Tasks, NEW k \in 1 .. MaxAttempts + 1
        PROVE  /\ starts[t][k] >= age[t]
               /\ k > recent_attempts'[t] \/ k = MaxAttempts + 1
                    => starts[t][k] > SecToReset
    BY <2>1
  <2>3. CASE IsForgiven(t)
    <3>1. starts[t][k] >= age[t] /\ starts[t][k] \in Nat /\ age[t] \in Nat
      OBVIOUS
    <3>2. age[t] > SecToReset
      BY <2>3 DEF IsForgiven
    <3>3. QED
      BY <3>1, <3>2
  <2>4. CASE ~IsForgiven(t)
    <3>1. recent_attempts'[t] = recent_attempts[t]
      BY <1>5, <2>4 DEF ResetAttempts
    <3>2. QED
      BY <3>1
  <2>5. QED
    BY <2>3, <2>4
<1>6. CASE UNCHANGED <<recent_attempts, age, starts>>
  BY <1>6
<1>7. ASSUME \/ StepBegins \/ TaskIsUp \/ FinalizeBegins \/ WatchdogFinalize
             \/ UNCHANGED vars \/ \E p \in Pids : ChildDies(p)
      PROVE  UNCHANGED <<recent_attempts, age, starts>>
  BY <1>7 DEF StepBegins, TaskIsUp, FinalizeBegins, WatchdogFinalize, KillTask,
     WaitPass, WaitTimesOut, ChildDies, vars
<1>8. QED
  BY <1>1, <1>2, <1>3, <1>4, <1>5, <1>6, <1>7 DEF Next, WatchdogStep

\* What relates the tasks to the processes, and the signals to both.
LEMMA StepProcesses ==
  ASSUME Inv, Next, TypeOK'
  PROVE  /\ OneProcessEach'
         /\ (Children \subseteq Pidded)'
         /\ SignalsSoFar'
         /\ FinalizeSignalsChildren'
         /\ (mpc \in {"idle", "reset", "wait", "freed", "left"} => i = 0)'
         /\ (expired => mpc \in {"wait", "freed"})'
<1> DEFINE Goal == /\ OneProcessEach
                   /\ Children \subseteq Pidded
                   /\ SignalsSoFar
                   /\ FinalizeSignalsChildren
                   /\ mpc \in {"idle", "reset", "wait", "freed", "left"} => i = 0
                   /\ expired => mpc \in {"wait", "freed"}
<1> SUFFICES Goal'
  OBVIOUS
<1>0. /\ TypeOK /\ Goal
      /\ NoPid \notin Pids /\ BadPid \notin Pids /\ BadPid # NoPid
  BY WatchdogAssumption DEF Inv
<1> USE <1>0 DEF OneProcessEach, SignalsSoFar, FinalizeSignalsChildren,
     Children, Pidded, taskVars
<1>1. ASSUME NEW p \in Pids, ChildDies(p) PROVE Goal'
  <2>1. Children' = Children
    BY <1>1 DEF ChildDies, Statuses, TypeOK
  <2>2. QED
    BY <1>1, <2>1 DEF ChildDies
<1>2. CASE Tick /\ ~Finalized
  <2>1. expired' => expired \/ mpc = "wait"
    BY <1>2, Zenon DEF Tick, TimerRuns
  <2>2. UNCHANGED <<pid, proc, signalled, mpc, i>>
    BY <1>2 DEF Tick
  <2>3. QED
    BY <1>2, <2>1, <2>2 DEF Finalized
<1>3. CASE StartTask
  <2>1. i' \in Tasks /\ mpc' \in {"start", "mark"} /\ ~expired'
    BY <1>3, NextTaskType DEF StartTask, ServiceStarts, TypeOK
  <2>2. pid[i] = NoPid /\ i \in Tasks
    BY <1>3 DEF StartTask, ServiceStarts, IsStopped, TypeOK
  <2>3. CASE \E p \in Pids : /\ proc[p] = "none"
                             /\ proc' = [proc EXCEPT ![p] = "running"]
                             /\ Started(p)
    <3>1. PICK p \in Pids : /\ proc[p] = "none"
                            /\ proc' = [proc EXCEPT ![p] = "running"]
                            /\ Started(p)
      BY <2>3
    <3>2. \A t \in Tasks : pid'[t] = IF t = i THEN p ELSE pid[t]
      BY <3>1 DEF Started, TypeOK
    <3>3. \A q \in Pids : proc'[q] = IF q = p THEN "running" ELSE proc[q]
      BY <3>1 DEF TypeOK
    <3>4. mpc = "start" /\ signalled' = signalled
      BY <1>3 DEF StartTask, ServiceStarts
    <3>5. QED
      BY <2>1, <2>2, <3>1, <3>2, <3>3, <3>4
  <2>4. CASE Started(NotStarted) /\ UNCHANGED proc
    <3>1. \A t \in Tasks : pid'[t] = IF t = i THEN NotStarted ELSE pid[t]
      BY <2>4 DEF Started, TypeOK
    <3>2. NotStarted \in {NoPid, BadPid}
      BY DEF NotStarted
    <3>3. UNCHANGED <<proc, signalled>> /\ mpc = "start"
      BY <1>3, <2>4 DEF StartTask, ServiceStarts
    <3>4. QED
      BY <2>1, <2>2, <3>1, <3>2, <3>3
  <2>5. QED
    BY <1>3, <2>3, <2>4 DEF StartTask, ServiceStarts
<1>4. CASE GiveUp \/ TaskIsUp
  BY <1>4, NextTaskType DEF GiveUp, TaskIsUp, TypeOK
<1>5. CASE MarkTask
  <2>1. /\ mpc = "mark" /\ ~expired' /\ mpc' \in {"mark", "reset"}
        /\ mpc' = "reset" => i' = 0
    BY <1>5, NextTaskType DEF MarkTask, TypeOK
  <2>2. CASE StillRunning(pid[i])
    BY <1>5, <2>1, <2>2 DEF MarkTask
  <2>3. CASE ~StillRunning(pid[i])
    <3>1. pid' = [pid EXCEPT ![i] = NoPid] /\ Reap({pid[i]})
      BY <1>5, <2>3 DEF MarkTask
    <3>2. i \in Tasks /\ \A t \in Tasks : pid'[t] = IF t = i THEN NoPid ELSE pid[t]
      BY <3>1 DEF TypeOK
    <3>3. /\ \A q \in Pids : proc'[q] = IF q = pid[i] THEN "none" ELSE proc[q]
          /\ signalled' = signalled \ {pid[i]}
      BY <3>1 DEF Reap
    <3>4. QED
      BY <2>1, <3>2, <3>3
  <2>4. QED
    BY <2>2, <2>3
<1>6. CASE StepBegins \/ ResetAttempts
  BY <1>6 DEF StepBegins, ResetAttempts
<1>7. CASE FinalizeBegins
  BY <1>7, WatchdogAssumption DEF FinalizeBegins, Tasks
<1>8. CASE KillTask
  <2>0. PICK after \in {"wait", "left"} : NextTask("kill", after)
    BY <1>8 DEF KillTask
  <2>1. /\ mpc = "kill" /\ i \in Tasks
        /\ signalled' = signalled \cup ({pid[i]} \ {NoPid, BadPid})
        /\ UNCHANGED <<pid, proc, expired>>
        /\ i = NTasks - 1 => mpc' \in {"wait", "left"} /\ i' = 0
        /\ i # NTasks - 1 => mpc' = "kill" /\ i' = i + 1
    BY <1>8, <2>0, NextTaskType DEF KillTask, ToKill, TypeOK
  <2>2. \A t \in Tasks : t < i + 1 => t < i \/ t = i
    BY <2>1, WatchdogAssumption DEF Tasks
  <2>3. \A t \in Tasks : t < i + 1 /\ pid[t] \in Children => pid[t] \in signalled'
    BY <2>1, <2>2
  <2>4. i = NTasks - 1 => \A t \in Tasks : t < i + 1
    BY WatchdogAssumption DEF Tasks
  <2>5. mpc' \in {"wait", "left"} => Children \subseteq signalled'
    BY <2>1, <2>3, <2>4
  <2>6. SignalsSoFar'
    BY <2>1, <2>3
  <2>7. FinalizeSignalsChildren'
    <3>1. mpc' \in {"wait", "left", "kill"} /\ Children' = Children
      BY <2>1
    <3>2. signalled' \subseteq Children
      BY <2>1 DEF TypeOK
    <3>3. QED
      BY <2>5, <3>1, <3>2
  <2>8. QED
    BY <2>1, <2>6, <2>7
<1>9. CASE WaitPass
  <2>1. /\ mpc = "wait" /\ ~expired /\ UNCHANGED <<pid, i, expired>>
        /\ Reap({p \in Pidded : ~StillRunning(p)})
        /\ mpc' = IF \E p \in Pidded : StillRunning(p) THEN "wait" ELSE "freed"
    BY <1>9 DEF WaitPass, TimeIsUp
  <2>2. Children' = Children \ {p \in Pidded : ~StillRunning(p)}
    BY <2>1 DEF Reap
  <2>3. signalled' = signalled \ {p \in Pidded : ~StillRunning(p)}
    BY <2>1 DEF Reap
  <2>4. QED
    BY <2>1, <2>2, <2>3
<1>10. CASE WaitTimesOut
  BY <1>10 DEF WaitTimesOut, TimeIsUp
<1>11. CASE UNCHANGED vars
  BY <1>11 DEF vars
<1>12. QED
  BY <1>1, <1>2, <1>3, <1>4, <1>5, <1>6, <1>7, <1>8, <1>9, <1>10, <1>11
     DEF Next, WatchdogStep, WatchdogFinalize

\* Every task is looked at, with what os_start_service returned for it.
LEMMA StepBadPids == ASSUME Inv, Next PROVE BadPidsAreMarked'
<1>0. TypeOK /\ BadPidsAreMarked /\ NoPid # BadPid
  BY WatchdogAssumption DEF Inv
<1> USE <1>0 DEF BadPidsAreMarked
<1>1. CASE StartTask
  <2>1. i \in Tasks /\ i' \in Tasks /\ mpc' \in {"start", "mark"}
    BY <1>1, NextTaskType DEF StartTask, ServiceStarts, TypeOK
  <2>2. mpc' = "mark" => i' = 0
    BY <1>1, NextTaskType DEF StartTask, ServiceStarts, TypeOK
  <2>3. QED
    BY <2>1, <2>2 DEF Tasks
<1>2. CASE GiveUp \/ TaskIsUp
  <2>1. mpc = "start" /\ NextTask("start", "mark") /\ pid' = pid
    BY <1>2 DEF GiveUp, TaskIsUp, taskVars
  <2>2. i' \in Tasks /\ mpc' \in {"start", "mark"} /\ (mpc' = "mark" => i' = 0)
    BY <2>1, NextTaskType DEF TypeOK
  <2>3. QED
    BY <2>1, <2>2 DEF Tasks
<1>3. CASE MarkTask
  <2>1. /\ mpc = "mark" /\ i \in Tasks
        /\ \/ mpc' = "reset" /\ i = NTasks - 1
           \/ mpc' = "mark" /\ i' = i + 1
    BY <1>3, NextTaskType DEF MarkTask, TypeOK
  <2>2. \A t \in Tasks : pid'[t] = BadPid => pid[t] = BadPid /\ t # i
    <3>1. CASE StillRunning(pid[i])
      <4>1. pid[i] # BadPid /\ pid' = pid
        BY <1>3, <3>1, WatchdogAssumption DEF MarkTask, StillRunning
      <4>2. QED
        BY <4>1
    <3>2. CASE ~StillRunning(pid[i])
      <4>1. pid' = [pid EXCEPT ![i] = NoPid]
        BY <1>3, <3>2 DEF MarkTask
      <4>2. QED
        BY <4>1 DEF TypeOK
    <3>3. QED
      BY <3>1, <3>2
  <2>3. SUFFICES ASSUME NEW t \in Tasks, pid'[t] = BadPid
        PROVE  mpc' = "mark" /\ i' <= t
    OBVIOUS
  <2>4. i <= t /\ t # i
    BY <2>1, <2>2, <2>3
  <2>5. QED
    BY <2>1, <2>4, WatchdogAssumption DEF Tasks
<1>4. ASSUME \/ StepBegins \/ ResetAttempts \/ FinalizeBegins \/ WatchdogFinalize
             \/ Tick \/ UNCHANGED vars \/ \E p \in Pids : ChildDies(p)
      PROVE  pid' = pid /\ (mpc \in {"start", "mark"} => UNCHANGED <<mpc, i>>)
  BY <1>4 DEF StepBegins, ResetAttempts, FinalizeBegins, WatchdogFinalize,
     KillTask, WaitPass, WaitTimesOut, Tick, ChildDies, vars, taskVars, histVars
<1>5. QED
  BY <1>1, <1>2, <1>3, <1>4 DEF Next, WatchdogStep

LEMMA StepInv == Inv /\ [Next]_vars => Inv'
<1>1. ASSUME Inv, Next PROVE Inv'
  BY <1>1, StepType, StepStarts, StepProcesses, StepBadPids DEF Inv
<1>2. ASSUME Inv, UNCHANGED vars PROVE Inv'
  BY <1>2 DEF vars, taskVars, histVars, Inv, TypeOK, ProcessStates, StartsAreCounted,
     OneProcessEach, BadPidsAreMarked, SignalsSoFar, FinalizeSignalsChildren, Children, Pidded
<1>3. QED
  BY <1>1, <1>2

\* The conjunction that the loops of watchdog_step and watchdog_finalize keep
\* true (lines 28-119).
THEOREM InvHolds == Spec => []Inv
  BY InitInv, StepInv, PTL DEF Spec

\* Every variable of watchdog.c keeps its range, the count of attempts too.
THEOREM TypeCorrect == Spec => []TypeOK
<1>1. Inv => TypeOK
  BY DEF Inv
<1>2. QED
  BY <1>1, InvHolds, PTL

\* However often a service dies and whatever it dies of, MAX_ATTEMPTS + 1 of
\* its starts are never within SEC_TO_RESET_ATTEMPS seconds (lines 31-43, 89-93).
THEOREM RestartsLimited == Spec => []RestartsAreLimited
<1>1. Inv => RestartsAreLimited
  BY WatchdogAssumption DEF Inv, StartsAreCounted, RestartsAreLimited
<1>2. QED
  BY <1>1, InvHolds, PTL

\* No service runs twice, no child is lost, and no pid is kept that the kernel
\* may give away (lines 28-58).
THEOREM ChildrenAreKnown == Spec => []TasksAreChildren
<1>1. Inv => TasksAreChildren
  <2> SUFFICES ASSUME Inv PROVE ReportsAreTrue
    BY DEF TasksAreChildren, Inv
  <2>1. mpc = "idle" => \A t \in Tasks : pid[t] \in Pids \cup {NoPid}
    BY DEF Inv, TypeOK, BadPidsAreMarked
  <2>2. NoPid \notin Pids
    BY WatchdogAssumption
  <2>3. QED
    BY <2>1, <2>2 DEF ReportsAreTrue, ProgramStatus, Inv, OneProcessEach, Children
<1>2. QED
  BY <1>1, InvHolds, PTL

\* watchdog_finalize signals its children, all of them, and no other process,
\* and leaves none if it waits for them and its time is not over (lines 100-119).
THEOREM FinalizeIsClean == Spec => []FinalizeSignalsChildren
<1>1. Inv => FinalizeSignalsChildren
  BY DEF Inv
<1>2. QED
  BY <1>1, InvHolds, PTL
=============================================================================
