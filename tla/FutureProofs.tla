---------------------------- MODULE FutureProofs ----------------------------
(***************************************************************************)
(* Proofs about the futures, for any number of futures and thread ids.     *)
(***************************************************************************)
EXTENDS Future, TLAPS

\* A thread that was not joined belongs to a future that waits for it, and
\* what it has told so far agrees with where it is.
ThreadAgrees(t, f) ==
  /\ thread[f] = t
  /\ opc[f] \in {"owned", "await", "destroy"}
  /\ tpc[t] = "running" => told[f].status # "FU_SUCCESS"
  /\ tpc[t] # "running" => told[f].status # "FU_RUNNING"
  /\ tpc[t] \in {"running", "returned"} => status[f] # "FU_SUCCESS"
  /\ tpc[t] = "exited" => status[f] # "FU_RUNNING"
  /\ tpc[t] # "running" /\ told[f].status = "FU_SUCCESS" => retval[t] = told[f].value
  /\ told[f].status = "FU_ERROR" => status[f] = "FU_ERROR"

ThreadsAgree == \A t \in Tids : tpc[t] # "free" => ThreadAgrees(t, runs[t])

\* The status is what was told, and a future that still runs has its thread.
StatusAgrees(f) ==
  /\ status[f] # "FU_RUNNING" => told[f].status = status[f]
  /\ status[f] = "FU_ERROR" => result[f] = told[f].value
  /\ status[f] = "FU_RUNNING" /\ thread[f] \in Tids =>
       tpc[thread[f]] \in {"running", "returned"} /\ runs[thread[f]] = f
  /\ thread[f] = NoTid => status[f] = "FU_RUNNING"

\* A future that was not awaited has its thread, unless it was robbed.
KeepsThread(f) ==
  opc[f] \in {"owned", "await"} /\ f \notin robbed /\ thread[f] \in Tids =>
    tpc[thread[f]] # "free" /\ runs[thread[f]] = f

FuturesAgree == \A f \in Futures : opc[f] # "gone" => StatusAgrees(f) /\ KeepsThread(f)

Inv ==
  /\ TypeOK
  /\ ThreadsAgree
  /\ FuturesAgree
  /\ AwaitTellsOutcome

-----------------------------------------------------------------------------
LEMMA InitInv == Init => Inv
<1> SUFFICES ASSUME Init PROVE Inv
  OBVIOUS
<1> USE FutureAssumption DEF Init
<1>1. TypeOK
  BY DEF TypeOK, Nothing
<1>2. QED
  BY <1>1 DEF Inv, ThreadsAgree, FuturesAgree, AwaitTellsOutcome

-----------------------------------------------------------------------------
(* Types *)

LEMMA StepType == TypeOK /\ [Next]_vars => TypeOK'
<1> SUFFICES ASSUME TypeOK, [Next]_vars PROVE TypeOK'
  OBVIOUS
<1>0. platform' = platform
  BY DEF Next, vars
<1> DEFINE Values  == Results \cup Errors \cup {Indeterminate}
           Answers == {Nothing} \cup {Success(r) : r \in Values} \cup {Failure(e) : e \in Values}
           Told    == {Nothing} \cup {Success(r) : r \in Results} \cup {Failure(e) : e \in Errors}
<1> USE <1>0, FutureAssumption DEF TypeOK, threadVars, futureVars, historyVars
<1>1. ASSUME NEW f \in Futures, NEW t \in Tids \cup {NoTid}, Created(f, t)
      PROVE  /\ thread' \in [Futures -> Tids \cup {NoTid}]
             /\ status' \in [Futures -> {"FU_SUCCESS", "FU_ERROR", "FU_RUNNING"}]
             /\ result' \in [Futures -> Values]
             /\ opc' \in [Futures -> {"gone", "owned", "await", "awaited", "destroy", "aborted"}]
             /\ answer' \in [Futures -> Answers]
             /\ told' \in [Futures -> Told]
             /\ robbed' \in SUBSET Futures
  BY <1>1 DEF Created
<1>2. ASSUME NEW f \in Futures, Create(f) PROVE TypeOK'
  BY <1>1, <1>2 DEF Create
<1>3. ASSUME NEW f \in Futures, CreateUnchecked(f) PROVE TypeOK'
  BY <1>1, <1>3 DEF CreateUnchecked
<1>4. ASSUME NEW t \in Tids, NEW e \in Errors, NotifyError(t, e) PROVE TypeOK'
  BY <1>4 DEF NotifyError
<1>5. ASSUME NEW t \in Tids, NEW r \in Results, Return(t, r) PROVE TypeOK'
  BY <1>5 DEF Return
<1>6. ASSUME NEW t \in Tids, Finish(t) PROVE TypeOK'
  BY <1>6 DEF Finish
<1>7. ASSUME NEW f \in Futures, Await(f) \/ Destroy(f) PROVE TypeOK'
  BY <1>7 DEF Await, Destroy
<1>8. ASSUME NEW f \in Futures, Join(f) PROVE TypeOK'
  <2>1. tpc' \in [Tids -> {"free", "running", "returned", "exited"}]
    BY <1>8 DEF Join
  <2>2. TmpResult(thread[f]) \in Values
    BY DEF TmpResult, Truncated
  <2>3. answer' \in [Futures -> Answers]
    BY <1>8, <2>2 DEF Join
  <2>4. robbed' \in SUBSET Futures
    BY <1>8 DEF Join, Robs
  <2>5. opc' \in [Futures -> {"gone", "owned", "await", "awaited", "destroy", "aborted"}]
    BY <1>8 DEF Join
  <2>6. QED
    BY <1>8, <2>1, <2>3, <2>4, <2>5 DEF Join
<1>9. CASE UNCHANGED vars
  BY <1>9 DEF vars
<1>10. QED
  BY <1>2, <1>3, <1>4, <1>5, <1>6, <1>7, <1>8, <1>9 DEF Next, RunThread, Owner

LEMMA ToldKinds ==
  ASSUME TypeOK, NEW f \in Futures
  PROVE  /\ told[f].status \in {"FU_SUCCESS", "FU_ERROR", "FU_RUNNING"}
         /\ told[f] = Nothing <=> told[f].status = "FU_RUNNING"
         /\ told[f].status = "FU_SUCCESS" => told[f] = Success(told[f].value)
         /\ told[f].status = "FU_ERROR" => told[f] = Failure(told[f].value)
         /\ told[f].status = "FU_SUCCESS" => told[f].value \in Results
  BY DEF TypeOK, Nothing, Success, Failure

-----------------------------------------------------------------------------
(* The steps *)

\* A new future, with a thread that is free or none.
LEMMA CreateStep ==
  ASSUME Inv, TypeOK', platform' = platform, NEW f \in Futures, Create(f) \/ CreateUnchecked(f)
  PROVE  ThreadsAgree' /\ FuturesAgree' /\ AwaitTellsOutcome'
<1> USE FutureAssumption DEF Inv, TypeOK
<1>1. PICK t \in Tids \cup {NoTid} :
        /\ Created(f, t)
        /\ \/ /\ t \in Tids /\ tpc[t] = "free"
              /\ tpc' = [tpc EXCEPT ![t] = "running"]
              /\ runs' = [runs EXCEPT ![t] = f]
           \/ t = NoTid /\ UNCHANGED <<tpc, runs>>
        /\ UNCHANGED retval
  BY DEF Create, CreateUnchecked, threadVars
<1>2. \A g \in Futures \ {f} :
        /\ thread'[g] = thread[g] /\ status'[g] = status[g] /\ result'[g] = result[g]
        /\ opc'[g] = opc[g] /\ answer'[g] = answer[g] /\ told'[g] = told[g]
        /\ g \in robbed' <=> g \in robbed
  BY <1>1 DEF Created
<1>3. /\ thread'[f] = t /\ status'[f] = "FU_RUNNING" /\ opc'[f] = "owned"
      /\ told'[f] = Nothing /\ opc[f] = "gone"
  BY <1>1 DEF Created
<1>4. Nothing.status = "FU_RUNNING"
  BY DEF Nothing
<1>5. ThreadsAgree'
  <2> SUFFICES ASSUME NEW u \in Tids, tpc'[u] # "free" PROVE ThreadAgrees(u, runs[u])'
    BY DEF ThreadsAgree
  <2>1. CASE u = t
    <3>1. runs'[u] = f /\ tpc'[u] = "running"
      BY <1>1, <2>1
    <3>2. QED
      BY <2>1, <3>1, <1>3, <1>4 DEF ThreadAgrees
  <2>2. CASE u # t
    <3>1. runs'[u] = runs[u] /\ tpc'[u] = tpc[u] /\ retval'[u] = retval[u]
      BY <1>1, <2>2
    <3>2. ThreadAgrees(u, runs[u])
      BY <3>1 DEF ThreadsAgree
    <3>3. runs[u] # f /\ runs[u] \in Futures
      BY <3>2, <1>3 DEF ThreadAgrees
    <3>4. QED
      BY <3>1, <3>2, <3>3, <1>2 DEF ThreadAgrees
  <2>3. QED
    BY <2>1, <2>2
<1>6. FuturesAgree'
  <2> SUFFICES ASSUME NEW g \in Futures, opc'[g] # "gone" PROVE (StatusAgrees(g) /\ KeepsThread(g))'
    BY DEF FuturesAgree
  <2>1. CASE g = f
    <3>1. t \in Tids => tpc'[t] = "running" /\ runs'[t] = f
      BY <1>1
    <3>2. QED
      BY <2>1, <3>1, <1>3 DEF StatusAgrees, KeepsThread
  <2>2. CASE g # f
    <3>1. StatusAgrees(g) /\ KeepsThread(g)
      BY <2>2, <1>2 DEF FuturesAgree
    <3>2. \A u \in Tids : tpc[u] # "free" => tpc'[u] = tpc[u] /\ runs'[u] = runs[u]
      BY <1>1
    <3>3. QED
      BY <2>2, <3>1, <3>2, <1>2 DEF StatusAgrees, KeepsThread
  <2>3. QED
    BY <2>1, <2>2
<1>7. AwaitTellsOutcome'
  <2> SUFFICES ASSUME NEW g \in Futures
               PROVE  /\ opc'[g] = "owned" => status'[g] \in {"FU_RUNNING", told'[g].status}
                      /\ opc'[g] = "awaited" /\ g \notin robbed' => answer'[g] = Outcome(g)'
                      /\ opc'[g] = "aborted" => thread'[g] = NoTid
    BY DEF AwaitTellsOutcome, FutureStatus
  <2>1. CASE g = f
    BY <2>1, <1>3
  <2>2. CASE g # f
    BY <2>2, <1>2 DEF AwaitTellsOutcome, FutureStatus, Outcome, Truncated
  <2>3. QED
    BY <2>1, <2>2
<1>8. QED
  BY <1>5, <1>6, <1>7

\* What a thread does to its own future, up to its end.
LEMMA ThreadStep ==
  ASSUME Inv, TypeOK', platform' = platform, NEW t \in Tids, RunThread(t)
  PROVE  ThreadsAgree' /\ FuturesAgree' /\ AwaitTellsOutcome'
<1> DEFINE f == runs[t]
<1> USE FutureAssumption DEF Inv, TypeOK
<1>1. f \in Futures /\ ThreadAgrees(t, f)
  BY DEF ThreadsAgree, RunThread, NotifyError, Return, Finish
<1>2. StatusAgrees(f) /\ KeepsThread(f)
  BY <1>1 DEF FuturesAgree, ThreadAgrees
<1>3. UNCHANGED <<thread, runs, opc, answer, robbed>>
  BY DEF RunThread, NotifyError, Return, Finish, threadVars, futureVars, historyVars
<1>4. /\ \A g \in Futures \ {f} :
           status'[g] = status[g] /\ result'[g] = result[g] /\ told'[g] = told[g]
      /\ \A u \in Tids \ {t} : tpc'[u] = tpc[u] /\ retval'[u] = retval[u]
  BY DEF RunThread, NotifyError, Return, Finish, threadVars, futureVars, historyVars
<1>5. ThreadAgrees(t, f)' /\ StatusAgrees(f)' /\ tpc'[t] # "free" /\ tpc[t] # "free"
  <2>1. ASSUME NEW e \in Errors, NotifyError(t, e)
        PROVE  ThreadAgrees(t, f)' /\ StatusAgrees(f)' /\ tpc'[t] # "free" /\ tpc[t] # "free"
    <3>1. /\ status'[f] = "FU_ERROR" /\ result'[f] = e /\ told'[f] = Failure(e)
          /\ tpc'[t] = "running" /\ tpc[t] = "running"
      BY <1>1, <2>1 DEF NotifyError, threadVars
    <3>2. Failure(e).status = "FU_ERROR" /\ Failure(e).value = e
      BY DEF Failure
    <3>3. QED
      BY <1>1, <1>2, <1>3, <3>1, <3>2 DEF ThreadAgrees, StatusAgrees
  <2>2. ASSUME NEW r \in Results, Return(t, r)
        PROVE  ThreadAgrees(t, f)' /\ StatusAgrees(f)' /\ tpc'[t] # "free" /\ tpc[t] # "free"
    <3>1. /\ status'[f] = status[f] /\ result'[f] = result[f] /\ retval'[t] = r
          /\ told'[f] = IF told[f] = Nothing THEN Success(r) ELSE told[f]
          /\ tpc'[t] = "returned" /\ tpc[t] = "running"
      BY <1>1, <2>2 DEF Return, futureVars
    <3>2. Success(r).status = "FU_SUCCESS" /\ Success(r).value = r
      BY DEF Success
    <3>3. QED
      BY <1>1, <1>2, <1>3, <3>1, <3>2, ToldKinds DEF ThreadAgrees, StatusAgrees
  <2>3. ASSUME Finish(t)
        PROVE  ThreadAgrees(t, f)' /\ StatusAgrees(f)' /\ tpc'[t] # "free" /\ tpc[t] # "free"
    <3>1. told'[f] = told[f] /\ tpc'[t] = "exited" /\ tpc[t] = "returned"
      BY <2>3 DEF Finish, historyVars
    <3>2. CASE status[f] = "FU_ERROR"
      <4>1. status'[f] = status[f] /\ result'[f] = result[f]
        BY <2>3, <3>2 DEF Finish, KeepsError
      <4>2. QED
        BY <1>1, <1>2, <1>3, <3>1, <3>2, <4>1, ToldKinds DEF ThreadAgrees, StatusAgrees
    <3>3. CASE status[f] # "FU_ERROR"
      <4>1. status'[f] = "FU_SUCCESS" /\ retval'[t] = retval[t]
        BY <1>1, <2>3, <3>3 DEF Finish, KeepsError
      <4>2. told[f].status = "FU_SUCCESS"
        BY <1>1, <3>1, <3>3, ToldKinds DEF ThreadAgrees
      <4>3. QED
        BY <1>1, <1>2, <1>3, <3>1, <4>1, <4>2 DEF ThreadAgrees, StatusAgrees
    <3>4. QED
      BY <3>2, <3>3
  <2>4. QED
    BY <2>1, <2>2, <2>3 DEF RunThread
<1>6. ThreadsAgree'
  <2> SUFFICES ASSUME NEW u \in Tids, tpc'[u] # "free" PROVE ThreadAgrees(u, runs[u])'
    BY DEF ThreadsAgree
  <2>1. CASE u = t
    BY <2>1, <1>3, <1>5 DEF ThreadAgrees
  <2>2. CASE u # t
    <3>1. ThreadAgrees(u, runs[u]) /\ tpc'[u] = tpc[u] /\ retval'[u] = retval[u]
      BY <2>2, <1>4 DEF ThreadsAgree
    <3>2. runs[u] # f /\ runs[u] \in Futures
      BY <2>2, <3>1, <1>1 DEF ThreadAgrees
    <3>3. QED
      BY <3>1, <3>2, <1>3, <1>4 DEF ThreadAgrees
  <2>3. QED
    BY <2>1, <2>2
<1>7. FuturesAgree'
  <2> SUFFICES ASSUME NEW g \in Futures, opc'[g] # "gone" PROVE (StatusAgrees(g) /\ KeepsThread(g))'
    BY DEF FuturesAgree
  <2>0. StatusAgrees(g) /\ KeepsThread(g)
    BY <1>3 DEF FuturesAgree
  <2>1. KeepsThread(g)'
    <3>1. \A u \in Tids : tpc[u] # "free" => tpc'[u] # "free"
      BY <1>4, <1>5
    <3>2. QED
      BY <2>0, <3>1, <1>3 DEF KeepsThread
  <2>2. CASE g = f
    BY <2>1, <2>2, <1>3, <1>5 DEF StatusAgrees
  <2>3. CASE g # f
    <3>1. status[g] = "FU_RUNNING" /\ thread[g] \in Tids => thread[g] # t
      BY <2>0, <2>3 DEF StatusAgrees
    <3>2. StatusAgrees(g)'
      BY <2>0, <2>3, <3>1, <1>3, <1>4 DEF StatusAgrees
    <3>3. QED
      BY <2>1, <3>2
  <2>4. QED
    BY <2>2, <2>3
<1>8. AwaitTellsOutcome'
  <2> SUFFICES ASSUME NEW g \in Futures
               PROVE  /\ opc'[g] = "owned" => status'[g] \in {"FU_RUNNING", told'[g].status}
                      /\ opc'[g] = "awaited" /\ g \notin robbed' => answer'[g] = Outcome(g)'
                      /\ opc'[g] = "aborted" => thread'[g] = NoTid
    BY DEF AwaitTellsOutcome, FutureStatus
  <2>1. opc'[g] = "owned" => status'[g] \in {"FU_RUNNING", told'[g].status}
    BY <1>7 DEF FuturesAgree, StatusAgrees
  <2>2. opc[g] \in {"awaited", "aborted"} => g # f
    BY <1>1 DEF ThreadAgrees
  <2>3. QED
    BY <2>1, <2>2, <1>3, <1>4 DEF AwaitTellsOutcome, Outcome, Truncated
<1>9. QED
  BY <1>6, <1>7, <1>8

LEMMA CallStep ==
  ASSUME Inv, TypeOK', platform' = platform, NEW f \in Futures, Await(f) \/ Destroy(f)
  PROVE  ThreadsAgree' /\ FuturesAgree' /\ AwaitTellsOutcome'
<1> USE DEF Inv, TypeOK
<1>1. UNCHANGED <<threadVars, futureVars, answer, historyVars>>
  BY DEF Await, Destroy
<1>2. /\ opc[f] \in {"owned", "awaited"} /\ opc'[f] \in {"await", "destroy"}
      /\ opc'[f] = "await" => opc[f] = "owned"
      /\ \A g \in Futures \ {f} : opc'[g] = opc[g]
  BY DEF Await, Destroy
<1> USE <1>1, <1>2 DEF threadVars, futureVars, historyVars
<1>3. ThreadsAgree'
  BY DEF ThreadsAgree, ThreadAgrees
<1>4. FuturesAgree'
  <2> SUFFICES ASSUME NEW g \in Futures, opc'[g] # "gone" PROVE (StatusAgrees(g) /\ KeepsThread(g))'
    BY DEF FuturesAgree
  <2>1. StatusAgrees(g) /\ KeepsThread(g)
    BY DEF FuturesAgree
  <2>2. opc'[g] \in {"owned", "await"} => opc[g] \in {"owned", "await"}
    OBVIOUS
  <2>3. QED
    BY <2>1, <2>2 DEF StatusAgrees, KeepsThread
<1>5. AwaitTellsOutcome'
  BY DEF AwaitTellsOutcome, FutureStatus, Outcome, Truncated
<1>6. QED
  BY <1>3, <1>4, <1>5

\* A join, of the future's own thread or of another one's.
LEMMA JoinStep ==
  ASSUME Inv, TypeOK', platform' = platform, NEW f \in Futures, Join(f)
  PROVE  ThreadsAgree' /\ FuturesAgree' /\ AwaitTellsOutcome'
<1> DEFINE t == thread[f]
<1> USE FutureAssumption DEF Inv, TypeOK
<1>1. /\ UNCHANGED <<thread, status, result, runs, retval, told>>
      /\ opc[f] \in {"await", "destroy"}
      /\ t \in Tids => tpc[t] \in {"exited", "free"}
  BY DEF Join, Joinable, futureVars
<1>2. /\ t \in Tids => tpc'[t] = "free"
      /\ \A u \in Tids : u # t => tpc'[u] = tpc[u]
  BY <1>1 DEF Join
<1>3. /\ \A g \in Futures \ {f} : opc'[g] = opc[g] /\ answer'[g] = answer[g]
      /\ opc'[f] = IF status[f] = "FU_RUNNING" THEN "aborted"
                   ELSE IF opc[f] = "await" THEN "awaited" ELSE "gone"
      /\ robbed \subseteq robbed'
      /\ t \in Tids /\ tpc[t] = "exited" /\ runs[t] # f => runs[t] \in robbed'
  BY DEF Join, Robs
<1>4. StatusAgrees(f) /\ KeepsThread(f)
  BY <1>1 DEF FuturesAgree
<1>5. ThreadsAgree'
  <2> SUFFICES ASSUME NEW u \in Tids, tpc'[u] # "free" PROVE ThreadAgrees(u, runs[u])'
    BY DEF ThreadsAgree
  <2>1. u # t /\ tpc'[u] = tpc[u]
    BY <1>2
  <2>2. ThreadAgrees(u, runs[u]) /\ runs[u] \in Futures
    BY <2>1 DEF ThreadsAgree
  <2>3. runs[u] # f
    BY <2>1, <2>2 DEF ThreadAgrees
  <2>4. QED
    BY <2>1, <2>2, <2>3, <1>1, <1>3 DEF ThreadAgrees
<1>6. FuturesAgree'
  <2> SUFFICES ASSUME NEW g \in Futures, opc'[g] # "gone" PROVE (StatusAgrees(g) /\ KeepsThread(g))'
    BY DEF FuturesAgree
  <2>1. StatusAgrees(g) /\ KeepsThread(g)
    BY <1>1, <1>3 DEF FuturesAgree
  <2>2. StatusAgrees(g)'
    <3>1. status[g] = "FU_RUNNING" /\ thread[g] \in Tids => thread[g] # t
      BY <2>1, <1>1 DEF StatusAgrees
    <3>2. QED
      BY <2>1, <3>1, <1>1, <1>2 DEF StatusAgrees
  <2>3. KeepsThread(g)'
    <3> SUFFICES ASSUME opc'[g] \in {"owned", "await"}, g \notin robbed', thread[g] \in Tids
                 PROVE  tpc'[thread[g]] # "free" /\ runs[thread[g]] = g
      BY <1>1 DEF KeepsThread
    <3>1. g # f /\ opc[g] \in {"owned", "await"} /\ g \notin robbed
      BY <1>3
    <3>2. tpc[thread[g]] # "free" /\ runs[thread[g]] = g
      BY <2>1, <3>1 DEF KeepsThread
    <3>3. thread[g] # t
      BY <3>1, <3>2, <1>1, <1>3
    <3>4. QED
      BY <3>2, <3>3, <1>2
  <2>4. QED
    BY <2>2, <2>3
<1>7. ASSUME opc'[f] = "awaited", f \notin robbed' PROVE answer'[f] = Outcome(f)'
  <2>1. opc[f] = "await" /\ status[f] # "FU_RUNNING" /\ f \notin robbed
    BY <1>3, <1>7
  <2>2. t \in Tids
    BY <2>1, <1>4 DEF StatusAgrees
  <2>3. tpc[t] = "exited" /\ runs[t] = f
    BY <2>1, <2>2, <1>1, <1>4 DEF KeepsThread
  <2>4. ThreadAgrees(t, f) /\ told[f].status = status[f]
    BY <2>1, <2>2, <2>3, <1>4 DEF ThreadsAgree, StatusAgrees
  <2>5. Outcome(f)' = Outcome(f)
    BY <1>1 DEF Outcome, Truncated
  <2>6. CASE status[f] = "FU_ERROR"
    <3>1. answer'[f] = Failure(result[f])
      BY <2>6 DEF Join
    <3>2. told[f] = Failure(result[f])
      BY <2>4, <2>6, <1>4, ToldKinds DEF StatusAgrees
    <3>3. QED
      BY <2>4, <2>5, <2>6, <3>1, <3>2 DEF Outcome
  <2>7. CASE status[f] = "FU_SUCCESS"
    <3>1. answer'[f] = Success(Truncated(retval[t]))
      BY <2>2, <2>3, <2>7 DEF Join, TmpResult
    <3>2. retval[t] = told[f].value
      BY <2>3, <2>4, <2>7 DEF ThreadAgrees
    <3>3. QED
      BY <2>4, <2>5, <2>7, <3>1, <3>2 DEF Outcome
  <2>8. QED
    BY <2>1, <2>6, <2>7
<1>8. AwaitTellsOutcome'
  <2> SUFFICES ASSUME NEW g \in Futures
               PROVE  /\ opc'[g] = "owned" => status'[g] \in {"FU_RUNNING", told'[g].status}
                      /\ opc'[g] = "awaited" /\ g \notin robbed' => answer'[g] = Outcome(g)'
                      /\ opc'[g] = "aborted" => thread'[g] = NoTid
    BY DEF AwaitTellsOutcome, FutureStatus
  <2>1. CASE g = f
    <3>1. opc'[f] = "aborted" => thread[f] \notin Tids
      BY <1>1, <1>3, <1>4 DEF StatusAgrees
    <3>2. QED
      BY <2>1, <3>1, <1>1, <1>3, <1>7
  <2>2. CASE g # f
    BY <2>2, <1>1, <1>3 DEF AwaitTellsOutcome, FutureStatus, Outcome, Truncated
  <2>3. QED
    BY <2>1, <2>2
<1>9. QED
  BY <1>5, <1>6, <1>8

-----------------------------------------------------------------------------
(* The theorems *)

LEMMA StepInv == Inv /\ [Next]_vars => Inv'
<1> SUFFICES ASSUME Inv, [Next]_vars PROVE Inv'
  OBVIOUS
<1>1. TypeOK' /\ platform' = platform
  BY StepType DEF Inv, Next, vars
<1>2. CASE UNCHANGED vars
  BY <1>1, <1>2
     DEF Inv, vars, threadVars, futureVars, historyVars, ThreadsAgree, ThreadAgrees,
         FuturesAgree, StatusAgrees, KeepsThread, AwaitTellsOutcome, FutureStatus,
         Outcome, Truncated
<1>3. ASSUME NEW t \in Tids, RunThread(t) PROVE Inv'
  BY <1>1, <1>3, ThreadStep DEF Inv
<1>4. ASSUME NEW f \in Futures, Owner(f) PROVE Inv'
  BY <1>1, <1>4, CreateStep, CallStep, JoinStep DEF Inv, Owner
<1>5. QED
  BY <1>2, <1>3, <1>4 DEF Next

\* The invariant is one, however many futures share however few thread ids.
THEOREM InvHolds == Spec => []Inv
  BY InitInv, StepInv, PTL DEF Spec

\* future_await returns what the function did, unless the thread was joined by
\* the destruction of another future; future_status tells nothing early; and
\* only a future whose thread could not be created aborts (future.c:28-36, 52,
\* 57, 82-102).
THEOREM AwaitIsTrue == Spec => []AwaitTellsOutcome
  BY InvHolds, PTL DEF Inv

\* No thread touches a future that was freed (future.c:55-60, 73-77).
THEOREM NoUseAfterDestroy == Spec => []DestroyedIsUnused
<1>1. Inv => DestroyedIsUnused
  BY DEF Inv, ThreadsAgree, ThreadAgrees, DestroyedIsUnused
<1>2. QED
  BY <1>1, InvHolds, PTL
=============================================================================
