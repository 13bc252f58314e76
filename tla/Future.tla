------------------------------- MODULE Future -------------------------------
(***************************************************************************)
(* The futures of src/util/future.c: each runs a function on a thread of   *)
(* its own, which returns a result or notifies an error; its owner awaits  *)
(* and destroys it. Thread ids, which are handles on Windows, are handed out *)
(* again once they are joined.                                             *)
(***************************************************************************)
CONSTANTS
  Futures,      \* the addresses a Future may have
  Tids,         \* the values a pthread_t may have
  NoTid,        \* the pthread_t of a future whose thread was not created
  Results,      \* what a function may return
  Errors,       \* what it may notify
  Indeterminate,\* the value of an uninitialised variable
  CreateFails,  \* may pthread_create fail?
  DwordOf,      \* what is left of a result in the exit code of a thread
  Platforms     \* the platforms a program may run on

ASSUME FutureAssumption ==
  /\ NoTid \notin Tids
  /\ Indeterminate \notin Results \cup Errors
  /\ CreateFails \in BOOLEAN
  /\ DwordOf \in [Results -> Results]
  /\ Platforms \subseteq {"posix", "win32"}

VARIABLES
  platform, \* the one this program runs on
  thread,   \* future->thread
  status,   \* future->status
  result,   \* future->result
  tpc,      \* where the thread of every id is in run_thread
  runs,     \* the future it runs
  retval,   \* its local r, which it returns
  opc,      \* where the owner of every future is
  answer,   \* what future_await returned last
  told,     \* history: what the function notified last, or else returned
  robbed    \* history: the futures whose thread another one's owner joined

threadVars == <<tpc, runs, retval>>
futureVars == <<thread, status, result>>
historyVars == <<told, robbed>>
vars == <<platform, threadVars, futureVars, opc, answer, historyVars>>

Nothing    == [status |-> "FU_RUNNING", value |-> Indeterminate]
Success(r) == [status |-> "FU_SUCCESS", value |-> r]
Failure(e) == [status |-> "FU_ERROR", value |-> e]

Init ==
  /\ platform \in Platforms
  /\ thread = [f \in Futures |-> NoTid]
  /\ status = [f \in Futures |-> "FU_RUNNING"]
  /\ result = [f \in Futures |-> Indeterminate]
  /\ tpc = [t \in Tids |-> "free"]
  /\ runs \in [Tids -> Futures]
  /\ retval = [t \in Tids |-> Indeterminate]
  /\ opc = [f \in Futures |-> "gone"]
  /\ answer = [f \in Futures |-> Nothing]
  /\ told = [f \in Futures |-> Nothing]
  /\ robbed = {}

-----------------------------------------------------------------------------
(* future_create *)

Created(f, t) ==
  /\ opc[f] = "gone"
  /\ thread' = [thread EXCEPT ![f] = t]
  /\ status' = [status EXCEPT ![f] = "FU_RUNNING"]
  /\ result' = [result EXCEPT ![f] = Indeterminate]
  /\ opc' = [opc EXCEPT ![f] = "owned"]
  /\ answer' = [answer EXCEPT ![f] = Nothing]
  /\ told' = [told EXCEPT ![f] = Nothing]
  /\ robbed' = robbed \ {f}

Create(f) ==
  \E t \in Tids :
    /\ tpc[t] = "free"
    /\ Created(f, t)
    /\ tpc' = [tpc EXCEPT ![t] = "running"]
    /\ runs' = [runs EXCEPT ![t] = f]
    /\ UNCHANGED retval

\* The return value of pthread_create is not looked at.
CreateUnchecked(f) ==
  /\ CreateFails
  /\ Created(f, NoTid)
  /\ UNCHANGED threadVars

-----------------------------------------------------------------------------
(* run_thread *)

\* The function calls future_notify_error, any number of times.
NotifyError(t, e) ==
  /\ tpc[t] = "running"
  /\ status' = [status EXCEPT ![runs[t]] = "FU_ERROR"]
  /\ result' = [result EXCEPT ![runs[t]] = e]
  /\ told' = [told EXCEPT ![runs[t]] = Failure(e)]
  /\ UNCHANGED <<threadVars, thread, opc, answer, robbed>>

Return(t, r) ==
  /\ tpc[t] = "running"
  /\ tpc' = [tpc EXCEPT ![t] = "returned"]
  /\ retval' = [retval EXCEPT ![t] = r]
  /\ told' = [told EXCEPT ![runs[t]] = IF @ = Nothing THEN Success(r) ELSE @]
  /\ UNCHANGED <<futureVars, runs, opc, answer, robbed>>

\* Mutant of KeepsError: the error is overwritten.
KeepsErrorForgets(f) == FALSE

KeepsError(f) == status[f] = "FU_ERROR"

\* The critical section that ends the thread.
Finish(t) ==
  /\ tpc[t] = "returned"
  /\ LET f == runs[t]
     IN  IF KeepsError(f)
           THEN /\ retval' = [retval EXCEPT ![t] = result[f]]
                /\ UNCHANGED <<status, result>>
           ELSE /\ status' = [status EXCEPT ![f] = "FU_SUCCESS"]
                /\ result' = [result EXCEPT ![f] = retval[t]]
                /\ UNCHANGED retval
  /\ tpc' = [tpc EXCEPT ![t] = "exited"]
  /\ UNCHANGED <<thread, runs, opc, answer, historyVars>>

-----------------------------------------------------------------------------
(* future_await and future_destroy, which begins with future_await *)

Await(f) ==
  /\ opc[f] = "owned"
  /\ opc' = [opc EXCEPT ![f] = "await"]
  /\ UNCHANGED <<threadVars, futureVars, answer, historyVars>>

Destroy(f) ==
  /\ opc[f] \in {"owned", "awaited"}
  /\ opc' = [opc EXCEPT ![f] = "destroy"]
  /\ UNCHANGED <<threadVars, futureVars, answer, historyVars>>

\* Mutant of Joinable: the thread is not waited for.
JoinableAtOnce(t) == TRUE

\* pthread_join waits for a thread. With an id that no thread has it returns
\* an error (or does worse), and tmp_result stays as it is.
Joinable(t) == t \in Tids => tpc[t] \in {"exited", "free"}

\* On Windows the result went through the exit code of the thread, a DWORD.
Truncated(r) ==
  IF platform = "win32" /\ r \in Results THEN DwordOf[r] ELSE r

TmpResult(t) ==
  IF t \in Tids /\ tpc[t] = "exited" THEN Truncated(retval[t])
  ELSE Indeterminate

\* The future whose thread this join takes from its owner.
Robs(f, t) ==
  IF t \in Tids /\ tpc[t] = "exited" THEN {runs[t]} \ {f} ELSE {}

Join(f) ==
  LET t == thread[f]
  IN  /\ opc[f] \in {"await", "destroy"}
      /\ Joinable(t)
      /\ tpc' = [u \in Tids |->
                   IF u = t /\ tpc[u] = "exited" THEN "free" ELSE tpc[u]]
      /\ \/ /\ status[f] = "FU_ERROR"
            /\ answer' = [answer EXCEPT ![f] = Failure(result[f])]
         \/ /\ status[f] = "FU_SUCCESS"
            /\ answer' = [answer EXCEPT ![f] = Success(TmpResult(t))]
         \/ /\ status[f] = "FU_RUNNING"
            /\ UNCHANGED answer
      /\ opc' = [opc EXCEPT ![f] =
                   IF status[f] = "FU_RUNNING" THEN "aborted"
                   ELSE IF @ = "await" THEN "awaited" ELSE "gone"]
      /\ robbed' = robbed \cup Robs(f, t)
      /\ UNCHANGED <<futureVars, runs, retval, told>>

\* What future_status tells, under the mutex.
FutureStatus(f) == status[f]

-----------------------------------------------------------------------------
RunThread(t) ==
  \/ \E e \in Errors : NotifyError(t, e)
  \/ \E r \in Results : Return(t, r)
  \/ Finish(t)

Owner(f) ==
  Create(f) \/ CreateUnchecked(f) \/ Await(f) \/ Destroy(f) \/ Join(f)

\* abort() ends the process.
Aborted == \E f \in Futures : opc[f] = "aborted"

Next ==
  \/ /\ ~Aborted
     /\ UNCHANGED platform
     /\ \/ \E t \in Tids : RunThread(t)
        \/ \E f \in Futures : Owner(f)
  \/ Aborted /\ UNCHANGED vars

Spec == Init /\ [][Next]_vars

-----------------------------------------------------------------------------
(* Properties *)

TypeOK ==
  /\ platform \in Platforms
  /\ thread \in [Futures -> Tids \cup {NoTid}]
  /\ status \in [Futures -> {"FU_SUCCESS", "FU_ERROR", "FU_RUNNING"}]
  /\ result \in [Futures -> Results \cup Errors \cup {Indeterminate}]
  /\ tpc \in [Tids -> {"free", "running", "returned", "exited"}]
  /\ runs \in [Tids -> Futures]
  /\ retval \in [Tids -> Results \cup Errors \cup {Indeterminate}]
  /\ opc \in [Futures -> {"gone", "owned", "await", "awaited", "destroy", "aborted"}]
  /\ answer \in [Futures -> {Nothing}
       \cup {Success(r) : r \in Results \cup Errors \cup {Indeterminate}}
       \cup {Failure(e) : e \in Results \cup Errors \cup {Indeterminate}}]
  /\ told \in [Futures -> {Nothing} \cup {Success(r) : r \in Results}
                                   \cup {Failure(e) : e \in Errors}]
  /\ robbed \in SUBSET Futures

\* What future_await is to tell of a future whose function did this. On Windows
\* a result that is wider than a DWORD does not pass pthread_join.
Outcome(f) ==
  IF told[f].status = "FU_SUCCESS"
    THEN Success(Truncated(told[f].value)) ELSE told[f]

\* future_await returns what the function did, "FU_ERROR" with the error it
\* notified or "FU_SUCCESS" with the result it returned (tests/future.cc:30-31
\* and 40-41), whatever the order of notice, return and await (lines 28-36 and
\* 82-91) and whichever threads had its id before. Only a future whose thread
\* was joined by the future_destroy of another, which had been awaited (line
\* 57) and joined the same id once more, may miss its result; and only one whose
\* thread could not be created (line 52) reaches the abort of line 93. As long
\* as the owner has not awaited it, future_status never tells that it failed or
\* succeeded before it did (lines 96-102).
AwaitTellsOutcome ==
  \A f \in Futures :
    /\ opc[f] = "owned" => FutureStatus(f) \in {"FU_RUNNING", told[f].status}
    /\ opc[f] = "awaited" /\ f \notin robbed => answer[f] = Outcome(f)
    /\ opc[f] = "aborted" => thread[f] = NoTid

\* No thread touches a future that was freed (lines 55-60 and 73-77).
DestroyedIsUnused ==
  \A t \in Tids : tpc[t] \in {"running", "returned"} => opc[runs[t]] # "gone"
=============================================================================
