------------------------------ MODULE TaskPool ------------------------------
(***************************************************************************)
(* What a session pool promises to the server that uses it, with no        *)
(* threads, mutexes or flags: a session that is flushed becomes pending    *)
(* and is later run (handed to server_process_session) exactly once for    *)
(* any number of flushes that came before the run; sessions are run one at *)
(* a time; and while one runs none is added, flushed or removed, so that a *)
(* removed session is never running and never runs again.                  *)
(***************************************************************************)
CONSTANT Sessions

VARIABLES
  held,     \* the sessions the pool has been given and not asked to remove
  pending,  \* the sessions flushed since they were last run
  running   \* the session being run, if any

vars == <<held, pending, running>>

TypeOK ==
  /\ held \in SUBSET Sessions
  /\ pending \in SUBSET held
  /\ running \in {{}} \cup {{s} : s \in held}

Init ==
  /\ held = {}
  /\ pending = {}
  /\ running = {}

Add(s) ==
  /\ running = {}
  /\ s \notin held
  /\ held' = held \cup {s}
  /\ UNCHANGED <<pending, running>>

Flush(s) ==
  /\ running = {}
  /\ s \in held
  /\ pending' = pending \cup {s}
  /\ UNCHANGED <<held, running>>

Remove(s) ==
  /\ running = {}
  /\ s \in held
  /\ held' = held \ {s}
  /\ pending' = pending \ {s}
  /\ UNCHANGED running

Start(s) ==
  /\ running = {}
  /\ s \in pending
  /\ pending' = pending \ {s}
  /\ running' = {s}
  /\ UNCHANGED held

Finish ==
  /\ running # {}
  /\ running' = {}
  /\ UNCHANGED <<held, pending>>

Next ==
  \/ \E s \in Sessions : Add(s) \/ Flush(s) \/ Remove(s) \/ Start(s)
  \/ Finish

Spec == Init /\ [][Next]_vars
=============================================================================
