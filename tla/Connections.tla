----------------------------- MODULE Connections -----------------------------
(***************************************************************************)
(* What a server promises about its connections, with no sessions, events, *)
(* callbacks or poller: a connection gets a descriptor that nobody uses,   *)
(* is served before the next one is accepted, and stays with the server    *)
(* until its client has left or the server was asked to terminate.         *)
(***************************************************************************)
CONSTANT Fds

VARIABLES
  sock,                  \* the kernel's view: closed, open, or left by the client
  served,                \* the descriptors of server->session_hash
  termination_requested

vars == <<sock, served, termination_requested>>

Init ==
  /\ sock = [f \in Fds |-> "closed"]
  /\ served = {}
  /\ termination_requested = FALSE

\* The client may have left already. It is served at once or later.
Accept(f) ==
  /\ sock[f] = "closed"
  /\ {g \in Fds : sock[g] # "closed"} \subseteq served
  /\ \E state \in {"open", "hup"} : sock' = [sock EXCEPT ![f] = state]
  /\ served' \in {served, served \cup {f}}
  /\ UNCHANGED termination_requested

Serve(f) ==
  /\ sock[f] # "closed"
  /\ f \notin served
  /\ served' = served \cup {f}
  /\ UNCHANGED <<sock, termination_requested>>

Leave(f) ==
  /\ sock[f] = "open"
  /\ sock' = [sock EXCEPT ![f] = "hup"]
  /\ UNCHANGED <<served, termination_requested>>

\* The socket is closed and the session is gone at the same time.
Release(f) ==
  /\ f \in served
  /\ sock[f] # "closed"
  /\ sock[f] = "hup" \/ termination_requested
  /\ sock' = [sock EXCEPT ![f] = "closed"]
  /\ served' = served \ {f}
  /\ UNCHANGED termination_requested

Terminate ==
  /\ ~termination_requested
  /\ termination_requested' = TRUE
  /\ UNCHANGED <<sock, served>>

Next ==
  \/ \E f \in Fds : Accept(f) \/ Serve(f) \/ Leave(f) \/ Release(f)
  \/ Terminate

Spec == Init /\ [][Next]_vars
=============================================================================
