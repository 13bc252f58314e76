------------------------------ MODULE MCServer ------------------------------
(***************************************************************************)
(* Instances of Server for TLC.                                            *)
(***************************************************************************)
EXTENDS Server

CONSTANTS s1, s2

TwoFds      == {5, 6}
TwoSessions == {s1, s2}

\* server_init with and without threads, with callbacks that fail or do not.
AllConfigs    == [threaded : BOOLEAN, on_recv_fails : BOOLEAN]
FailingOnRecv == {c \in AllConfigs : c.threaded /\ c.on_recv_fails}
=============================================================================
