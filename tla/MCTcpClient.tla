----------------------------- MODULE MCTcpClient -----------------------------
(* Instances of TcpClient for TLC: a second of two milliseconds, and timeouts *)
(* that are shorter and as long; a reply may need several receives.           *)
EXTENDS TcpClient

ShortTimeouts == {0, 1}
=============================================================================
