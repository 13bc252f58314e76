--------------------------- MODULE MCSessionPool ---------------------------
(***************************************************************************)
(* Instances of SessionPool for TLC.                                       *)
(***************************************************************************)
EXTENDS SessionPool

CONSTANTS s1, s2, s3

ThreeSessions == {s1, s2, s3}
=============================================================================
