---------------------------- MODULE MCSessionHash ----------------------------
(* Instances of SessionHash for TLC. By the hash function, three of these    *)
(* descriptors share a bucket of two and two of them one of four, so that    *)
(* three connections expand the table more than once and fill it unevenly.   *)
EXTENDS SessionHash, TLC

CONSTANTS e1, e2, e3

ThreeEntries == {e1, e2, e3}
Hashes == 6 :> 16398 @@ 7 :> 22266 @@ 9 :> 4929 @@ 11 :> 30904
=============================================================================
