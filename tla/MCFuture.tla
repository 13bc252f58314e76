------------------------------ MODULE MCFuture ------------------------------
(* Future for TLC: two futures, so that the id of a thread comes back. *)
EXTENDS Future, TLC

CONSTANTS f1, f2, t1, t2, r1, r2, e1, e2

TwoFutures == {f1, f2}
TwoTids    == {t1, t2}
TwoResults == {r1, r2}
TwoErrors  == {e1, e2}

\* r2 is a pointer of 64 bits, whose lower half is r1.
Half         == [r \in {r1, r2} |-> r1]
AllPlatforms == {"posix", "win32"}

Symmetry ==
  Permutations(Futures) \cup Permutations(Tids) \cup Permutations(Errors)
=============================================================================
