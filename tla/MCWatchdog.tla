----------------------------- MODULE MCWatchdog -----------------------------
(* Watchdog for TLC: one pid more than services, so that pids come back. *)
EXTENDS Watchdog

CONSTANTS p1, p2, p3

ThreePids     == {p1, p2, p3}
BothPlatforms == {"posix", "win32"}
=============================================================================
