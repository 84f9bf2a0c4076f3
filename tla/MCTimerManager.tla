--------------------------- MODULE MCTimerManager ---------------------------
(***************************************************************************)
(* Instance of TimerManager for TLC: connections on two threads add and    *)
(* cancel timers, and either thread may shut the manager down.             *)
(***************************************************************************)
EXTENDS TimerManager

CONSTANTS c1, c2
=============================================================================
