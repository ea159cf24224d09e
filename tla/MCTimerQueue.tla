----------------------------- MODULE MCTimerQueue -----------------------------
(* The instance of TimerQueue that TLC checks. *)
EXTENDS TimerQueue

CONSTANTS t1, t2, t3
=============================================================================
