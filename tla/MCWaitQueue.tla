----------------------------- MODULE MCWaitQueue -----------------------------
(* The instances of WaitQueue that TLC checks. *)
EXTENDS WaitQueue

CONSTANTS t1, t2, w1, w2
=============================================================================
