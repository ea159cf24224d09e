------------------------------- MODULE MCMutex -------------------------------
(* The instances of Mutex that TLC checks. *)
EXTENDS Mutex

CONSTANTS t1, t2, t3, t4, l1, l2
=============================================================================
