----------------------------- MODULE MCSemaphore -----------------------------
(* The instance of Semaphore that TLC checks. *)
EXTENDS Semaphore

CONSTANTS t1, t2, t3, t4
=============================================================================
