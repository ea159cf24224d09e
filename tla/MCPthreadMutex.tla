---------------------------- MODULE MCPthreadMutex ----------------------------
(* The instance of PthreadMutex that TLC checks. *)
EXTENDS PthreadMutex

CONSTANTS t1, t2, t3
=============================================================================
