------------------------- MODULE MCWaitBlockerSet -------------------------
(* A small instance of WaitBlockerSet for TLC. *)
EXTENDS WaitBlockerSet, TLC

CONSTANTS t1, t2, c1, c2

\* A wait for any child that dies, a wait for one child and a look, with
\* WNOWAIT, at whatever happens in the process group of one child.
MCWaits ==
    {ReapWait,
     [idtype |-> "P_PID",  waitee |-> {c1},     states |-> UnblockFlags, is_wait |-> TRUE],
     [idtype |-> "P_PGID", waitee |-> {c1},     states |-> UnblockFlags, is_wait |-> FALSE]}
===========================================================================
