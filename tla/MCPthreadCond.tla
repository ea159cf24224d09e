---------------------------- MODULE MCPthreadCond ----------------------------
(* The instances of PthreadCond that TLC checks. *)
EXTENDS PthreadCond, TLC

CONSTANTS t1, t2, t3

Symmetry == Permutations(Threads)

\* When a caller has unlocked a mutex that it does not hold, two threads can
\* be inside and count each other's level up and down without end.  TLC looks
\* at that unlock and not beyond.
BeforeTheTrespass == ~trespassed
=============================================================================
