------------------------------- MODULE MCFutex -------------------------------
(* The instances of Futex that TLC checks. *)
EXTENDS Futex

CONSTANTS t1, t2, t3, q1, q2, q3, q4

Symmetry == Permutations(Queues) \cup UNION {Permutations(P) : P \in Processes}
=============================================================================
