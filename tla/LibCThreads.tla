----------------------------- MODULE LibCThreads -----------------------------
(***************************************************************************)
(* What the modules about LibC have in common: the threads of a process,   *)
(* where each is in its calls, and the futex of the mutex or semaphore     *)
(* that they use, see FutexSpec.                                           *)
(***************************************************************************)
EXTENDS Naturals, FiniteSets

CONSTANT Threads

VARIABLES waiters, expected, waking,     \* the futex
          pc                             \* where a thread is

futex == <<waiters, expected, waking>>

Goto(t, where) == pc' = [pc EXCEPT ![t] = where]
=============================================================================
