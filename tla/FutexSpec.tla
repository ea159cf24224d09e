------------------------------ MODULE FutexSpec ------------------------------
(***************************************************************************)
(* What a futex promises the threads of a process                          *)
(* (Base/usr/share/man/man2/futex.md): comparing the word and starting to  *)
(* wait is one step, and a wake-up finds everybody who waits.              *)
(***************************************************************************)
EXTENDS Naturals, FiniteSets

CONSTANTS Threads, Values

VARIABLES word,      \* the user's 32-bit integer
          waiters,   \* the threads that wait
          expected,  \* the value each of them compares the word with
          waking     \* how many threads each wake call in progress is to wake

specVars == <<word, waiters, expected, waking>>

Init ==
    /\ word \in Values /\ waiters = {}
    /\ expected \in [Threads -> Values] /\ waking = [t \in Threads |-> 0]

Store(v) == word' = v /\ UNCHANGED <<waiters, expected, waking>>

\* A call is made, and goes on to wait only while the word has the value.
CallWait(t, v) ==
    /\ t \notin waiters
    /\ expected' = [expected EXCEPT ![t] = v]
    /\ UNCHANGED <<word, waiters, waking>>

Wait(t) ==
    /\ word = expected[t]
    /\ waiters' = waiters \cup {t}
    /\ UNCHANGED <<word, expected, waking>>

\* A timeout or a signal ends the wait.
GiveUp(t) == waiters' = waiters \ {t} /\ UNCHANGED <<word, expected, waking>>

\* A wake-up of n threads wakes n, or everybody when fewer wait.
CallWake(t, n) ==
    /\ waking[t] = 0
    /\ waking' = [waking EXCEPT ![t] = n]
    /\ UNCHANGED <<word, waiters, expected>>

Wake(t) ==
    /\ waking[t] > 0
    /\ \E G \in SUBSET waiters :
          /\ Cardinality(G) = waking[t] \/ (Cardinality(G) < waking[t] /\ G = waiters)
          /\ waiters' = waiters \ G
    /\ waking' = [waking EXCEPT ![t] = 0]
    /\ UNCHANGED <<word, expected>>

Next ==
    \/ \E v \in Values : Store(v)
    \/ \E t \in Threads :
          \/ \E v \in Values : CallWait(t, v)
          \/ \E n \in 1..Cardinality(Threads) : CallWake(t, n)
          \/ Wait(t) \/ GiveUp(t) \/ Wake(t)

Spec == Init /\ [][Next]_specVars
=============================================================================
