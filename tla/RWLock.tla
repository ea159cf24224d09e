------------------------------- MODULE RWLock -------------------------------
(***************************************************************************)
(* What Kernel::Mutex promises to the code that uses it, with no mention   *)
(* of modes, counters or lists.  A claim <<t, l, m>> is one pending or     *)
(* granted lock() call of thread t, made at place l, that asked for mode   *)
(* m.  The lock is the set of claims it has granted; the promise is that   *)
(* the granted claims never conflict, that nobody is handed the lock       *)
(* without having asked, and that a release which leaves the lock free     *)
(* hands it over at once if anybody is waiting.                            *)
(***************************************************************************)
CONSTANT Claims

VARIABLES granted,   \* the claims that hold the lock
          pending,   \* the claims of blocked lock() calls
          dropped    \* the claims given up by a thread that will take them back

absVars == <<granted, pending, dropped>>

\* An exclusive claim tolerates no claim of another thread beside it.
Compatible(C) ==
    \A c, d \in C : c[1] # d[1] => c[3] = "Shared" /\ d[3] = "Shared"

Init == granted = {} /\ pending = {} /\ dropped = {}

\* A lock() call that returns without blocking.
Acquire(c) ==
    /\ Compatible(granted \cup {c})
    /\ granted' = granted \cup {c}
    /\ UNCHANGED <<pending, dropped>>

\* A lock() call that blocks: the lock is held by somebody.
Enqueue(c) ==
    /\ granted # {}
    /\ pending' = pending \cup {c}
    /\ UNCHANGED <<granted, dropped>>

\* The claims C leave the lock and the claims G enter it.
HandOver(C, G) ==
    /\ C # {}
    /\ granted' = (granted \ C) \cup G
    /\ pending' = pending \ G
    /\ Compatible(granted')
    /\ granted' = {} => pending' = {}

Release(C, G) == HandOver(C, G) /\ UNCHANGED dropped

\* The thread that drops its claims keeps the right to have them again.
Drop(C, G) == HandOver(C, G) /\ dropped' = dropped \cup C

TakeBack(C) ==
    /\ C # {}
    /\ dropped' = dropped \ C
    /\ \/ /\ Compatible(granted \cup C)
          /\ granted' = granted \cup C
          /\ UNCHANGED pending
       \/ /\ granted # {}
          /\ pending' = pending \cup C
          /\ UNCHANGED granted

Next ==
    \/ \E c \in Claims : Acquire(c) \/ Enqueue(c)
    \/ \E C \in SUBSET granted, G \in SUBSET pending : Release(C, G) \/ Drop(C, G)
    \/ \E C \in SUBSET dropped : TakeBack(C)

Spec == Init /\ [][Next]_absVars
=============================================================================
