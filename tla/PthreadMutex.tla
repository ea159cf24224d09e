----------------------------- MODULE PthreadMutex -----------------------------
(***************************************************************************)
(* pthread_mutex_t of LibC (Userland/Libraries/LibC/pthread_integration.   *)
(* cpp): a word that is unlocked, locked, or locked with somebody to wake, *)
(* and a futex on it.  The step is one atomic operation on shared memory   *)
(* or one system call.  The futex is FutexSpec, which module Futex is      *)
(* shown to implement for the threads of one process (the mutex always     *)
(* passes process_shared = false); waits may end spuriously.               *)
(***************************************************************************)
EXTENDS LibCThreads

CONSTANTS NoThread,   \* owner = 0
          Type,       \* "NORMAL" or "RECURSIVE"
          MaxLevel    \* bounds the recursion

ASSUME PthreadAssumption ==
    /\ IsFiniteSet(Threads) /\ NoThread \notin Threads
    /\ Type \in {"NORMAL", "RECURSIVE"} /\ MaxLevel \in Nat

MUTEX_UNLOCKED               == 0
MUTEX_LOCKED_NO_NEED_TO_WAKE == 1
MUTEX_LOCKED_NEED_TO_WAKE    == 2

VARIABLES lock, owner, level,            \* the fields of pthread_mutex_t
          pessimistic,                   \* threads in __pthread_mutex_lock_pessimistic_np()
          depth                          \* ghost: lock() calls not undone, of each thread

vars == <<lock, owner, level, futex, pc, pessimistic, depth>>

Futex == INSTANCE FutexSpec WITH
    Values <- {MUTEX_UNLOCKED, MUTEX_LOCKED_NO_NEED_TO_WAKE, MUTEX_LOCKED_NEED_TO_WAKE},
    word <- lock

Init ==
    /\ lock = MUTEX_UNLOCKED /\ owner = NoThread /\ level = 0
    /\ waiters = {}
    /\ expected = [t \in Threads |-> MUTEX_LOCKED_NEED_TO_WAKE]
    /\ waking = [t \in Threads |-> 0]
    /\ pc = [t \in Threads |-> "outside"]
    /\ pessimistic = {}
    /\ depth = [t \in Threads |-> 0]

-----------------------------------------------------------------------------
\* The compare-exchange that lock() and trylock() begin with succeeds.
FastPath(t) ==
    /\ pc[t] = "outside"
    /\ lock = MUTEX_UNLOCKED
    /\ lock' = MUTEX_LOCKED_NO_NEED_TO_WAKE
    /\ Goto(t, "locked")
    /\ UNCHANGED <<owner, level, futex, pessimistic, depth>>

\* It fails, and the owner of a recursive mutex is the caller.
LockAgain(t) ==
    /\ pc[t] = "inside" /\ lock # MUTEX_UNLOCKED
    /\ Type = "RECURSIVE" /\ owner = t
    /\ level < MaxLevel
    /\ level' = level + 1
    /\ depth' = [depth EXCEPT ![t] = @ + 1]
    /\ UNCHANGED <<lock, owner, futex, pc, pessimistic>>

\* It fails in lock(): to the slow path, with the value it has seen.  (It
\* fails in trylock(): EBUSY, and nothing changes.)
SlowPath(t) ==
    /\ pc[t] = "outside" /\ lock # MUTEX_UNLOCKED
    /\ Type = "RECURSIVE" => owner # t
    /\ Goto(t, IF lock = MUTEX_LOCKED_NEED_TO_WAKE THEN "wait" ELSE "exchange")
    /\ UNCHANGED <<lock, owner, level, futex, pessimistic, depth>>

\* A condition variable locks its mutex again: a step of module PthreadCond.
LockPessimistic(t) ==
    /\ pc[t] = "outside"
    /\ pessimistic' = pessimistic \cup {t}
    /\ Goto(t, "exchange")
    /\ UNCHANGED <<lock, owner, level, futex, depth>>

\* It does not look at the owner.  A caller that has the mutex already finds it
\* locked, makes the word say so, and waits for itself from then on.
LockOwn(t) ==
    /\ pc[t] = "inside"
    /\ lock' = MUTEX_LOCKED_NEED_TO_WAKE
    /\ UNCHANGED <<owner, level, futex, pc, pessimistic, depth>>

\* Fault: a load and a store in place of an exchange; the load is forgotten.
ExchangeBlindly(t) ==
    /\ pc[t] = "exchange"
    /\ lock' = MUTEX_LOCKED_NEED_TO_WAKE
    /\ Goto(t, "locked")
    /\ UNCHANGED <<owner, level, futex, pessimistic, depth>>

\* The exchange tells whether the mutex was free.
Exchange(t) ==
    /\ pc[t] = "exchange"
    /\ lock' = MUTEX_LOCKED_NEED_TO_WAKE
    /\ Goto(t, IF lock = MUTEX_UNLOCKED THEN "locked" ELSE "wait")
    /\ expected' = IF lock # MUTEX_UNLOCKED /\ t \in pessimistic
                     THEN [expected EXCEPT ![t] = lock] ELSE expected
    /\ UNCHANGED <<owner, level, waiters, waking, pessimistic, depth>>

\* Fault: futex_wait() is called without a value to compare.
FutexWaitAnyway(t) ==
    /\ pc[t] = "wait"
    /\ waiters' = waiters \cup {t}
    /\ Goto(t, "asleep")
    /\ UNCHANGED <<lock, owner, level, expected, waking, pessimistic, depth>>

\* futex_wait(): sleep, or EAGAIN and round again.
FutexWait(t) ==
    /\ pc[t] = "wait"
    /\ IF lock = expected[t]
         THEN Futex!Wait(t) /\ Goto(t, "asleep")
         ELSE Goto(t, "exchange") /\ UNCHANGED <<lock, futex>>
    /\ UNCHANGED <<owner, level, pessimistic, depth>>

\* A signal ends the sleep.
Interrupt(t) ==
    /\ t \in waiters
    /\ Futex!GiveUp(t)
    /\ UNCHANGED <<owner, level, pc, pessimistic, depth>>

FutexWaitReturns(t) ==
    /\ pc[t] = "asleep" /\ t \notin waiters
    /\ Goto(t, "exchange")
    /\ UNCHANGED <<lock, owner, level, futex, pessimistic, depth>>

\* Fault: the level is not reset.
LockReturnsKeepsLevel(t) ==
    /\ pc[t] = "locked"
    /\ owner' = IF Type = "RECURSIVE" THEN t ELSE owner
    /\ level' = level + 1
    /\ Goto(t, "inside")
    /\ expected' = [expected EXCEPT ![t] = MUTEX_LOCKED_NEED_TO_WAKE]
    /\ pessimistic' = pessimistic \ {t}
    /\ depth' = [depth EXCEPT ![t] = 1]
    /\ UNCHANGED <<lock, waiters, waking>>

\* The end of lock(): the owner and the level are set.
LockReturns(t) ==
    /\ pc[t] = "locked"
    /\ owner' = IF Type = "RECURSIVE" THEN t ELSE owner
    /\ level' = 0
    /\ Goto(t, "inside")
    /\ expected' = [expected EXCEPT ![t] = MUTEX_LOCKED_NEED_TO_WAKE]
    /\ pessimistic' = pessimistic \ {t}
    /\ depth' = [depth EXCEPT ![t] = 1]
    /\ UNCHANGED <<lock, waiters, waking>>

-----------------------------------------------------------------------------
UnlockLevel(t) ==
    /\ pc[t] = "inside"
    /\ Type = "RECURSIVE" /\ level > 0
    /\ level' = level - 1
    /\ depth' = [depth EXCEPT ![t] = @ - 1]
    /\ UNCHANGED <<lock, owner, futex, pc, pessimistic>>

\* The last unlock(): first the owner is cleared ...
UnlockOwner(t) ==
    /\ pc[t] = "inside"
    /\ Type = "RECURSIVE" => level = 0
    /\ owner' = IF Type = "RECURSIVE" THEN NoThread ELSE owner
    /\ Goto(t, "unlock")
    /\ depth' = [depth EXCEPT ![t] = @ - 1]
    /\ UNCHANGED <<lock, level, futex, pessimistic>>

\* Fault: nobody is woken.
UnlockExchangeQuietly(t) ==
    /\ pc[t] = "unlock"
    /\ lock' = MUTEX_UNLOCKED
    /\ Goto(t, "outside")
    /\ UNCHANGED <<owner, level, futex, pessimistic, depth>>

\* ... then the mutex is freed ...
UnlockExchange(t) ==
    /\ pc[t] = "unlock"
    /\ lock' = MUTEX_UNLOCKED
    /\ IF lock = MUTEX_LOCKED_NEED_TO_WAKE
         THEN waking' = [waking EXCEPT ![t] = 1] /\ Goto(t, "wake")
         ELSE UNCHANGED waking /\ Goto(t, "outside")
    /\ UNCHANGED <<owner, level, waiters, expected, pessimistic, depth>>

\* ... and one thread is woken.
FutexWake(t) ==
    /\ pc[t] = "wake"
    /\ Futex!Wake(t)
    /\ Goto(t, "outside")
    /\ UNCHANGED <<owner, level, pessimistic, depth>>

-----------------------------------------------------------------------------
Steps(t) ==
    \/ Exchange(t) \/ FutexWait(t) \/ FutexWaitReturns(t) \/ LockReturns(t)
    \/ UnlockOwner(t) \/ UnlockLevel(t) \/ UnlockExchange(t) \/ FutexWake(t)

Next ==
    \E t \in Threads :
        \/ FastPath(t) \/ LockAgain(t) \/ SlowPath(t)
        \/ Interrupt(t) \/ Steps(t)

\* A mutex that is not used with a condition variable.
Spec == Init /\ [][Next]_vars

\* A thread that has begun goes on, and leaves its critical section.
FairSpec == Spec /\ \A t \in Threads : WF_vars(Steps(t))

-----------------------------------------------------------------------------
\* The state is well formed.
TypeOK ==
    /\ lock \in {MUTEX_UNLOCKED, MUTEX_LOCKED_NO_NEED_TO_WAKE, MUTEX_LOCKED_NEED_TO_WAKE}
    /\ owner \in Threads \cup {NoThread}
    /\ level \in Nat
    /\ waiters \subseteq Threads
    /\ expected \in [Threads -> {MUTEX_LOCKED_NO_NEED_TO_WAKE, MUTEX_LOCKED_NEED_TO_WAKE}]
    /\ waking \in [Threads -> {0, 1}]
    /\ pc \in [Threads -> {"outside", "exchange", "wait", "asleep", "locked", "inside",
                           "unlock", "wake"}]
    /\ pessimistic \subseteq Threads
    /\ depth \in [Threads -> Nat]

\* The threads between the atomic operation that took the mutex and the one
\* that frees it.
Holders == {t \in Threads : pc[t] \in {"locked", "inside", "unlock"}}

\* At most one thread holds the mutex, and the word says so.
MutualExclusion ==
    /\ \A t, u \in Holders : t = u
    /\ lock = MUTEX_UNLOCKED <=> Holders = {}

\* A thread takes itself for the owner only while it holds the mutex: the
\* relaxed stores to owner and level around the atomic operations are safe,
\* and the level counts the lock() calls that are not undone.
RecursionIsExact ==
    /\ owner # NoThread => owner \in Holders
    /\ \A t \in Threads : pc[t] # "inside" => depth[t] = 0
    /\ \A t \in Threads : pc[t] = "inside" => depth[t] = level + 1

\* No wake-up is lost: if somebody sleeps, then the holder knows that it has
\* to wake, or a wake-up is on its way, or somebody is about to set the word
\* so that the next unlock() wakes.
NoForgottenSleeper ==
    waiters # {} =>
        \/ lock = MUTEX_LOCKED_NEED_TO_WAKE
        \/ \E t \in Threads : pc[t] \in {"wake", "exchange"} \/ (pc[t] = "asleep" /\ t \notin waiters)

\* The mutex does not stay free while threads sleep on it.
SomebodyTakesIt == waiters # {} /\ Holders = {} ~> Holders # {}
=============================================================================
