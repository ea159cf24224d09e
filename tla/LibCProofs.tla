----------------------------- MODULE LibCProofs -----------------------------
(***************************************************************************)
(* Proofs about PthreadMutex and PthreadCond, for any number of threads    *)
(* and any depth of recursion, and about Semaphore, for any number of      *)
(* threads and any bound on the slots.  What a mutex guarantees when it is *)
(* used by itself carries over to its use with a condition variable, whose *)
(* steps on the mutex are steps of LockNext.  The specifications of the    *)
(* mutex and of the semaphore have the variables of LibCThreads in common  *)
(* and nothing is said of both at once.                                    *)
(***************************************************************************)
EXTENDS PthreadCond, Semaphore, FiniteSetTheorems, TLAPS

-----------------------------------------------------------------------------
(* The mutex by itself *)

\* What the named invariants lack to be inductive: the owner has returned
\* from lock(), who has returned is the owner, and a mutex that is not
\* recursive has neither owner nor level.
Bookkeeping ==
    /\ owner # NoThread => pc[owner] = "inside"
    /\ Type = "RECURSIVE" => \A t \in Threads : pc[t] = "inside" => owner = t
    /\ Type = "NORMAL" => owner = NoThread /\ level = 0

LockInv == TypeOK /\ MutualExclusion /\ RecursionIsExact /\ Bookkeeping

\* Who is in the futex sleeps in it, and every wait compares the word with
\* MUTEX_LOCKED_NEED_TO_WAKE: nobody takes the pessimistic path.
SleeperInv ==
    /\ \A t \in waiters : pc[t] = "asleep"
    /\ \A t \in Threads : pc[t] = "wake" => waking[t] = 1
    /\ pessimistic = {}
    /\ \A t \in Threads : expected[t] = MUTEX_LOCKED_NEED_TO_WAKE
    /\ NoForgottenSleeper

\* The steps of a mutex that may be used with a condition variable.
LockNext == Next \/ \E t \in Threads : LockPessimistic(t) \/ LockOwn(t)

USE DEF MUTEX_UNLOCKED, MUTEX_LOCKED_NO_NEED_TO_WAKE, MUTEX_LOCKED_NEED_TO_WAKE, Goto, futex

\* The initial state satisfies both invariants.
LEMMA InitialState == Init => LockInv /\ SleeperInv
  BY PthreadAssumption DEF Init, LockInv, SleeperInv, TypeOK, MutualExclusion, RecursionIsExact,
     Bookkeeping, NoForgottenSleeper, Holders

\* A system call leaves the fields of the mutex alone and keeps the types.
LEMMA FutexSteps ==
    ASSUME NEW t \in Threads, TypeOK, Futex!Wait(t) \/ Futex!GiveUp(t) \/ Futex!Wake(t)
    PROVE  /\ lock' = lock /\ expected' = expected
           /\ waiters' \subseteq Threads
           /\ waking' \in [Threads -> {0, 1}]
           /\ \A u \in Threads : u # t => waking'[u] = waking[u]
  BY DEF Futex!Wait, Futex!GiveUp, Futex!Wake, TypeOK

\* Every step preserves the exclusion and the counting of recursive calls.
LEMMA LockStep == LockInv /\ [LockNext]_vars => LockInv'
<1> SUFFICES ASSUME LockInv, [LockNext]_vars PROVE LockInv'
  OBVIOUS
<1> USE PthreadAssumption
<1>1. CASE UNCHANGED vars
  BY <1>1 DEF vars, LockInv, TypeOK, MutualExclusion, RecursionIsExact, Bookkeeping, Holders
<1>2. ASSUME NEW t \in Threads, FastPath(t) PROVE LockInv'
  BY <1>2 DEF FastPath, LockInv, TypeOK, MutualExclusion, RecursionIsExact, Bookkeeping, Holders
<1>3. ASSUME NEW t \in Threads, LockAgain(t) PROVE LockInv'
  BY <1>3 DEF LockAgain, LockInv, TypeOK, MutualExclusion, RecursionIsExact, Bookkeeping, Holders
<1>4. ASSUME NEW t \in Threads, SlowPath(t) \/ LockPessimistic(t) PROVE LockInv'
  BY <1>4 DEF SlowPath, LockPessimistic, LockInv, TypeOK, MutualExclusion, RecursionIsExact,
     Bookkeeping, Holders
<1>5. ASSUME NEW t \in Threads, Exchange(t) PROVE LockInv'
  BY <1>5 DEF Exchange, LockInv, TypeOK, MutualExclusion, RecursionIsExact, Bookkeeping, Holders
<1>6. ASSUME NEW t \in Threads, FutexWait(t) \/ FutexWaitReturns(t) PROVE LockInv'
  <2>1. /\ lock' = lock /\ expected' = expected /\ waiters' \subseteq Threads
        /\ waking' \in [Threads -> {0, 1}]
    BY <1>6, FutexSteps DEF FutexWait, FutexWaitReturns, LockInv, TypeOK
  <2> QED
    BY <1>6, <2>1 DEF FutexWait, FutexWaitReturns, LockInv, TypeOK, MutualExclusion,
       RecursionIsExact, Bookkeeping, Holders
<1>7. ASSUME NEW t \in Threads, Interrupt(t) \/ FutexWake(t) PROVE LockInv'
  <2>1. /\ lock' = lock /\ expected' = expected /\ waiters' \subseteq Threads
        /\ waking' \in [Threads -> {0, 1}]
    BY <1>7, FutexSteps DEF Interrupt, FutexWake, LockInv
  <2> QED
    BY <1>7, <2>1 DEF Interrupt, FutexWake, LockInv, TypeOK, MutualExclusion,
       RecursionIsExact, Bookkeeping, Holders
<1>8. ASSUME NEW t \in Threads, LockReturns(t) PROVE LockInv'
  BY <1>8 DEF LockReturns, LockInv, TypeOK, MutualExclusion, RecursionIsExact, Bookkeeping,
     Holders
<1>9. ASSUME NEW t \in Threads, UnlockLevel(t) PROVE LockInv'
  BY <1>9 DEF UnlockLevel, LockInv, TypeOK, MutualExclusion, RecursionIsExact, Bookkeeping,
     Holders
<1>10. ASSUME NEW t \in Threads, UnlockOwner(t) PROVE LockInv'
  BY <1>10 DEF UnlockOwner, LockInv, TypeOK, MutualExclusion, RecursionIsExact, Bookkeeping,
     Holders
<1>11. ASSUME NEW t \in Threads, UnlockExchange(t) PROVE LockInv'
  BY <1>11 DEF UnlockExchange, LockInv, TypeOK, MutualExclusion, RecursionIsExact, Bookkeeping,
     Holders
<1>12. ASSUME NEW t \in Threads, LockOwn(t) PROVE LockInv'
  BY <1>12 DEF LockOwn, LockInv, TypeOK, MutualExclusion, RecursionIsExact, Bookkeeping, Holders
<1> QED
  BY <1>1, <1>2, <1>3, <1>4, <1>5, <1>6, <1>7, <1>8, <1>9, <1>10, <1>11, <1>12
  DEF LockNext, Next, Steps

\* A wake-up that leaves somebody asleep has woken somebody else.
LEMMA WakeWakes ==
    ASSUME NEW t \in Threads, TypeOK, waking[t] = 1, Futex!Wake(t), waiters' # {}
    PROVE  \E g \in waiters : g \notin waiters'
<1>0. \A S : Futex!Cardinality(S) = Cardinality(S)
  BY Zenon DEF Futex!Cardinality, Cardinality
<1>1. PICK G \in SUBSET waiters :
          /\ Cardinality(G) = waking[t] \/ (Cardinality(G) < waking[t] /\ G = waiters)
          /\ waiters' = waiters \ G
  BY <1>0 DEF Futex!Wake
<1>2. Cardinality(G) = 1
  BY <1>1
<1>3. G # {}
  BY <1>2, FS_EmptySet
<1> QED
  BY <1>1, <1>3

\* Every step keeps a sleeper from being forgotten.
LEMMA SleeperStep == LockInv /\ SleeperInv /\ [Next]_vars => SleeperInv'
<1> SUFFICES ASSUME LockInv, SleeperInv, [Next]_vars PROVE SleeperInv'
  OBVIOUS
<1> USE PthreadAssumption
<1>0. TypeOK
  BY DEF LockInv
<1>1. CASE UNCHANGED vars
  BY <1>1 DEF vars, SleeperInv, NoForgottenSleeper
<1>2. ASSUME NEW t \in Threads, FastPath(t) PROVE SleeperInv'
  BY <1>0, <1>2 DEF FastPath, TypeOK, SleeperInv, NoForgottenSleeper
<1>3. ASSUME NEW t \in Threads, LockAgain(t) \/ UnlockLevel(t) PROVE SleeperInv'
  BY <1>0, <1>3 DEF LockAgain, UnlockLevel, TypeOK, SleeperInv, NoForgottenSleeper
<1>4. ASSUME NEW t \in Threads, SlowPath(t) PROVE SleeperInv'
  BY <1>0, <1>4 DEF SlowPath, TypeOK, SleeperInv, NoForgottenSleeper
<1>5. ASSUME NEW t \in Threads, Exchange(t) PROVE SleeperInv'
  BY <1>0, <1>5 DEF Exchange, TypeOK, SleeperInv, NoForgottenSleeper
<1>6. ASSUME NEW t \in Threads, FutexWait(t) PROVE SleeperInv'
  BY <1>0, <1>6 DEF FutexWait, Futex!Wait, TypeOK, SleeperInv, NoForgottenSleeper
<1>7. ASSUME NEW t \in Threads, Interrupt(t) PROVE SleeperInv'
  BY <1>0, <1>7 DEF Interrupt, Futex!GiveUp, TypeOK, SleeperInv, NoForgottenSleeper
<1>8. ASSUME NEW t \in Threads, FutexWaitReturns(t) PROVE SleeperInv'
  BY <1>0, <1>8 DEF FutexWaitReturns, TypeOK, SleeperInv, NoForgottenSleeper
<1>9. ASSUME NEW t \in Threads, LockReturns(t) PROVE SleeperInv'
  BY <1>0, <1>9 DEF LockReturns, TypeOK, SleeperInv, NoForgottenSleeper
<1>10. ASSUME NEW t \in Threads, UnlockOwner(t) PROVE SleeperInv'
  BY <1>0, <1>10 DEF UnlockOwner, TypeOK, SleeperInv, NoForgottenSleeper
<1>11. ASSUME NEW t \in Threads, UnlockExchange(t) PROVE SleeperInv'
  BY <1>0, <1>11 DEF UnlockExchange, TypeOK, SleeperInv, NoForgottenSleeper
<1>12. ASSUME NEW t \in Threads, FutexWake(t) PROVE SleeperInv'
  <2>1. pc[t] = "wake" /\ waking[t] = 1 /\ Futex!Wake(t)
    BY <1>12 DEF FutexWake, SleeperInv
  <2>2. lock' = lock /\ expected' = expected /\ \A u \in Threads : u # t => waking'[u] = waking[u]
    BY <1>0, <2>1, FutexSteps
  <2>3. waiters' \subseteq waiters
    BY <2>1 DEF Futex!Wake
  <2>4. NoForgottenSleeper'
    <3>1. SUFFICES ASSUME waiters' # {} PROVE \E g \in Threads : pc'[g] = "asleep" /\ g \notin waiters'
      BY DEF NoForgottenSleeper
    <3>2. PICK g \in waiters : g \notin waiters'
      BY <1>0, <2>1, <3>1, WakeWakes
    <3>3. g \in Threads /\ pc[g] = "asleep" /\ g # t
      BY <1>0, <2>1, <3>2 DEF TypeOK, SleeperInv
    <3> QED
      BY <1>0, <1>12, <3>2, <3>3 DEF FutexWake, TypeOK
  <2> QED
    BY <1>0, <1>12, <2>1, <2>2, <2>3, <2>4 DEF FutexWake, TypeOK, SleeperInv
<1> QED
  BY <1>1, <1>2, <1>3, <1>4, <1>5, <1>6, <1>7, <1>8, <1>9, <1>10, <1>11, <1>12 DEF Next, Steps

\* Both invariants hold in every reachable state.
THEOREM InvariantsHold == Spec => [](LockInv /\ SleeperInv)
<1>1. LockInv /\ SleeperInv /\ [Next]_vars => (LockInv /\ SleeperInv)'
  BY LockStep, SleeperStep DEF LockNext
<1> QED
  BY InitialState, <1>1, PTL DEF Spec

\* The fields of the mutex and the state of the threads keep their types.
THEOREM TypeOKHolds == Spec => []TypeOK
  BY InvariantsHold, PTL DEF LockInv

\* At most one thread is between the atomic operation that takes a
\* pthread_mutex_t and the one that frees it.
THEOREM MutualExclusionHolds == Spec => []MutualExclusion
  BY InvariantsHold, PTL DEF LockInv

\* A recursive mutex is freed by the last pthread_mutex_unlock() of its owner
\* and by no other.
THEOREM RecursionIsExactHolds == Spec => []RecursionIsExact
  BY InvariantsHold, PTL DEF LockInv

\* Without condition variables no thread sleeps in pthread_mutex_lock() that
\* nobody is going to wake.
THEOREM NoForgottenSleeperHolds == Spec => []NoForgottenSleeper
<1>1. SleeperInv => NoForgottenSleeper
  BY DEF SleeperInv
<1> QED
  BY InvariantsHold, <1>1, PTL

-----------------------------------------------------------------------------
(* With a condition variable *)

\* Each flag by itself: who clears it is on the way to wake somebody.  Only a
\* broadcast clears NEED_TO_WAKE_ALL, so that a signal that puts back
\* NEED_TO_WAKE_ONE leaves no sleeper with one flag only.
FlagsInv ==
    sleepers # {} =>
        /\ \/ "NEED_TO_WAKE_ALL" \in need_to_wake
           \/ \E t \in Threads : cpc[t] = "broadcast_wake"
        /\ \/ "NEED_TO_WAKE_ONE" \in need_to_wake
           \/ \E t \in Threads : cpc[t] \in {"signal_wake", "signal_restore", "broadcast_wake"}

\* The calls that signal and broadcast, and what is true inside them: who
\* announces a wait is not among those that waited when the call began, a
\* signal that has woken somebody owes nothing, and a broadcast that returns
\* has left nobody asleep or leaves it to another one.
Signalling == {"signal_clear", "signal_wake", "signal_restore", "signalled",
               "broadcast_clear", "broadcast_wake", "broadcast"}

OwedInv ==
    \A s \in Threads : cpc[s] \in Signalling =>
        /\ fresh \cap owed[s] = {}
        /\ cpc[s] = "signal_restore" => owed[s] = {}
        /\ cpc[s] = "broadcast" => \/ owed[s] \cap sleepers = {}
                                   \/ \E t \in Threads : cpc[t] = "broadcast_wake"

CondInv == CondTypeOK /\ FlagsInv /\ OwedInv

\* A step of the mutex leaves the condition variable alone, and the threads
\* that are where only a call for the condition variable can move them.
LEMMA StepOfTheMutex ==
    ASSUME TypeOK, NEW t \in Threads, MutexStep(t)
    PROVE  /\ UNCHANGED condVars
           /\ \A u \in Threads : cpc[u] \notin {"none", "relock", "unlock"} => pc'[u] = pc[u]
<1>1. CASE Interrupt(t)
  BY <1>1 DEF Interrupt, MutexStep
<1>2. CASE ~Interrupt(t)
  <2>1. cpc[t] \in {"none", "relock", "unlock"}
    BY <1>2 DEF MutexStep
  <2>2. pc' = pc \/ \E where : pc' = [pc EXCEPT ![t] = where]
    BY <1>2 DEF MutexStep, FastPath, LockAgain, SlowPath, LockReturns, Exchange, FutexWait,
       FutexWaitReturns, UnlockLevel, UnlockOwner, UnlockExchange, FutexWake, Goto
  <2> QED
    BY <2>1, <2>2 DEF MutexStep, TypeOK
<1> QED
  BY <1>1, <1>2

\* Every step keeps the state of the condition variable well formed.
LEMMA CondTypeStep ==
    ASSUME CondTypeOK, [CondNext]_allVars
    PROVE  CondTypeOK'
<1> USE DEF CondTypeOK, CondGoto, WaitFlags
<1>1. CASE UNCHANGED condVars
  BY <1>1 DEF condVars
<1>2. ASSUME NEW t \in Threads, CondWait(t) PROVE CondTypeOK'
  <2>1. owed' \in [Threads -> SUBSET Threads]
    BY <1>2 DEF CondWait, OwedAfter
  <2> QED
    BY <1>2, <2>1 DEF CondWait
<1>3. ASSUME NEW t \in Threads, CondFutexWait(t) \/ CondUnlockLevel(t) PROVE CondTypeOK'
  BY <1>3 DEF CondFutexWait, HasUnlocked, CondUnlockLevel
<1>4. ASSUME NEW t \in Threads, CondInterrupt(t) PROVE CondTypeOK'
  BY <1>4 DEF CondInterrupt
<1>5. ASSUME NEW t \in Threads, CondTimeout(t) \/ TimedOutUnlock(t) PROVE CondTypeOK'
  BY <1>5 DEF CondTimeout, TimedOutUnlock
<1>6. ASSUME NEW t \in Threads, CondRelock(t) \/ CondWaitReturns(t) PROVE CondTypeOK'
  BY <1>6 DEF CondRelock, CondWaitReturns
<1>7. ASSUME NEW t \in Threads, CondSignal(t) \/ CondBroadcast(t) PROVE CondTypeOK'
  <2>1. /\ UNCHANGED <<need_to_wake, sleepers, trespassed>> /\ fresh' = {} /\ cpc[t] = "none"
        /\ owed' = [owed EXCEPT ![t] = Waiting]
        /\ \E where \in {"signal_clear", "signalled", "broadcast_clear", "broadcast"} :
               cpc' = [cpc EXCEPT ![t] = where]
    BY <1>7 DEF CondSignal, CondBroadcast, CondBegin
  <2>2. Waiting \subseteq Threads
    BY DEF Waiting
  <2> QED
    BY <2>1, <2>2
<1>8. ASSUME NEW t \in Threads, SignalClear(t) \/ SignalRestore(t) \/ BroadcastClear(t)
      PROVE  CondTypeOK'
  BY <1>8 DEF SignalClear, SignalRestore, FlagsRestored, BroadcastClear
<1>9. ASSUME NEW t \in Threads, SignalWake(t) \/ BroadcastWake(t) PROVE CondTypeOK'
  BY <1>9 DEF SignalWake, BroadcastWake, StillAsleep
<1>10. ASSUME NEW t \in Threads, CondReturns(t) PROVE CondTypeOK'
  BY <1>10 DEF CondReturns
<1> QED
  BY <1>1, <1>2, <1>3, <1>4, <1>5, <1>6, <1>7, <1>8, <1>9, <1>10
  DEF CondNext, CondCall, MutexStep, allVars

\* Every step keeps the flags true to the sleepers.
LEMMA FlagsStep ==
    ASSUME CondTypeOK, FlagsInv, [CondNext]_allVars
    PROVE  FlagsInv'
<1> USE DEF FlagsInv, CondTypeOK, CondGoto, WaitFlags
<1>1. CASE UNCHANGED condVars
  BY <1>1 DEF condVars
<1>2. ASSUME NEW t \in Threads, CondWait(t) PROVE FlagsInv'
  BY <1>2 DEF CondWait
<1>3. ASSUME NEW t \in Threads, CondUnlockLevel(t) PROVE FlagsInv'
  BY <1>3 DEF CondUnlockLevel
<1>4. ASSUME NEW t \in Threads, CondFutexWait(t) PROVE FlagsInv'
  BY <1>4 DEF CondFutexWait, ValueUnchanged, HasUnlocked
<1>5. ASSUME NEW t \in Threads, CondInterrupt(t) \/ CondTimeout(t) \/ TimedOutUnlock(t)
      PROVE  FlagsInv'
  BY <1>5 DEF CondInterrupt, CondTimeout, TimedOutUnlock
<1>6. ASSUME NEW t \in Threads, CondRelock(t) \/ CondWaitReturns(t) PROVE FlagsInv'
  BY <1>6 DEF CondRelock, CondWaitReturns
<1>7. ASSUME NEW t \in Threads, CondSignal(t) \/ CondBroadcast(t) PROVE FlagsInv'
  BY <1>7 DEF CondSignal, CondBroadcast, CondBegin
<1>8. ASSUME NEW t \in Threads, SignalClear(t) PROVE FlagsInv'
  BY <1>8 DEF SignalClear
<1>9. ASSUME NEW t \in Threads, SignalWake(t) PROVE FlagsInv'
  BY <1>9 DEF SignalWake
<1>10. ASSUME NEW t \in Threads, SignalRestore(t) PROVE FlagsInv'
  BY <1>10 DEF SignalRestore, FlagsRestored
<1>11. ASSUME NEW t \in Threads, BroadcastClear(t) \/ BroadcastWake(t) PROVE FlagsInv'
  BY <1>11 DEF BroadcastClear, BroadcastWake, StillAsleep
<1>12. ASSUME NEW t \in Threads, CondReturns(t) PROVE FlagsInv'
  BY <1>12 DEF CondReturns
<1> QED
  BY <1>1, <1>2, <1>3, <1>4, <1>5, <1>6, <1>7, <1>8, <1>9, <1>10, <1>11, <1>12
  DEF CondNext, CondCall, MutexStep, allVars

\* A step that puts to sleep only who has announced it, and moves no thread
\* that signals or broadcasts, keeps what is true inside these calls.
LEMMA OtherSteps ==
    ASSUME OwedInv, sleepers' \subseteq sleepers \cup fresh, fresh' \subseteq fresh, owed' = owed,
           \A s \in Threads : cpc[s] \in Signalling \/ cpc'[s] \in Signalling => cpc'[s] = cpc[s]
    PROVE  OwedInv'
  BY DEF OwedInv, Signalling

\* Every step keeps what is true inside the calls, with or without the mutex.
LEMMA OwedStep ==
    ASSUME CondTypeOK, FlagsInv, OwedInv, [CondNext]_allVars
    PROVE  OwedInv'
<1> USE DEF CondGoto, Signalling
<1>1. CASE UNCHANGED condVars
  BY <1>1, OtherSteps DEF condVars
<1>2. ASSUME NEW t \in Threads, CondWait(t) PROVE OwedInv'
  <2>1. \A s \in Threads : owed'[s] \subseteq owed[s] \ {t}
    BY <1>2 DEF CondWait, OwedAfter, CondTypeOK
  <2> QED
    BY <1>2, <2>1 DEF CondWait, OwedInv, CondTypeOK
<1>3. ASSUME NEW t \in Threads, CondUnlockLevel(t) \/ CondFutexWait(t) PROVE OwedInv'
  BY <1>3, OtherSteps DEF CondUnlockLevel, CondFutexWait, HasUnlocked, ValueUnchanged, CondTypeOK
<1>4. ASSUME NEW t \in Threads, CondInterrupt(t) \/ CondTimeout(t) \/ TimedOutUnlock(t)
      PROVE  OwedInv'
  BY <1>4, OtherSteps DEF CondInterrupt, CondTimeout, TimedOutUnlock, CondTypeOK
<1>5. ASSUME NEW t \in Threads, CondRelock(t) \/ CondWaitReturns(t) PROVE OwedInv'
  BY <1>5, OtherSteps DEF CondRelock, CondWaitReturns, CondTypeOK
<1>6. ASSUME NEW t \in Threads, CondSignal(t) PROVE OwedInv'
  BY <1>6 DEF CondSignal, CondBegin, CondTypeOK, OwedInv
<1>7. ASSUME NEW t \in Threads, CondBroadcast(t) PROVE OwedInv'
  BY <1>7 DEF CondBroadcast, CondBegin, CondTypeOK, OwedInv, FlagsInv
<1>8. ASSUME NEW t \in Threads, SignalClear(t) \/ SignalRestore(t) \/ BroadcastClear(t)
      PROVE  OwedInv'
  BY <1>8 DEF SignalClear, SignalRestore, BroadcastClear, CondTypeOK, OwedInv
<1>9. ASSUME NEW t \in Threads, SignalWake(t) PROVE OwedInv'
  BY <1>9 DEF SignalWake, CondTypeOK, OwedInv
<1>10. ASSUME NEW t \in Threads, BroadcastWake(t) PROVE OwedInv'
  BY <1>10 DEF BroadcastWake, StillAsleep, CondTypeOK, OwedInv
<1>11. ASSUME NEW t \in Threads, CondReturns(t) PROVE OwedInv'
  BY <1>11 DEF CondReturns, CondTypeOK, OwedInv
<1> QED
  BY <1>1, <1>2, <1>3, <1>4, <1>5, <1>6, <1>7, <1>8, <1>9, <1>10, <1>11
  DEF CondNext, CondCall, MutexStep, allVars

\* The invariant of the calls holds in every reachable state, for mutexes of
\* both types and for callers that unlock after a timeout as well.
LEMMA CondInvHolds == CondSpec => []CondInv
<1>1. CondInit => CondInv
  BY DEF CondInit, CondInv, CondTypeOK, FlagsInv, OwedInv, Signalling
<1>2. CondInv /\ [CondNext]_allVars => CondInv'
  BY CondTypeStep, FlagsStep, OwedStep DEF CondInv
<1> QED
  BY <1>1, <1>2, PTL DEF CondSpec

\* The flags in cond->value never hide a sleeper from pthread_cond_signal()
\* and pthread_cond_broadcast().
THEOREM FlagsTellOfSleepersHolds == CondSpec => []FlagsTellOfSleepers
<1>1. CondInv => FlagsTellOfSleepers
  BY DEF CondInv, CondTypeOK, FlagsInv, FlagsTellOfSleepers, WaitFlags
<1> QED
  BY CondInvHolds, <1>1, PTL

\* pthread_cond_signal(), called with or without the mutex, unblocks one of
\* the threads that wait, or else returns inside another signal or broadcast.
THEOREM SignalUnblocksOneHolds == CondSpec => SignalUnblocksOne
<1>1. ASSUME CondInv, CondInv', CondNext, NEW s \in Threads,
             cpc[s] # "signalled", cpc'[s] = "signalled", ~HasUnblocked(s)'
      PROVE  \E t \in Threads \ {s} : cpc[t] \in {"signal_wake", "signal_restore", "broadcast_wake"}
  <2> USE DEF CondGoto
  <2>0. CondTypeOK /\ FlagsInv /\ OwedInv
    BY <1>1 DEF CondInv
  \* Nobody was unblocked: so somebody sleeps.
  <2>1. owed'[s] # {} /\ sleepers' # {}
    BY <1>1 DEF HasUnblocked, CondInv, OwedInv, Signalling, Waiting
  <2>2. ASSUME NEW t \in Threads, CondSignal(t) PROVE s = t
    BY <1>1, <2>0, <2>2 DEF CondSignal, CondBegin, CondTypeOK
  <2>3. CASE CondSignal(s)
    BY <2>0, <2>1, <2>3, <1>1 DEF CondSignal, CondBegin, CondTypeOK, FlagsInv
  <2>4. CASE SignalClear(s)
    BY <2>0, <2>1, <2>4, <1>1 DEF SignalClear, CondTypeOK, FlagsInv
  <2>5. CASE SignalWake(s)
    BY <2>0, <2>1, <2>5, <1>1 DEF SignalWake, CondTypeOK
  <2>6. CASE SignalRestore(s)
    BY <2>0, <2>1, <2>6 DEF SignalRestore, OwedInv, Signalling
  <2>7. CondSignal(s) \/ SignalClear(s) \/ SignalWake(s) \/ SignalRestore(s)
    <3>1. ASSUME NEW t \in Threads, t # s PROVE \A where : cpc' # [cpc EXCEPT ![t] = where]
      BY <1>1, <2>0, <3>1 DEF CondTypeOK
    <3>2. ASSUME NEW where, where # "signalled" PROVE \A t \in Threads : cpc' # [cpc EXCEPT ![t] = where]
      BY <1>1, <2>0, <3>2 DEF CondTypeOK
    <3>3. ~UNCHANGED condVars
      BY <1>1 DEF condVars
    <3> QED
      BY <1>1, <3>1, <3>2, <3>3 DEF CondNext, CondCall, MutexStep, CondWait, CondUnlockLevel,
         CondFutexWait, CondInterrupt, CondTimeout, TimedOutUnlock, CondRelock, CondWaitReturns,
         CondSignal, CondBroadcast, CondBegin, SignalClear, SignalWake, SignalRestore,
         BroadcastClear, BroadcastWake, CondReturns
  <2> QED
    BY <2>3, <2>4, <2>5, <2>6, <2>7
<1>2. CondInv /\ CondInv' /\ [CondNext]_allVars =>
        [\A s \in Threads : cpc[s] # "signalled" /\ cpc'[s] = "signalled" =>
           \/ HasUnblocked(s)'
           \/ \E t \in Threads \ {s} :
                 cpc[t] \in {"signal_wake", "signal_restore", "broadcast_wake"}]_allVars
  BY <1>1
<1> QED
  BY CondInvHolds, <1>2, PTL DEF CondSpec, SignalUnblocksOne

\* pthread_cond_broadcast(), called with or without the mutex, has unblocked
\* all the threads that waited, or another broadcast is about to.
THEOREM BroadcastUnblocksAllHolds == CondSpec => []BroadcastUnblocksAll
<1>1. CondInv => BroadcastUnblocksAll
  BY DEF CondInv, OwedInv, Signalling, BroadcastUnblocksAll, Waiting
<1> QED
  BY CondInvHolds, <1>1, PTL

-----------------------------------------------------------------------------
\* Who sleeps on the condition has unlocked the mutex, or only counted down
\* the level of a recursive one.
LetGo ==
    \A t \in Threads :
        /\ cpc[t] = "unlocked" => pc[t] = "inside" /\ Type = "RECURSIVE"
        /\ t \in sleepers => pc[t] = "outside" \/ (pc[t] = "inside" /\ Type = "RECURSIVE")

\* As long as nobody unlocks after a timeout, the calls for a condition
\* variable move its mutex only by steps of the mutex.
LEMMA StepsOfTheMutex == ~trespassed' /\ [CondNext]_allVars => [LockNext]_vars
<1> SUFFICES ASSUME ~trespassed', [CondNext]_allVars PROVE [LockNext]_vars
  OBVIOUS
<1>1. CASE UNCHANGED allVars
  BY <1>1 DEF allVars
<1>2. ASSUME NEW t \in Threads, MutexStep(t) PROVE LockNext
  BY <1>2 DEF MutexStep, LockNext, Next, Steps
<1>3. ASSUME NEW t \in Threads, CondUnlockLevel(t) \/ CondRelock(t) \/ CondWaitReturns(t)
      PROVE  LockNext
  BY <1>3 DEF CondUnlockLevel, CondRelock, CondWaitReturns, LockNext, Next, Steps
<1>4. ASSUME NEW t \in Threads,
             CondFutexWait(t) \/ CondWait(t) \/ CondInterrupt(t) \/ CondTimeout(t)
      PROVE  UNCHANGED vars
  BY <1>4 DEF CondFutexWait, CondWait, CondInterrupt, CondTimeout
<1>5. ASSUME NEW t \in Threads,
             \/ CondSignal(t) \/ SignalClear(t) \/ SignalWake(t) \/ SignalRestore(t)
             \/ CondBroadcast(t) \/ BroadcastClear(t) \/ BroadcastWake(t) \/ CondReturns(t)
      PROVE  UNCHANGED vars
  BY <1>5 DEF CondSignal, CondBroadcast, CondBegin, SignalClear, SignalWake, SignalRestore,
     BroadcastClear, BroadcastWake, CondReturns
<1>6. ASSUME NEW t \in Threads PROVE ~TimedOutUnlock(t)
  BY DEF TimedOutUnlock
<1> QED
  BY <1>1, <1>2, <1>3, <1>4, <1>5, <1>6 DEF CondNext, CondCall

\* Every step keeps the sleepers away from the mutex.
LEMMA LetGoStep ==
    ASSUME ~trespassed', TypeOK, CondTypeOK, LetGo, [CondNext]_allVars
    PROVE  LetGo'
<1> USE DEF LetGo, CondTypeOK, CondGoto
<1>1. CASE UNCHANGED allVars
  BY <1>1 DEF allVars, vars, condVars
<1>2. ASSUME NEW t \in Threads, MutexStep(t) PROVE LetGo'
  BY <1>2, StepOfTheMutex DEF condVars
<1>3. ASSUME NEW t \in Threads, CondWait(t) PROVE LetGo'
  BY <1>3 DEF CondWait, vars
<1>4. ASSUME NEW t \in Threads, CondUnlockLevel(t) PROVE LetGo'
  BY <1>4 DEF CondUnlockLevel, UnlockLevel
<1>5. ASSUME NEW t \in Threads, CondFutexWait(t) PROVE LetGo'
  BY <1>5 DEF CondFutexWait, HasUnlocked, vars
<1>6. ASSUME NEW t \in Threads, CondInterrupt(t) \/ CondTimeout(t) PROVE LetGo'
  BY <1>6 DEF CondInterrupt, CondTimeout, vars
<1>7. ASSUME NEW t \in Threads, CondRelock(t) PROVE LetGo'
  BY <1>7 DEF CondRelock, LockPessimistic, LockOwn, TypeOK
<1>8. ASSUME NEW t \in Threads, CondWaitReturns(t) PROVE LetGo'
  BY <1>8 DEF CondWaitReturns, LockReturns, TypeOK
<1>9. ASSUME NEW t \in Threads, CondSignal(t) \/ CondBroadcast(t) PROVE LetGo'
  BY <1>9 DEF CondSignal, CondBroadcast, CondBegin, vars
<1>10. ASSUME NEW t \in Threads, SignalClear(t) \/ SignalRestore(t) \/ BroadcastClear(t)
       PROVE  LetGo'
  BY <1>10 DEF SignalClear, SignalRestore, BroadcastClear, vars
<1>11. ASSUME NEW t \in Threads, SignalWake(t) \/ BroadcastWake(t) PROVE LetGo'
  BY <1>11 DEF SignalWake, BroadcastWake, StillAsleep, vars
<1>12. ASSUME NEW t \in Threads, CondReturns(t) PROVE LetGo'
  BY <1>12 DEF CondReturns, vars
<1>13. ASSUME NEW t \in Threads PROVE ~TimedOutUnlock(t)
  BY DEF TimedOutUnlock
<1> QED
  BY <1>1, <1>2, <1>3, <1>4, <1>5, <1>6, <1>7, <1>8, <1>9, <1>10, <1>11, <1>12, <1>13
  DEF CondNext, CondCall

\* Who has trespassed has done so for good.
LEMMA TrespassStays == CondTypeOK /\ [CondNext]_allVars => (trespassed => trespassed')
<1> SUFFICES ASSUME CondTypeOK, [CondNext]_allVars, trespassed PROVE trespassed'
  OBVIOUS
<1>1. CASE trespassed' = trespassed
  BY <1>1
<1>2. CASE trespassed' # trespassed
  BY <1>2 DEF CondNext, CondCall, MutexStep, CondWait, CondUnlockLevel, CondFutexWait,
     CondInterrupt, CondTimeout, TimedOutUnlock, CondRelock, CondWaitReturns, CondSignal,
     CondBroadcast, CondBegin, SignalClear, SignalWake, SignalRestore, BroadcastClear,
     BroadcastWake, CondReturns, allVars, condVars
<1> QED
  BY <1>1, <1>2

\* A mutex, recursive or not, excludes also when it is used with a condition
\* variable, and who sleeps on the condition has let go of it or has locked
\* it more than once, until a caller whose wait has timed out unlocks it.
THEOREM CondKeepsExclusionHolds == CondSpec => []CondKeepsExclusion
<1> DEFINE Kept == ~trespassed => LockInv /\ LetGo
<1>1. CondInit => Kept
  BY InitialState DEF CondInit, LetGo
<1>2. CondInv /\ Kept /\ [CondNext]_allVars => Kept'
  <2> SUFFICES ASSUME CondInv, Kept, [CondNext]_allVars, ~trespassed' PROVE (LockInv /\ LetGo)'
    OBVIOUS
  <2>1. LockInv /\ LetGo
    BY TrespassStays DEF CondInv
  <2>2. LockInv'
    BY <2>1, StepsOfTheMutex, LockStep
  <2>3. LetGo'
    BY <2>1, LetGoStep DEF CondInv, LockInv
  <2> QED
    BY <2>2, <2>3
<1>3. CondInv /\ Kept => CondKeepsExclusion
  BY DEF CondInv, CondTypeOK, LockInv, Bookkeeping, LetGo, CondKeepsExclusion
<1> HIDE DEF Kept
<1> QED
  BY CondInvHolds, <1>1, <1>2, <1>3, PTL DEF CondSpec

-----------------------------------------------------------------------------
(* The semaphore: every slot is taken once, and the duty to wake is never   *)
(* lost between sem_post(), the woken threads and the flag POST_WAKES.      *)

\* The wake-ups that are owed: <<t, 0>> for a thread that is awake and
\* responsible, and one pair for every thread that a call to futex_wake() in
\* progress is to wake.
Duties ==
    {d \in Threads \X (0..MaxCount) :
        IF d[2] = 0 THEN d[1] \in responsible_for_waking \ waiters
                    ELSE d[2] <= waking[d[1]]}

\* Who has slept is responsible; while threads sleep and the flag is set,
\* then, unless a sem_post() is about to clear it, every free slot has
\* somebody who owes a look at it.
SleepersAreResponsible == \A t \in Threads : pc[t] = "asleep" => t \in responsible_for_waking

SlotsAreOwed ==
    waiters # {} /\ value.post_wakes /\ (\A t \in Threads : pc[t] # "post") =>
        value.count <= Cardinality(Duties)

DutyInv == SleepersAreResponsible /\ PostWillWake /\ SlotsAreOwed

USE DEF See, Value

\* The initial state satisfies both invariants.
LEMMA SemInitialState == SemInit => SlotsAreSound /\ DutyInv
<1> USE SemaphoreAssumption
<1>1. ASSUME SemInit PROVE SlotsAreSound
  <2>1. PICK n \in 0..MaxCount : value = Value(n, FALSE)
    BY <1>1 DEF SemInit
  <2>2. value \in Values /\ balance = n /\ value.count = n
    BY <1>1, <2>1 DEF SemInit, Values
  <2>3. Value(0, TRUE) \in Values /\ Value(0, FALSE) \in Values
    BY DEF Values
  <2> QED
    BY <1>1, <2>2, <2>3 DEF SemInit, SlotsAreSound, SlotsAreConserved, SemTypeOK
<1>2. SemInit => DutyInv
  BY DEF SemInit, DutyInv, SleepersAreResponsible, PostWillWake, SlotsAreOwed
<1> QED
  BY <1>1, <1>2

\* A call of futex_wake() leaves the word alone and wakes as many threads as
\* it was to wake, or everybody.
LEMMA SemWakeWakes ==
    ASSUME NEW t \in Threads, SlotsAreSound, SemFutex!Wake(t)
    PROVE  /\ value' = value /\ expected' = expected
           /\ waking' = [waking EXCEPT ![t] = 0]
           /\ \E G \in SUBSET waiters :
                 /\ waiters' = waiters \ G
                 /\ waiters' # {} => Cardinality(G) = waking[t]
<1>0. \A S : SemFutex!Cardinality(S) = Cardinality(S)
  BY Zenon DEF SemFutex!Cardinality, Cardinality
<1>1. PICK G \in SUBSET waiters :
          /\ Cardinality(G) = waking[t] \/ (Cardinality(G) < waking[t] /\ G = waiters)
          /\ waiters' = waiters \ G
  BY <1>0 DEF SemFutex!Wake
<1>2. waiters' # {} => Cardinality(G) = waking[t]
  BY <1>1
<1> QED
  BY <1>1, <1>2 DEF SemFutex!Wake

\* Every step takes and makes the slots that it counts, and keeps the types.
LEMMA SlotsStep == SlotsAreSound /\ [SemNext]_semVars => SlotsAreSound'
<1> SUFFICES ASSUME SlotsAreSound, [SemNext]_semVars PROVE SlotsAreSound'
  OBVIOUS
<1> USE SemaphoreAssumption
<1>1. CASE UNCHANGED semVars
  BY <1>1 DEF semVars, SlotsAreSound, SlotsAreConserved, SemTypeOK, Values
<1>2. ASSUME NEW t \in Threads, SemPost(t) PROVE SlotsAreSound'
  BY <1>2 DEF SemPost, SlotsAreSound, SlotsAreConserved, SemTypeOK, Values
<1>3. ASSUME NEW t \in Threads, PostClears(t) PROVE SlotsAreSound'
  <2>1. value' \in Values /\ value'.count = value.count
    BY <1>3 DEF PostClears, SlotsAreSound, SemTypeOK, Values
  <2> QED
    BY <1>3, <2>1 DEF PostClears, SlotsAreSound, SlotsAreConserved, SemTypeOK
<1>4. ASSUME NEW t \in Threads, SemFutexWake(t) PROVE SlotsAreSound'
  <2>1. /\ value' = value /\ expected' = expected
        /\ waking' = [waking EXCEPT ![t] = 0]
        /\ waiters' \subseteq waiters
    BY <1>4, SemWakeWakes DEF SemFutexWake
  <2> QED
    BY <1>4, <2>1 DEF SemFutexWake, SlotsAreSound, SlotsAreConserved, SemTypeOK, Values
<1>5. ASSUME NEW t \in Threads, Load(t, "try") \/ Load(t, "wait") PROVE SlotsAreSound'
  <2>1. CASE Load(t, "try")
    BY <2>1 DEF Load, SlotsAreSound, SlotsAreConserved, SemTypeOK
  <2>2. CASE Load(t, "wait")
    BY <2>2 DEF Load, SlotsAreSound, SlotsAreConserved, SemTypeOK
  <2> QED
    BY <1>5, <2>1, <2>2
<1>6. ASSUME NEW t \in Threads, SemTrywait(t) PROVE SlotsAreSound'
  <2>1. CASE seen[t].count > 0 /\ Exchanged(t)
    <3>1. value' \in Values /\ value'.count = value.count - 1 /\ value.count > 0
      BY <1>6, <2>1 DEF SemTrywait, Exchanged, SlotsAreSound, SemTypeOK, Values
    <3> QED
      BY <1>6, <2>1, <3>1 DEF SemTrywait, SlotsAreSound, SlotsAreConserved, SemTypeOK, Values
  <2>2. CASE ~(seen[t].count > 0 /\ Exchanged(t))
    BY <1>6, <2>2 DEF SemTrywait, SlotsAreSound, SlotsAreConserved, SemTypeOK, Values
  <2> QED
    BY <2>1, <2>2
<1>7. ASSUME NEW t \in Threads, TakeSlot(t) PROVE SlotsAreSound'
  <2>1. WakesAfterWait(t) \in 0..MaxCount /\ FlagAfterWait(t) \in BOOLEAN
    BY <1>7 DEF TakeSlot, WakesAfterWait, FlagAfterWait, HasToWake, SlotsAreSound, SemTypeOK,
       Values
  <2>2. value' \in Values /\ value'.count = value.count - 1 /\ value.count > 0
    BY <1>7, <2>1 DEF TakeSlot, Exchanged, SlotsAreSound, SemTypeOK, Values
  <2>3. Value(0, FALSE) \in Values
    BY DEF Values
  <2> QED
    BY <1>7, <2>1, <2>2, <2>3 DEF TakeSlot, SlotsAreSound, SlotsAreConserved, SemTypeOK
<1>8. ASSUME NEW t \in Threads, SetPostWakes(t) PROVE SlotsAreSound'
  BY <1>8 DEF SetPostWakes, Exchanged, SlotsAreSound, SlotsAreConserved, SemTypeOK, Values
<1>9. ASSUME NEW t \in Threads, Reevaluate(t) PROVE SlotsAreSound'
  BY <1>9 DEF Reevaluate, SlotsAreSound, SlotsAreConserved, SemTypeOK, Values
<1>10. ASSUME NEW t \in Threads, SemFutexWait(t) PROVE SlotsAreSound'
  <2>1. CASE value = seen[t]
    <3>1. /\ pc[t] = "wait" /\ pc' = [pc EXCEPT ![t] = "asleep"]
          /\ waiters' = waiters \cup {t}
          /\ responsible_for_waking' = responsible_for_waking \cup {t}
          /\ UNCHANGED <<value, expected, waking, seen, balance>>
      BY <1>10, <2>1 DEF SemFutexWait, SemFutex!Wait
    <3> QED
      BY <3>1 DEF SlotsAreSound, SlotsAreConserved, SemTypeOK
  <2>2. CASE value # seen[t]
    <3>1. Value(1, FALSE) \in Values
      BY DEF Values
    <3> QED
      BY <1>10, <2>2, <3>1 DEF SemFutexWait, SlotsAreSound, SlotsAreConserved, SemTypeOK
  <2> QED
    BY <2>1, <2>2
<1>11. ASSUME NEW t \in Threads, SemInterrupt(t) PROVE SlotsAreSound'
  BY <1>11 DEF SemInterrupt, SemFutex!GiveUp, SlotsAreSound, SlotsAreConserved, SemTypeOK, Values
<1>12. ASSUME NEW t \in Threads, SemFutexWaitReturns(t) PROVE SlotsAreSound'
  BY <1>12 DEF SemFutexWaitReturns, SlotsAreSound, SlotsAreConserved, SemTypeOK, Values
<1> QED
  BY <1>1, <1>2, <1>3, <1>4, <1>5, <1>6, <1>7, <1>8, <1>9, <1>10, <1>11, <1>12
  DEF SemNext, SemCalls, SemSteps

\* The duties are finitely many.
LEMMA DutiesAreFinite == IsFiniteSet(Duties) /\ Cardinality(Duties) \in Nat
<1>0. IsFiniteSet(0..MaxCount)
  BY SemaphoreAssumption, FS_Interval
<1>1. IsFiniteSet(Threads \X (0..MaxCount))
  BY <1>0, SemaphoreAssumption, FS_Product
<1>2. Duties \subseteq Threads \X (0..MaxCount)
  BY DEF Duties
<1> QED
  BY <1>1, <1>2, FS_Subset, FS_CardinalityType

\* A step that takes nothing out of the duties does not lower their number.
LEMMA MoreDuties ==
    ASSUME IsFiniteSet(Duties'), Duties \subseteq Duties'
    PROVE  Cardinality(Duties) <= Cardinality(Duties')
  BY FS_Subset

\* The wake-ups of one call, and the threads that have been woken, are as many
\* duties as they are wake-ups and threads.
LEMMA DutiesOfOne ==
    ASSUME NEW t \in Threads, NEW n \in 0..MaxCount
    PROVE  /\ IsFiniteSet({t} \X (1..n))
           /\ Cardinality({t} \X (1..n)) = n
<1>1. IsFiniteSet(1..n) /\ Cardinality(1..n) = n
  BY SemaphoreAssumption, FS_Interval
<1>2. IsFiniteSet({t}) /\ Cardinality({t}) = 1
  BY FS_Singleton
<1>3. Cardinality({t} \X (1..n)) = 1 * n /\ IsFiniteSet({t} \X (1..n))
  BY <1>1, <1>2, FS_Product
<1> QED
  BY <1>3, SemaphoreAssumption

\* Threads that were woken owe one wake-up each.
LEMMA DutiesOfWoken ==
    ASSUME NEW G \in SUBSET Threads
    PROVE  /\ IsFiniteSet(G \X {0})
           /\ Cardinality(G \X {0}) = Cardinality(G)
<1>1. IsFiniteSet(G) /\ Cardinality(G) \in Nat
  BY SemaphoreAssumption, FS_Subset, FS_CardinalityType
<1>2. IsFiniteSet({0}) /\ Cardinality({0}) = 1
  BY FS_Singleton
<1>3. Cardinality(G \X {0}) = Cardinality(G) * 1 /\ IsFiniteSet(G \X {0})
  BY <1>1, <1>2, FS_Product
<1> QED
  BY <1>1, <1>3

\* Every step passes the duty to wake on.
LEMMA DutyStep == SlotsAreSound /\ SlotsAreSound' /\ DutyInv /\ [SemNext]_semVars => DutyInv'
<1> SUFFICES ASSUME SlotsAreSound, SlotsAreSound', DutyInv, [SemNext]_semVars PROVE DutyInv'
  OBVIOUS
<1> USE SemaphoreAssumption
<1>a. (IsFiniteSet(Duties) /\ Cardinality(Duties) \in Nat)'
  BY DutiesAreFinite, PTL
<1>0. /\ SemTypeOK /\ SemTypeOK'
      /\ IsFiniteSet(Duties) /\ Cardinality(Duties) \in Nat
      /\ IsFiniteSet(Duties') /\ Cardinality(Duties') \in Nat
  BY <1>a, DutiesAreFinite DEF SlotsAreSound
<1>1. CASE UNCHANGED semVars
  <2>1. Duties' = Duties
    BY <1>1 DEF semVars, Duties
  <2> QED
    BY <1>1, <2>1 DEF semVars, DutyInv, SleepersAreResponsible, PostWillWake, SlotsAreOwed
<1>2. ASSUME NEW t \in Threads, SemPost(t) PROVE DutyInv'
  BY <1>0, <1>2 DEF SemPost, SemTypeOK, Values, DutyInv, SleepersAreResponsible, PostWillWake,
     SlotsAreOwed
<1>3. ASSUME NEW t \in Threads, PostClears(t) PROVE DutyInv'
  <2>1. value'.post_wakes = FALSE /\ waiters' = waiters
    BY <1>0, <1>3 DEF PostClears, SemTypeOK, Values
  <2>2. SleepersAreResponsible' /\ SlotsAreOwed'
    BY <1>0, <1>3, <2>1 DEF PostClears, SemTypeOK, DutyInv, SleepersAreResponsible, SlotsAreOwed
  <2>3. CASE value.post_wakes
    <3>1. pc'[t] = "wake"
      BY <1>0, <1>3, <2>3 DEF PostClears, SemTypeOK
    <3> QED
      BY <2>2, <3>1 DEF DutyInv, PostWillWake
  <2>4. CASE ~value.post_wakes
    BY <1>0, <1>3, <2>2, <2>4 DEF PostClears, SemTypeOK, DutyInv, PostWillWake
  <2> QED
    BY <2>3, <2>4
<1>4. ASSUME NEW t \in Threads, SemFutexWake(t) PROVE DutyInv'
  <2>1. PICK G \in SUBSET waiters :
            /\ waiters' = waiters \ G
            /\ waiters' # {} => Cardinality(G) = waking[t]
    BY <1>4, SemWakeWakes DEF SemFutexWake
  <2>2. value' = value /\ waking' = [waking EXCEPT ![t] = 0] /\ waking[t] \in 1..MaxCount
    BY <1>0, <1>4, SemWakeWakes DEF SemFutexWake, SemTypeOK
  <2>3. /\ pc[t] = "wake" /\ pc' = [pc EXCEPT ![t] = "outside"]
        /\ responsible_for_waking' = responsible_for_waking
    BY <1>4 DEF SemFutexWake
  <2>4. SleepersAreResponsible'
    BY <1>0, <2>3 DEF SemTypeOK, DutyInv, SleepersAreResponsible
  <2>5. G \in SUBSET Threads /\ G \subseteq responsible_for_waking
    BY <1>0, <2>1 DEF SemTypeOK, DutyInv, SleepersAreResponsible
  <2>6. SUFFICES ASSUME waiters' # {} PROVE PostWillWake' /\ SlotsAreOwed'
    BY <2>4 DEF DutyInv, PostWillWake, SlotsAreOwed
  <2>7. Cardinality(G) = waking[t]
    BY <2>1, <2>6
  <2>8. PICK g \in G : TRUE
    BY <2>2, <2>7, FS_EmptySet
  <2>9. PostWillWake'
    BY <2>1, <2>3, <2>5, <2>8 DEF PostWillWake
  <2> DEFINE Old == {t} \X (1..waking[t])
             New == G \X {0}
  <2>10. Duties' = (Duties \ Old) \cup New
    <3>1. ASSUME NEW d \in Threads \X (0..MaxCount)
          PROVE  d \in Duties' <=> d \in (Duties \ Old) \cup New
      <4>1. CASE d[2] = 0
        BY <2>1, <2>2, <2>3, <2>5, <3>1, <4>1 DEF Duties
      <4>2. CASE d[2] # 0
        BY <1>0, <2>2, <3>1, <4>2 DEF Duties, SemTypeOK
      <4> QED
        BY <4>1, <4>2
    <3>2. /\ Duties' \subseteq Threads \X (0..MaxCount)
          /\ (Duties \ Old) \cup New \subseteq Threads \X (0..MaxCount)
      BY <2>5 DEF Duties
    <3> QED
      BY <3>1, <3>2
  <2>11. Old \subseteq Duties
    BY <1>0, <2>2 DEF Duties, SemTypeOK
  <2>12. New \cap Duties = {}
    BY <2>1 DEF Duties
  <2>13. /\ IsFiniteSet(Old) /\ Cardinality(Old) = waking[t]
         /\ IsFiniteSet(New) /\ Cardinality(New) = waking[t]
    <3>1. waking[t] \in 0..MaxCount
      BY <2>2
    <3> QED
      BY <2>5, <2>7, <3>1, DutiesOfOne, DutiesOfWoken
  <2>14. IsFiniteSet(Duties \ Old) /\ Cardinality(Duties \ Old) = Cardinality(Duties) - waking[t]
    <3>1. Duties \cap Old = Old
      BY <2>11
    <3> HIDE DEF Old
    <3>2. /\ IsFiniteSet(Duties \ Old)
          /\ Cardinality(Duties \ Old) = Cardinality(Duties) - Cardinality(Duties \cap Old)
      BY <1>0, FS_Difference
    <3> QED
      BY <2>13, <3>1, <3>2
  <2>15. Cardinality(Duties') = Cardinality(Duties)
    <3>1. (Duties \ Old) \cap New = {}
      BY <2>12
    <3>2. Cardinality((Duties \ Old) \cup New) = Cardinality(Duties \ Old) + Cardinality(New) - 0
      BY <2>13, <2>14, <3>1, FS_Union, FS_EmptySet
    <3> HIDE DEF Old, New
    <3> QED
      BY <1>0, <2>2, <2>10, <2>13, <2>14, <3>2
  <2>16. waiters # {} /\ \A u \in Threads : pc'[u] # "post" <=> pc[u] # "post"
    BY <1>0, <2>1, <2>3, <2>6 DEF SemTypeOK
  <2> QED
    BY <2>2, <2>9, <2>15, <2>16 DEF DutyInv, SlotsAreOwed
<1>5. ASSUME NEW t \in Threads, Load(t, "try") \/ Load(t, "wait") PROVE DutyInv'
  <2>1. Duties' = Duties
    BY <1>5 DEF Load, Duties
  <2> QED
    BY <1>0, <1>5, <2>1 DEF Load, SemTypeOK, DutyInv, SleepersAreResponsible, PostWillWake,
       SlotsAreOwed
<1>6. ASSUME NEW t \in Threads, SemTrywait(t) PROVE DutyInv'
  <2>1. Duties' = Duties
    BY <1>6 DEF SemTrywait, Duties
  <2>2. value'.post_wakes = value.post_wakes /\ value'.count <= value.count
    BY <1>0, <1>6 DEF SemTrywait, Exchanged, SemTypeOK, Values
  <2>3. value.count \in Nat /\ value'.count \in Nat
    BY <1>0 DEF SemTypeOK, Values
  <2> QED
    BY <1>0, <1>6, <2>1, <2>2, <2>3
    DEF SemTrywait, SemTypeOK, DutyInv, SleepersAreResponsible, PostWillWake, SlotsAreOwed
<1>7. ASSUME NEW t \in Threads, TakeSlot(t) PROVE DutyInv'
  <2>1. /\ pc[t] = "wait" /\ value = seen[t] /\ value.count \in 1..MaxCount
        /\ value' = Value(value.count - 1, FlagAfterWait(t))
        /\ waking[t] = 0 /\ waking' = [waking EXCEPT ![t] = WakesAfterWait(t)]
        /\ pc' = [pc EXCEPT ![t] = IF WakesAfterWait(t) > 0 THEN "wake" ELSE "outside"]
        /\ responsible_for_waking' = responsible_for_waking \ {t}
        /\ waiters' = waiters /\ t \notin waiters
    BY <1>0, <1>7 DEF TakeSlot, Exchanged, SemTypeOK, Values
  <2>2. SleepersAreResponsible'
    BY <1>0, <2>1 DEF SemTypeOK, DutyInv, SleepersAreResponsible
  <2>3. CASE HasToWake(t)
    <3>1. value'.post_wakes = TRUE /\ value'.count = value.count - 1
      BY <2>1, <2>3 DEF FlagAfterWait
    <3>2. PostWillWake'
      BY <3>1 DEF PostWillWake
    <3> DEFINE New == {t} \X (1..(value.count - 1))
    <3>3. WakesAfterWait(t) = value.count - 1
      BY <2>1, <2>3 DEF WakesAfterWait
    <3>4. New \subseteq Duties'
      BY <1>0, <2>1, <3>3 DEF Duties, SemTypeOK
    <3>5. IsFiniteSet(New) /\ Cardinality(New) = value.count - 1
      <4>1. value.count - 1 \in 0..MaxCount
        BY <2>1
      <4> QED
        BY <4>1, DutiesOfOne
    <3>6. Cardinality(New) <= Cardinality(Duties')
      BY <1>0, <3>4, FS_Subset
    <3> QED
      BY <2>2, <3>1, <3>2, <3>5, <3>6 DEF DutyInv, SlotsAreOwed
  <2>4. CASE ~HasToWake(t)
    <3>1. value'.post_wakes = value.post_wakes /\ value'.count = value.count - 1
      BY <1>0, <2>1, <2>4 DEF FlagAfterWait, SemTypeOK, Values
    <3>2. WakesAfterWait(t) = 0 /\ pc' = [pc EXCEPT ![t] = "outside"] /\ waking' = waking
      BY <1>0, <2>1, <2>4 DEF WakesAfterWait, SemTypeOK
    <3>3. PostWillWake'
      BY <1>0, <2>1, <2>4, <3>1, <3>2 DEF PostWillWake, DutyInv, HasToWake, SemTypeOK
    <3>4. Duties' = Duties \ {<<t, 0>>}
      BY <2>1, <3>2 DEF Duties
    <3>5. Cardinality(Duties') >= Cardinality(Duties) - 1
      <4>1. Cardinality(Duties \ {<<t, 0>>}) =
               IF <<t, 0>> \in Duties THEN Cardinality(Duties) - 1 ELSE Cardinality(Duties)
        BY <1>0, FS_RemoveElement
      <4> QED
        BY <1>0, <3>4, <4>1
    <3>6. \A u \in Threads : pc'[u] # "post" <=> pc[u] # "post"
      BY <1>0, <2>1, <3>2 DEF SemTypeOK
    <3> QED
      BY <1>0, <2>1, <2>2, <3>1, <3>3, <3>5, <3>6 DEF DutyInv, SlotsAreOwed
  <2> QED
    BY <2>3, <2>4
<1>8. ASSUME NEW t \in Threads, SetPostWakes(t) PROVE DutyInv'
  BY <1>0, <1>8 DEF SetPostWakes, SemTypeOK, Values, DutyInv, SleepersAreResponsible,
     PostWillWake, SlotsAreOwed
<1>9. ASSUME NEW t \in Threads, Reevaluate(t) PROVE DutyInv'
  <2>1. Duties' = Duties
    BY <1>9 DEF Reevaluate, Duties
  <2> QED
    BY <1>0, <1>9, <2>1 DEF Reevaluate, SemTypeOK, DutyInv, SleepersAreResponsible,
       PostWillWake, SlotsAreOwed
<1>10. ASSUME NEW t \in Threads, SemFutexWait(t) PROVE DutyInv'
  <2>1. CASE value = seen[t]
    <3>1. /\ pc[t] = "wait" /\ pc' = [pc EXCEPT ![t] = "asleep"]
          /\ responsible_for_waking' = responsible_for_waking \cup {t}
          /\ value' = value /\ value.count = 0 /\ value.post_wakes = TRUE
      BY <1>10, <2>1 DEF SemFutexWait, SemFutex!Wait
    <3> QED
      BY <1>0, <3>1 DEF SemTypeOK, DutyInv, SleepersAreResponsible, PostWillWake, SlotsAreOwed
  <2>2. CASE value # seen[t]
    <3>1. /\ responsible_for_waking' = responsible_for_waking \cup {t}
          /\ UNCHANGED <<value, waiters, waking, pc>>
      BY <1>10, <2>2 DEF SemFutexWait
    <3>2. Duties \subseteq Duties'
      BY <3>1 DEF Duties
    <3>3. Cardinality(Duties) <= Cardinality(Duties')
      BY <1>0, <3>2, MoreDuties
    <3>4. value.count \in Nat
      BY <1>0 DEF SemTypeOK, Values
    <3> QED
      BY <1>0, <3>1, <3>3, <3>4 DEF SemTypeOK, DutyInv, SleepersAreResponsible, PostWillWake,
         SlotsAreOwed
  <2> QED
    BY <2>1, <2>2
<1>11. ASSUME NEW t \in Threads, SemInterrupt(t) PROVE DutyInv'
  <2>1. /\ t \in waiters /\ waiters' = waiters \ {t}
        /\ UNCHANGED <<value, waking, pc, responsible_for_waking>>
    BY <1>11 DEF SemInterrupt, SemFutex!GiveUp
  <2>2. Duties \subseteq Duties'
    BY <2>1 DEF Duties
  <2>3. Cardinality(Duties) <= Cardinality(Duties')
    BY <1>0, <2>2, MoreDuties
  <2>4. value.count \in Nat
    BY <1>0 DEF SemTypeOK, Values
  <2> QED
    BY <1>0, <2>1, <2>3, <2>4 DEF SemTypeOK, DutyInv, SleepersAreResponsible, PostWillWake,
       SlotsAreOwed
<1>12. ASSUME NEW t \in Threads, SemFutexWaitReturns(t) PROVE DutyInv'
  <2>1. Duties' = Duties
    BY <1>12 DEF SemFutexWaitReturns, Duties
  <2> QED
    BY <1>0, <1>12, <2>1 DEF SemFutexWaitReturns, SemTypeOK, DutyInv, SleepersAreResponsible,
       PostWillWake, SlotsAreOwed
<1> QED
  BY <1>1, <1>2, <1>3, <1>4, <1>5, <1>6, <1>7, <1>8, <1>9, <1>10, <1>11, <1>12
  DEF SemNext, SemCalls, SemSteps

\* Both invariants hold in every reachable state.
THEOREM SemInvariantsHold == SemSpec => [](SlotsAreSound /\ DutyInv)
<1>1. SlotsAreSound /\ DutyInv /\ [SemNext]_semVars => (SlotsAreSound /\ DutyInv)'
  BY SlotsStep, DutyStep
<1> QED
  BY SemInitialState, <1>1, PTL DEF SemSpec

\* The word of a sem_t counts the slots that were posted and not taken: no
\* sem_wait() and no sem_trywait() takes a slot that another has taken.
THEOREM SlotsAreSoundHolds == SemSpec => []SlotsAreSound
  BY SemInvariantsHold, PTL

\* While a thread sleeps in sem_wait(), the next sem_post() wakes or a thread
\* that is awake will; and free slots are never left to nobody.
THEOREM DutyIsKeptHolds == SemSpec => []DutyIsKept
<1>1. SlotsAreSound /\ DutyInv => DutyIsKept
  <2> SUFFICES ASSUME SlotsAreSound, DutyInv, waiters # {}, value.count > 0
               PROVE  \E t \in Threads :
                         pc[t] \in {"post", "wake"} \/ t \in responsible_for_waking \ waiters
    BY DEF DutyIsKept, NoSlotIsForgotten, DutyInv
  <2>1. CASE ~value.post_wakes
    BY <2>1 DEF DutyInv, PostWillWake
  <2>2. CASE value.post_wakes /\ \A t \in Threads : pc[t] # "post"
    <3>1. Cardinality(Duties) > 0
      BY <2>2, DutiesAreFinite DEF DutyInv, SlotsAreOwed, SlotsAreSound, SemTypeOK, Values
    <3>2. PICK d \in Duties : TRUE
      BY <3>1, FS_EmptySet
    <3>3. d[1] \in Threads
      BY <3>2 DEF Duties
    <3>4. d[1] \in responsible_for_waking \ waiters \/ waking[d[1]] > 0
      BY <3>2 DEF Duties, SlotsAreSound, SemTypeOK
    <3> QED
      BY <3>3, <3>4 DEF SlotsAreSound, SemTypeOK
  <2> QED
    BY <2>1, <2>2
<1> QED
  BY SemInvariantsHold, <1>1, PTL
=============================================================================
