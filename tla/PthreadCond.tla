----------------------------- MODULE PthreadCond -----------------------------
(***************************************************************************)
(* pthread_cond_t of LibC (Userland/Libraries/LibC/pthread_cond.cpp) with  *)
(* the mutex it is used with, module PthreadMutex.  Its futex behaves as   *)
(* FutexSpec says.                                                         *)
(*                                                                         *)
(* cond->value holds a generation number and two flags.  A wait compares   *)
(* the whole of it with what it was, so that all that matters of the       *)
(* generation is whether it has changed since: fresh are the threads for   *)
(* which it has not.  (It takes 2^30 signals during one call of            *)
(* pthread_cond_wait() to bring a generation back.)                        *)
(***************************************************************************)
EXTENDS PthreadMutex

CONSTANT TimedOutUnlocks   \* may a caller whose wait has timed out unlock the mutex?

ASSUME CondAssumption == TimedOutUnlocks \in BOOLEAN

VARIABLES need_to_wake,   \* the flags in cond->value
          fresh,          \* threads that know the generation in cond->value
          sleepers,       \* threads that wait in the futex on cond->value
          cpc,            \* where a thread is in a call for the condition variable
          owed,           \* ghost: who waited when a signal or broadcast began;
                          \* nobody, once a signal has unblocked one thread
          trespassed      \* ghost: has a caller unlocked without the mutex?

condVars == <<need_to_wake, fresh, sleepers, cpc, owed, trespassed>>
allVars  == <<vars, condVars>>

CondInit ==
    /\ Init
    /\ need_to_wake = {} /\ fresh = {} /\ sleepers = {}
    /\ cpc = [t \in Threads |-> "none"]
    /\ owed = [t \in Threads |-> {}]
    /\ trespassed = FALSE

CondGoto(t, where) == cpc' = [cpc EXCEPT ![t] = where]

\* The threads that have announced a wait and may sleep through a signal.
Waiting == sleepers \cup {t \in fresh : cpc[t] \in {"unlock", "unlocked"}}

\* What is owed when thread t begins a wait, and so has ended the last one.
OwedAfter(t) ==
    [s \in Threads |-> IF t \notin owed[s] THEN owed[s]
                       ELSE IF cpc[s] \in {"broadcast_clear", "broadcast_wake", "broadcast"}
                         THEN owed[s] \ {t} ELSE {}]

-----------------------------------------------------------------------------
\* Fault: a waiter asks only to be woken one by one.
WaitFlagsOne == {"NEED_TO_WAKE_ONE"}

WaitFlags == {"NEED_TO_WAKE_ONE", "NEED_TO_WAKE_ALL"}

\* pthread_cond_wait(), pthread_cond_timedwait(): announce the wait while the
\* mutex is held ...
CondWait(t) ==
    /\ cpc[t] = "none" /\ pc[t] = "inside"
    /\ need_to_wake' = need_to_wake \cup WaitFlags
    /\ fresh' = fresh \cup {t}
    /\ CondGoto(t, "unlock")
    /\ owed' = OwedAfter(t)
    /\ UNCHANGED <<vars, sleepers, trespassed>>

\* ... unlock it, which only counts down if it was locked more than once ...
CondUnlockLevel(t) ==
    /\ cpc[t] = "unlock"
    /\ UnlockLevel(t)
    /\ CondGoto(t, "unlocked")
    /\ UNCHANGED <<need_to_wake, fresh, sleepers, owed, trespassed>>

\* Fault: the value is not compared.
ValueUnchangedAlways(t) == TRUE

ValueUnchanged(t) == t \in fresh /\ need_to_wake = WaitFlags

\* Fault: the thread goes to sleep before it unlocks the mutex.
HasUnlockedNot(t) == cpc[t] \in {"unlock", "unlocked"}

HasUnlocked(t) == cpc[t] = "unlocked" \/ (cpc[t] = "unlock" /\ pc[t] = "outside")

\* ... and sleep unless the value has changed (EAGAIN) ...
CondFutexWait(t) ==
    /\ HasUnlocked(t)
    /\ IF ValueUnchanged(t)
         THEN CondGoto(t, "asleep") /\ sleepers' = sleepers \cup {t}
         ELSE CondGoto(t, "relock") /\ UNCHANGED sleepers
    /\ fresh' = fresh \ {t}
    /\ UNCHANGED <<vars, need_to_wake, owed, trespassed>>

\* ... a signal handler may end the sleep, as if woken ...
CondInterrupt(t) ==
    /\ t \in sleepers
    /\ sleepers' = sleepers \ {t}
    /\ UNCHANGED <<vars, need_to_wake, fresh, cpc, owed, trespassed>>

\* ... a timeout ends the call, without the mutex: the caller leaves it
\* alone, or takes it for locked ...
CondTimeout(t) ==
    /\ t \in sleepers
    /\ sleepers' = sleepers \ {t}
    /\ \/ CondGoto(t, "none")
       \/ TimedOutUnlocks /\ pc[t] = "outside" /\ CondGoto(t, "timed_out")
    /\ UNCHANGED <<vars, need_to_wake, fresh, owed, trespassed>>

\* (and unlocks it: pthread_mutex_unlock() does not ask who its caller is) ...
TimedOutUnlock(t) ==
    /\ cpc[t] = "timed_out"
    /\ IF Type = "RECURSIVE" /\ level > 0
         THEN level' = level - 1 /\ UNCHANGED <<owner, pc>>
         ELSE /\ owner' = IF Type = "RECURSIVE" THEN NoThread ELSE owner
              /\ Goto(t, "unlock")
              /\ UNCHANGED level
    /\ CondGoto(t, "none")
    /\ trespassed' = TRUE
    /\ UNCHANGED <<lock, futex, pessimistic, depth, need_to_wake, fresh, sleepers, owed>>

\* ... and otherwise the mutex is locked by the pessimistic path, which does
\* not end for the thread that has it.
CondRelock(t) ==
    /\ cpc[t] = "relock" \/ (cpc[t] = "asleep" /\ t \notin sleepers)
    /\ LockPessimistic(t) \/ LockOwn(t)
    /\ CondGoto(t, "relock")
    /\ UNCHANGED <<need_to_wake, fresh, sleepers, owed, trespassed>>

CondWaitReturns(t) ==
    /\ cpc[t] = "relock"
    /\ LockReturns(t)
    /\ CondGoto(t, "none")
    /\ UNCHANGED <<need_to_wake, fresh, sleepers, owed, trespassed>>

-----------------------------------------------------------------------------
\* Both calls begin with an increment of the generation.  The mutex may be
\* held and need not be.
CondBegin(t, flag, next, done) ==
    /\ cpc[t] = "none" /\ pc[t] \in {"inside", "outside"}
    /\ fresh' = {}
    /\ owed' = [owed EXCEPT ![t] = Waiting]
    /\ CondGoto(t, IF flag \in need_to_wake THEN next ELSE done)
    /\ UNCHANGED <<vars, need_to_wake, sleepers, trespassed>>

CondSignal(t) == CondBegin(t, "NEED_TO_WAKE_ONE", "signal_clear", "signalled")

\* pthread_cond_signal() clears the flag if nobody else has ...
SignalClear(t) ==
    /\ cpc[t] = "signal_clear"
    /\ need_to_wake' = need_to_wake \ {"NEED_TO_WAKE_ONE"}
    /\ CondGoto(t, IF "NEED_TO_WAKE_ONE" \in need_to_wake THEN "signal_wake" ELSE "signalled")
    /\ UNCHANGED <<vars, fresh, sleepers, owed, trespassed>>

\* ... wakes one thread ...
SignalWake(t) ==
    /\ cpc[t] = "signal_wake"
    /\ \/ sleepers = {} /\ CondGoto(t, "signalled") /\ UNCHANGED <<sleepers, owed>>
       \/ /\ \E u \in sleepers : sleepers' = sleepers \ {u}
          /\ CondGoto(t, "signal_restore")
          /\ owed' = [owed EXCEPT ![t] = {}]
    /\ UNCHANGED <<vars, need_to_wake, fresh, trespassed>>

\* Fault: the flag is not put back.
FlagsRestoredNot == need_to_wake

FlagsRestored == need_to_wake \cup {"NEED_TO_WAKE_ONE"}

\* ... and puts the flag back when there was somebody to wake.
SignalRestore(t) ==
    /\ cpc[t] = "signal_restore"
    /\ need_to_wake' = FlagsRestored
    /\ CondGoto(t, "signalled")
    /\ UNCHANGED <<vars, fresh, sleepers, owed, trespassed>>

CondBroadcast(t) == CondBegin(t, "NEED_TO_WAKE_ALL", "broadcast_clear", "broadcast")

\* pthread_cond_broadcast() clears both flags ...
BroadcastClear(t) ==
    /\ cpc[t] = "broadcast_clear"
    /\ need_to_wake' = {}
    /\ CondGoto(t, "broadcast_wake")
    /\ UNCHANGED <<vars, fresh, sleepers, owed, trespassed>>

\* FUTEX_REQUEUE with the count -1, which is unsigned in the kernel: everybody
\* is woken and nobody is left to be requeued to the mutex.
StillAsleep == {}

\* ... and wakes everybody.
BroadcastWake(t) ==
    /\ cpc[t] = "broadcast_wake"
    /\ sleepers' = StillAsleep
    /\ CondGoto(t, "broadcast")
    /\ UNCHANGED <<vars, need_to_wake, fresh, owed, trespassed>>

CondReturns(t) ==
    /\ cpc[t] \in {"signalled", "broadcast"}
    /\ owed' = [owed EXCEPT ![t] = {}]
    /\ CondGoto(t, "none")
    /\ UNCHANGED <<vars, need_to_wake, fresh, sleepers, trespassed>>

-----------------------------------------------------------------------------
\* The steps of the mutex that a thread may take outside the calls above, and
\* those it takes for pthread_cond_wait().
MutexStep(t) ==
    /\ \/ cpc[t] = "none" /\ (FastPath(t) \/ LockAgain(t) \/ SlowPath(t) \/ LockReturns(t) \/ UnlockLevel(t))
       \/ cpc[t] \in {"none", "relock"} /\ (Exchange(t) \/ FutexWait(t) \/ FutexWaitReturns(t))
       \/ cpc[t] \in {"none", "unlock"} /\ (UnlockOwner(t) \/ UnlockExchange(t) \/ FutexWake(t))
       \/ Interrupt(t)
    /\ UNCHANGED condVars

CondCall(t) ==
    \/ CondUnlockLevel(t) \/ CondFutexWait(t) \/ CondRelock(t) \/ CondWaitReturns(t)
    \/ TimedOutUnlock(t)
    \/ SignalClear(t) \/ SignalWake(t) \/ SignalRestore(t)
    \/ BroadcastClear(t) \/ BroadcastWake(t) \/ CondReturns(t)

CondNext ==
    \E t \in Threads :
        \/ MutexStep(t) \/ CondCall(t)
        \/ CondWait(t) \/ CondInterrupt(t) \/ CondTimeout(t)
        \/ CondSignal(t) \/ CondBroadcast(t)

CondSpec == CondInit /\ [][CondNext]_allVars

\* A thread that has begun a call goes on, and leaves its critical section.
CondFairSpec ==
    /\ CondSpec
    /\ \A t \in Threads : WF_allVars((Steps(t) /\ MutexStep(t)) \/ CondCall(t))

-----------------------------------------------------------------------------
\* The state of the condition variable is well formed.
CondTypeOK ==
    /\ need_to_wake \subseteq WaitFlags
    /\ fresh \subseteq {t \in Threads : cpc[t] \in {"unlock", "unlocked"}}
    /\ sleepers \subseteq {t \in Threads : cpc[t] = "asleep"}
    /\ cpc \in [Threads -> {"none", "unlock", "unlocked", "asleep", "relock", "timed_out",
                            "signal_clear", "signal_wake", "signal_restore", "signalled",
                            "broadcast_clear", "broadcast_wake", "broadcast"}]
    /\ owed \in [Threads -> SUBSET Threads]
    /\ trespassed \in BOOLEAN

\* While somebody sleeps the flags say so, unless a call that has cleared
\* them is going to wake somebody or to put them back.
FlagsTellOfSleepers ==
    sleepers # {} =>
        \/ need_to_wake = WaitFlags
        \/ \E t \in Threads : cpc[t] \in {"signal_wake", "signal_restore", "broadcast_wake"}

\* A call for the condition variable leaves the mutex to those who lock it:
\* it excludes as it does without, and who sleeps on the condition has let go
\* of it, or locked it more than once.  So it is until a caller to whom
\* pthread_cond_timedwait() returned ETIMEDOUT, without the mutex, unlocks it.
CondKeepsExclusion ==
    ~trespassed =>
        /\ TypeOK /\ CondTypeOK /\ MutualExclusion
        /\ \A t \in sleepers : pc[t] = "outside" \/ owner = t

\* One of the threads that waited when s began its call does not wait any
\* more, or s has woken another one.
HasUnblocked(s) == owed[s] = {} \/ \E t \in owed[s] : t \notin Waiting

\* pthread_cond_signal() unblocks one of the threads that wait, also one that
\* had announced its wait and was not yet asleep, whether or not the mutex is
\* held; it returns without only if at that moment another signal or
\* broadcast has cleared the flag and is not yet done.
SignalUnblocksOne ==
    [][\A s \in Threads : cpc[s] # "signalled" /\ cpc'[s] = "signalled" =>
           \/ HasUnblocked(s)'
           \/ \E t \in Threads \ {s} :
                 cpc[t] \in {"signal_wake", "signal_restore", "broadcast_wake"}]_allVars

\* pthread_cond_broadcast() unblocks all the threads that waited when it was
\* called, whether or not the mutex is held, by itself or by another
\* broadcast that is about to wake everybody.
BroadcastUnblocksAll ==
    \A s \in Threads : cpc[s] = "broadcast" =>
        \/ owed[s] \cap Waiting = {}
        \/ \E t \in Threads : cpc[t] = "broadcast_wake"
=============================================================================
