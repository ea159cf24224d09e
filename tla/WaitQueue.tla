------------------------------ MODULE WaitQueue ------------------------------
(***************************************************************************)
(* Blocking a kernel thread on a WaitQueue: Thread::block_impl() and the   *)
(* Blocker/BlockerSet protocol (Kernel/Tasks/Thread.cpp, Thread.h,         *)
(* ThreadBlockers.cpp) with the queue itself (Kernel/Tasks/WaitQueue.cpp), *)
(* and the three other ways a sleep ends: its timer, a signal, death.      *)
(*                                                                         *)
(* The steps are the critical sections of the code.  Two spinlocks matter: *)
(* g_scheduler_lock (m_block_lock is only ever contended under it) and the *)
(* m_lock of the queue.  On one processor (SMP = FALSE, the default of the *)
(* boot parameter "smp") a spinlock keeps interrupts off, so nothing else  *)
(* moves while one is held; with SMP = TRUE only the locks exclude.        *)
(*                                                                         *)
(* A thread has one blocker at a time, so sets of threads stand for the    *)
(* flags of the blockers.  Threads that stop (SIGSTOP), page faults and    *)
(* wake-ups from interrupt handlers, which are deferred, are not modelled. *)
(***************************************************************************)
EXTENDS Naturals, Sequences, FiniteSets, SequencesExt

CONSTANTS Threads,   \* the threads that wait on the queue
          Wakers,    \* the threads that call wake_one(), wake_n(), wake_all()
          Nobody,    \* an unlocked spinlock
          SMP        \* is there more than one processor?

ASSUME WaitQueueAssumption ==
    /\ IsFiniteSet(Threads)
    /\ Threads \cap Wakers = {} /\ Nobody \notin Threads \cup Wakers
    /\ SMP \in BOOLEAN

VARIABLES pc,                \* where a thread is in block_impl()
          g_scheduler_lock, queue_lock,    \* who holds the spinlocks
          m_blockers,        \* the threads whose blockers are in the queue
          m_wake_requested,
          blocked,           \* threads with m_state = Blocked
          m_blocker,         \* threads with m_blocker set
          m_is_blocking, m_did_unblock,    \* the flags of their blockers
          interrupted,       \* the death and signal flags of the blocker
          timer,             \* threads with an armed m_block_timer
          timeout_unblocked, \* the flag the timer callback shares
          m_should_die,
          result,            \* the BlockResult block_impl() is about to return
          waker,             \* where a waker is in its wake call
          cause              \* ghost: what made the thread runnable

locks   == <<g_scheduler_lock, queue_lock>>
queue   == <<m_blockers, m_wake_requested>>
flags   == <<m_is_blocking, m_did_unblock, interrupted, timer, timeout_unblocked>>
sleep   == <<blocked, m_blocker, cause>>
vars    == <<pc, locks, queue, flags, sleep, m_should_die, result, waker>>

WakeCall(at, left, any, target) == [at |-> at, left |-> left, any |-> any, target |-> target]

Idle == WakeCall("idle", 0, FALSE, Nobody)

Init ==
    /\ pc = [t \in Threads |-> "running"]
    /\ g_scheduler_lock = Nobody /\ queue_lock = Nobody
    /\ m_blockers = <<>> /\ m_wake_requested = FALSE
    /\ blocked = {} /\ m_blocker = {} /\ m_is_blocking = {} /\ m_did_unblock = {}
    /\ interrupted = [t \in Threads |-> "no"]
    /\ timer = {} /\ timeout_unblocked = {} /\ m_should_die = {}
    /\ result = [t \in Threads |-> "none"]
    /\ waker = [w \in Wakers |-> Idle]
    /\ cause = [t \in Threads |-> "none"]

-----------------------------------------------------------------------------
\* Spinlock::lock() disables interrupts on the processor of its caller.
MayRun(p) == SMP \/ (g_scheduler_lock \in {p, Nobody} /\ queue_lock \in {p, Nobody})

\* block_impl(): take g_scheduler_lock and m_block_lock.
BeginBlock(t) ==
    /\ pc[t] = "running" /\ MayRun(t)
    /\ g_scheduler_lock = Nobody
    /\ g_scheduler_lock' = t
    /\ pc' = [pc EXCEPT ![t] = "setup"]
    /\ UNCHANGED <<queue_lock, queue, flags, sleep, m_should_die, result, waker>>

\* Fault: the locks are released between the registration and the sleep.
SetupBlockerUnlocked(t) ==
    /\ pc[t] = "setup" /\ MayRun(t)
    /\ queue_lock = Nobody
    /\ g_scheduler_lock' = Nobody
    /\ \/ /\ m_wake_requested
          /\ m_wake_requested' = FALSE
          /\ pc' = [pc EXCEPT ![t] = "running"]
          /\ UNCHANGED m_blockers
       \/ /\ ~m_wake_requested
          /\ m_blockers' = Append(m_blockers, t)
          /\ pc' = [pc EXCEPT ![t] = "added"]
          /\ UNCHANGED m_wake_requested
    /\ UNCHANGED <<queue_lock, flags, sleep, m_should_die, result, waker>>

\* setup_blocker(): add_blocker() and should_add_blocker() of the queue.  A
\* wake-up that came before is used up instead of blocking.
SetupBlocker(t) ==
    /\ pc[t] = "setup" /\ MayRun(t)
    /\ queue_lock = Nobody
    /\ \/ /\ m_wake_requested
          /\ m_wake_requested' = FALSE
          /\ g_scheduler_lock' = Nobody
          /\ pc' = [pc EXCEPT ![t] = "running"]
          /\ UNCHANGED m_blockers
       \/ /\ ~m_wake_requested
          /\ m_blockers' = Append(m_blockers, t)
          /\ pc' = [pc EXCEPT ![t] = "added"]
          /\ UNCHANGED <<m_wake_requested, g_scheduler_lock>>
    /\ UNCHANGED <<queue_lock, flags, sleep, m_should_die, result, waker>>

\* The rest of the critical section: the timer, begin_blocking(), Blocked.
FallAsleep(t) ==
    /\ pc[t] = "added" /\ MayRun(t)
    /\ pc' = [pc EXCEPT ![t] = "sleeping"]
    /\ m_blocker' = m_blocker \cup {t}
    /\ m_is_blocking' = m_is_blocking \cup {t}
    /\ blocked' = blocked \cup {t}
    /\ timer' \in {timer, timer \cup {t}}
    /\ g_scheduler_lock' = Nobody
    /\ UNCHANGED <<queue_lock, queue, m_did_unblock, interrupted, timeout_unblocked,
                   cause, m_should_die, result, waker>>

\* The timeout is already in the past: finalize() and return.
TimeoutInThePast(t) ==
    /\ pc[t] = "added" /\ MayRun(t)
    /\ queue_lock = Nobody
    /\ pc' = [pc EXCEPT ![t] = "running"]
    /\ m_blockers' = RemoveFirst(m_blockers, t)
    /\ m_did_unblock' = m_did_unblock \ {t}
    /\ g_scheduler_lock' = Nobody
    /\ UNCHANGED <<queue_lock, m_wake_requested, m_is_blocking, interrupted, timer,
                   timeout_unblocked, sleep, m_should_die, result, waker>>

\* Thread::unblock(): the thread becomes runnable, once.
Unblock(t, why) ==
    /\ blocked' = blocked \ {t}
    /\ m_blocker' = IF t \in blocked THEN m_blocker \ {t} ELSE m_blocker
    /\ cause' = IF t \in blocked THEN [cause EXCEPT ![t] = why] ELSE cause

\* The thread runs again: the end of the yield loop and end_blocking().
BlockResult(t) ==
    IF interrupted[t] = "death" THEN "InterruptedByDeath"
    ELSE IF interrupted[t] = "signal" THEN "InterruptedBySignal"
    ELSE IF t \in timeout_unblocked THEN "InterruptedByTimeout" ELSE "WokeNormally"

WakeUp(t) ==
    /\ pc[t] = "sleeping" /\ t \notin blocked /\ MayRun(t)
    /\ pc' = [pc EXCEPT ![t] = "woken"]
    /\ result' = [result EXCEPT ![t] = BlockResult(t)]
    /\ timeout_unblocked' = timeout_unblocked \cup {t}
    /\ m_blocker' = m_blocker \ {t}
    /\ m_is_blocking' = m_is_blocking \ {t}
    /\ UNCHANGED <<locks, queue, m_did_unblock, interrupted, timer, blocked, cause,
                   m_should_die, waker>>

\* Fault: finalize() is forgotten.
ReturnNotFinalized(t) ==
    /\ pc[t] = "woken" /\ MayRun(t)
    /\ queue_lock = Nobody
    /\ pc' = [pc EXCEPT ![t] = "running"]
    /\ timer' = timer \ {t}
    /\ m_did_unblock' = m_did_unblock \ {t}
    /\ timeout_unblocked' = timeout_unblocked \ {t}
    /\ interrupted' = [interrupted EXCEPT ![t] = "no"]
    /\ result' = [result EXCEPT ![t] = "none"]
    /\ cause' = [cause EXCEPT ![t] = "none"]
    /\ UNCHANGED <<locks, queue, m_is_blocking, blocked, m_blocker, m_should_die, waker>>

\* cancel_timer(), relock_process(), and finalize() as block_impl() returns;
\* the blocker and its flags go with the stack frame.
Return(t) ==
    /\ pc[t] = "woken" /\ MayRun(t)
    /\ queue_lock = Nobody
    /\ pc' = [pc EXCEPT ![t] = "running"]
    /\ timer' = timer \ {t}
    /\ m_blockers' = RemoveFirst(m_blockers, t)
    /\ m_did_unblock' = m_did_unblock \ {t}
    /\ timeout_unblocked' = timeout_unblocked \ {t}
    /\ interrupted' = [interrupted EXCEPT ![t] = "no"]
    /\ result' = [result EXCEPT ![t] = "none"]
    /\ cause' = [cause EXCEPT ![t] = "none"]
    /\ UNCHANGED <<locks, m_wake_requested, m_is_blocking, blocked, m_blocker,
                   m_should_die, waker>>

\* die_if_needed() of a thread on its way out; a new thread takes its place.
Die(t) ==
    /\ pc[t] = "running" /\ t \in m_should_die /\ MayRun(t)
    /\ g_scheduler_lock = Nobody
    /\ m_should_die' = m_should_die \ {t}
    /\ UNCHANGED <<pc, locks, queue, flags, sleep, result, waker>>

-----------------------------------------------------------------------------
\* Fault: the callback does not check that the thread still has its blocker.
TimerFiresLate(t) ==
    /\ t \in timer /\ MayRun(Nobody)
    /\ g_scheduler_lock = Nobody
    /\ timer' = timer \ {t}
    /\ IF t \notin timeout_unblocked
         THEN timeout_unblocked' = timeout_unblocked \cup {t} /\ Unblock(t, "timer")
         ELSE UNCHANGED <<timeout_unblocked, sleep>>
    /\ UNCHANGED <<pc, locks, queue, m_is_blocking, m_did_unblock, interrupted,
                   m_should_die, result, waker>>

\* The callback of m_block_timer.
TimerFires(t) ==
    /\ t \in timer /\ MayRun(Nobody)
    /\ g_scheduler_lock = Nobody
    /\ timer' = timer \ {t}
    /\ IF t \in m_blocker /\ t \notin timeout_unblocked
         THEN timeout_unblocked' = timeout_unblocked \cup {t} /\ Unblock(t, "timer")
         ELSE UNCHANGED <<timeout_unblocked, sleep>>
    /\ UNCHANGED <<pc, locks, queue, m_is_blocking, m_did_unblock, interrupted,
                   m_should_die, result, waker>>

\* send_signal(): only a thread that already sleeps is interrupted.
SendSignal(t) ==
    /\ MayRun(Nobody) /\ g_scheduler_lock = Nobody
    /\ t \in blocked /\ t \in m_blocker
    /\ interrupted' = [interrupted EXCEPT ![t] = "signal"]
    /\ Unblock(t, "signal")
    /\ UNCHANGED <<pc, locks, queue, m_is_blocking, m_did_unblock, timer,
                   timeout_unblocked, m_should_die, result, waker>>

\* set_should_die().
SetShouldDie(t) ==
    /\ t \notin m_should_die /\ MayRun(Nobody)
    /\ g_scheduler_lock = Nobody
    /\ m_should_die' = m_should_die \cup {t}
    /\ IF t \in blocked /\ t \in m_blocker
         THEN interrupted' = [interrupted EXCEPT ![t] = "death"] /\ Unblock(t, "death")
         ELSE UNCHANGED <<interrupted, sleep>>
    /\ UNCHANGED <<pc, locks, queue, m_is_blocking, m_did_unblock, timer,
                   timeout_unblocked, result, waker>>

-----------------------------------------------------------------------------
\* wake_one(), wake_n(n) and wake_all(): take the lock of the queue ...
BeginWake(w, n) ==
    /\ waker[w].at = "idle" /\ MayRun(w)
    /\ queue_lock = Nobody
    /\ queue_lock' = w
    /\ waker' = [waker EXCEPT ![w] = WakeCall("iterating", n, FALSE, Nobody)]
    /\ UNCHANGED <<pc, g_scheduler_lock, queue, flags, sleep, m_should_die, result>>

\* The places in the queue of blockers that were not told to unblock.
Candidates == {i \in DOMAIN m_blockers : m_blockers[i] \notin m_did_unblock}

\* ... call unblock() of the next blocker; if its thread is blocking go on to
\* make it runnable, otherwise only remove the blocker ...
Visit(w) ==
    /\ waker[w].at = "iterating" /\ waker[w].left > 0 /\ MayRun(w)
    /\ \E i \in Candidates :
          LET t == m_blockers[i]
          IN  /\ \A j \in Candidates : i <= j
              /\ m_did_unblock' = m_did_unblock \cup {t}
              /\ m_is_blocking' = m_is_blocking \ {t}
              /\ m_blockers' = RemoveAt(m_blockers, i)
              /\ waker' = [waker EXCEPT ![w] =
                     IF t \in m_is_blocking
                       THEN WakeCall("unblocking", waker[w].left - 1, TRUE, t)
                       ELSE WakeCall("iterating", waker[w].left - 1, TRUE, Nobody)]
    /\ UNCHANGED <<pc, locks, m_wake_requested, interrupted, timer, timeout_unblocked,
                   sleep, m_should_die, result>>

\* ... unblock_from_blocker() of its thread, under g_scheduler_lock ...
UnblockFromBlocker(w) ==
    /\ waker[w].at = "unblocking" /\ MayRun(w)
    /\ g_scheduler_lock = Nobody
    /\ IF waker[w].target \in m_blocker
         THEN Unblock(waker[w].target, "waker")
         ELSE UNCHANGED sleep
    /\ waker' = [waker EXCEPT ![w] =
                    WakeCall("iterating", waker[w].left, waker[w].any, Nobody)]
    /\ UNCHANGED <<pc, locks, queue, flags, m_should_die, result>>

\* ... and remember the wake-up if it found nobody.
EndWake(w) ==
    /\ waker[w].at = "iterating" /\ MayRun(w)
    /\ waker[w].left = 0 \/ Candidates = {}
    /\ m_wake_requested' = ~waker[w].any
    /\ queue_lock' = Nobody
    /\ waker' = [waker EXCEPT ![w] = Idle]
    /\ UNCHANGED <<pc, g_scheduler_lock, m_blockers, flags, sleep, m_should_die, result>>

-----------------------------------------------------------------------------
Next ==
    \/ \E t \in Threads :
          \/ BeginBlock(t) \/ SetupBlocker(t) \/ FallAsleep(t) \/ TimeoutInThePast(t)
          \/ WakeUp(t) \/ Return(t) \/ Die(t)
          \/ TimerFires(t) \/ SendSignal(t) \/ SetShouldDie(t)
    \/ \E w \in Wakers :
          \/ \E n \in 1..Cardinality(Threads) : BeginWake(w, n)
          \/ Visit(w) \/ UnblockFromBlocker(w) \/ EndWake(w)

Spec == Init /\ [][Next]_vars

\* A call that has begun goes on, a runnable thread is scheduled however often
\* others hold the processor, a timer fires.  No thread is obliged to wait, to
\* wake, to send a signal or to kill.
Fairness ==
    /\ \A t \in Threads :
          /\ SF_vars(SetupBlocker(t) \/ FallAsleep(t) \/ TimeoutInThePast(t) \/ WakeUp(t) \/ Return(t))
          /\ SF_vars(TimerFires(t))
          /\ SF_vars(Die(t))
    /\ \A w \in Wakers : WF_vars(Visit(w) \/ UnblockFromBlocker(w) \/ EndWake(w))

FairSpec == Spec /\ Fairness

-----------------------------------------------------------------------------
\* What a wake call keeps.
WakerStates == [at : {"idle", "iterating", "unblocking"}, left : 0..Cardinality(Threads),
                any : BOOLEAN, target : Threads \cup {Nobody}]

\* The state is well formed.
TypeOK ==
    /\ pc \in [Threads -> {"running", "setup", "added", "sleeping", "woken"}]
    /\ g_scheduler_lock \in Threads \cup {Nobody}
    /\ queue_lock \in Wakers \cup {Nobody}
    /\ m_blockers \in Seq(Threads)
    /\ m_wake_requested \in BOOLEAN
    /\ blocked \subseteq Threads /\ m_blocker \subseteq Threads /\ m_is_blocking \subseteq Threads
    /\ m_did_unblock \subseteq Threads /\ timer \subseteq Threads
    /\ timeout_unblocked \subseteq Threads /\ m_should_die \subseteq Threads
    /\ interrupted \in [Threads -> {"no", "signal", "death"}]
    /\ result \in [Threads -> {"none", "WokeNormally", "InterruptedByTimeout",
                               "InterruptedBySignal", "InterruptedByDeath"}]
    /\ waker \in [Wakers -> WakerStates]
    /\ cause \in [Threads -> {"none", "timer", "signal", "death", "waker"}]

\* A thread whose blocker was told to unblock does not sleep on: either it is
\* runnable, or the waker is about to make it so.  This is what holding
\* m_block_lock across the registration of the blocker is meant to ensure.
NoLostWakeup ==
    \A t \in m_did_unblock :
        pc[t] = "sleeping" /\ t \in blocked =>
            \E w \in Wakers : waker[w].at = "unblocking" /\ waker[w].target = t

\* A wake-up is remembered only while nobody waits: m_wake_requested and a
\* queued blocker never coexist, so a remembered wake-up is never owed to a
\* thread that sleeps.
RememberedOnlyIfEmpty == m_wake_requested => m_blockers = <<>>

\* block_impl() reports what ended the sleep, even if the timer, a signal, a
\* kill and a waker race: the first one wins and the others change nothing.
ResultTellsCause ==
    \A t \in Threads :
        pc[t] = "woken" =>
            \/ cause[t] = "waker"  /\ result[t] = "WokeNormally"
            \/ cause[t] = "timer"  /\ result[t] = "InterruptedByTimeout"
            \/ cause[t] = "signal" /\ result[t] = "InterruptedBySignal"
            \/ cause[t] = "death"  /\ result[t] = "InterruptedByDeath"

\* The queue points only at blockers that are alive, on the stack of a thread
\* inside block_impl(), and at each of them once; no timer outlives its sleep.
NoDanglingBlocker ==
    /\ \A i \in DOMAIN m_blockers : pc[m_blockers[i]] \in {"added", "sleeping", "woken"}
    /\ \A i, j \in DOMAIN m_blockers : m_blockers[i] = m_blockers[j] => i = j
    /\ \A t \in timer : pc[t] \in {"sleeping", "woken"}

\* A Blocked thread has its m_blocker: VERIFY(m_blocker) in unblock().
SleeperHasBlocker == \A t \in blocked : t \in m_blocker /\ pc[t] = "sleeping"

\* What the queue, the stacks and the states of the threads say of a blocker
\* agrees, whoever ends its sleep.
BlockersAreSound == TypeOK /\ RememberedOnlyIfEmpty /\ NoDanglingBlocker /\ SleeperHasBlocker

\* A thread that sleeps with a timeout, or was told to unblock, returns.
SleepEnds ==
    \A t \in Threads :
        pc[t] = "sleeping" /\ (t \in timer \/ t \in m_did_unblock) ~> pc[t] = "running"
=============================================================================
