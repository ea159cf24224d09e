------------------------------ MODULE TimerQueue ------------------------------
(***************************************************************************)
(* The kernel's timers (Kernel/Time/TimerQueue.cpp): owners arm and cancel *)
(* them, the timer interrupt fires them, and their callbacks run later, in *)
(* deferred calls, possibly while the owner cancels.  A step is an access  *)
(* to one of the atomic flags of a Timer or a critical section of          *)
(* g_timerqueue_lock.                                                      *)
(*                                                                         *)
(* An owner is the only thread that arms and cancels its timer (a thread   *)
(* its m_block_timer, a process its m_alarm_timer under a spinlock), so    *)
(* one name stands for both.  The two queues of the code are alike; one is *)
(* modelled.  Time is relative: m_expires counts the ticks to the deadline *)
(* and reaches 0 in the tick in which the timer is due.                    *)
(***************************************************************************)
EXTENDS Integers, Sequences, FiniteSets, SequencesExt

CONSTANTS Timers,
          MaxDelay,    \* bounds the deadlines
          RearmOnSMP   \* are timers used again when there are several processors?

ASSUME TimerQueueAssumption ==
    /\ IsFiniteSet(Timers) /\ MaxDelay \in Nat \ {0} /\ RearmOnSMP \in BOOLEAN

VARIABLES smp,                   \* the boot parameter: are there several processors?
          list, next_timer_due,  \* the queue
          m_timers_executing,
          m_expires,
          m_cancelled, m_in_use, m_callback_finished,   \* the timers with the flag set
          refs,                  \* the reference counts
          calls,                 \* deferred calls: [timer, at], oldest first
          pc,                    \* where an owner is
          result,                \* what cancel_timer() returned
          ran                    \* ghost: callbacks begun since the timer was armed

queue == <<list, next_timer_due, m_timers_executing>>
flags == <<m_cancelled, m_in_use, m_callback_finished>>
vars  == <<smp, queue, m_expires, flags, refs, calls, pc, result, ran>>

Init ==
    /\ smp \in BOOLEAN
    /\ list = <<>> /\ next_timer_due = 0 /\ m_timers_executing = {}
    /\ m_expires = [t \in Timers |-> 0]
    /\ m_cancelled = {} /\ m_in_use = {} /\ m_callback_finished = {}
    /\ refs = [t \in Timers |-> 1]
    /\ calls = <<>>
    /\ pc = [t \in Timers |-> "new"]
    /\ result = [t \in Timers |-> FALSE]
    /\ ran = [t \in Timers |-> 0]

Goto(t, where) == pc' = [pc EXCEPT ![t] = where]

Queued(t) == t \in ToSet(list) \cup m_timers_executing

CallsOf(t) == {i \in DOMAIN calls : calls[i].timer = t}

\* A single processor handles a timer interrupt, and the deferred calls at
\* its end, before any thread goes on; exit_trap() does not care whether the
\* interrupted thread is in a critical section.
MayRun(t) ==
    \/ smp
    \/ calls = <<>> /\ \A u \in ToSet(list) : m_expires[u] > 0

\* update_next_timer_due()
NextDue(l, expires) == IF l = <<>> THEN 0 ELSE expires[Head(l)]

\* The loop of add_timer_locked(): behind all timers that are not later.
Insert(t, l, expires) ==
    LET before == {i \in DOMAIN l : expires[l[i]] <= expires[t]}
    IN  InsertAt(l, Cardinality(before) + 1, t)

\* Fault: clear_cancelled() is forgotten.
CancelledAfterAddStale(t) == m_cancelled

CancelledAfterAdd(t) == m_cancelled \ {t}

\* add_timer_without_id() with a deadline in the future.  Its owner arms a
\* timer that is new, whose callback has begun or that it has cancelled.
AddTimer(t, delay) ==
    /\ MayRun(t)
    /\ \/ pc[t] = "new"
       \/ (smp => RearmOnSMP) /\ (pc[t] = "cancelled" \/ (pc[t] = "armed" /\ ran[t] > 0))
    /\ m_expires' = [m_expires EXCEPT ![t] = delay]
    /\ m_cancelled' = CancelledAfterAdd(t)
    /\ m_callback_finished' = m_callback_finished \ {t}
    /\ m_in_use' = m_in_use \cup {t}
    /\ list' = Insert(t, list, m_expires')
    /\ next_timer_due' = IF list'[1] = t THEN delay ELSE next_timer_due
    /\ refs' = [refs EXCEPT ![t] = @ + 1]
    /\ ran' = [ran EXCEPT ![t] = 0]
    /\ result' = [result EXCEPT ![t] = FALSE]
    /\ Goto(t, "armed")
    /\ UNCHANGED <<smp, m_timers_executing, calls>>

-----------------------------------------------------------------------------
\* cancel_timer(): a timer that is not in use is left alone ...
CancelTimer(t) ==
    /\ MayRun(t) /\ pc[t] = "armed"
    /\ Goto(t, IF t \in m_in_use THEN "set_cancelled" ELSE "cancelled")
    /\ UNCHANGED <<smp, queue, m_expires, flags, refs, calls, result, ran>>

\* ... set_cancelled() tells whether its callback has begun ...
SetCancelled(t) ==
    /\ MayRun(t) /\ pc[t] = "set_cancelled"
    /\ m_cancelled' = m_cancelled \cup {t}
    /\ IF t \in m_cancelled
         THEN Goto(t, "spin") /\ UNCHANGED m_in_use
         ELSE Goto(t, "remove") /\ m_in_use' = m_in_use \ {t}
    /\ UNCHANGED <<smp, queue, m_expires, m_callback_finished, refs, calls, result, ran>>

\* Fault: next_timer_due is left alone.
DueAfterRemovalStale(t) == next_timer_due

DueAfterRemoval(t) ==
    IF Head(list) = t THEN NextDue(RemoveFirst(list, t), m_expires) ELSE next_timer_due

\* ... if not, remove_timer_locked() takes it from the queue ...
RemoveTimer(t) ==
    /\ MayRun(t) /\ pc[t] = "remove" /\ t \in ToSet(list)
    /\ list' = RemoveFirst(list, t)
    /\ next_timer_due' = DueAfterRemoval(t)
    /\ refs' = [refs EXCEPT ![t] = @ - 1]
    /\ Goto(t, "cancelled")
    /\ result' = [result EXCEPT ![t] = TRUE]
    /\ UNCHANGED <<smp, m_timers_executing, m_expires, flags, calls, ran>>

\* Fault: the reference of the deferred call is dropped, too.
RefsAfterRemovalDropped(t) == [refs EXCEPT ![t] = @ - 1]

RefsAfterRemoval(t) == refs

\* ... or, when it has fired, from the timers whose deferred call is pending ...
RemoveExecuting(t) ==
    /\ MayRun(t) /\ pc[t] = "remove" /\ t \notin ToSet(list)
    /\ m_timers_executing' = m_timers_executing \ {t}
    /\ refs' = RefsAfterRemoval(t)
    /\ Goto(t, "cancelled")
    /\ result' = [result EXCEPT ![t] = TRUE]
    /\ UNCHANGED <<smp, list, next_timer_due, m_expires, flags, calls, ran>>

\* ... otherwise spin until the callback has finished.
SpinEnds(t) ==
    /\ MayRun(t) /\ pc[t] = "spin" /\ t \in m_callback_finished
    /\ Goto(t, "cancelled")
    /\ UNCHANGED <<smp, queue, m_expires, flags, refs, calls, result, ran>>

-----------------------------------------------------------------------------
\* The timer interrupt: time goes on.  It fires all timers before the next.
Tick ==
    /\ list # <<>>
    /\ \A t \in ToSet(list) : m_expires[t] > 0
    /\ smp \/ calls = <<>>
    /\ m_expires' = [t \in Timers |-> IF t \in ToSet(list) THEN m_expires[t] - 1 ELSE m_expires[t]]
    /\ next_timer_due' = next_timer_due - 1
    /\ UNCHANGED <<smp, list, m_timers_executing, flags, refs, calls, pc, result, ran>>

IsDue(t) == m_expires[t] = 0

\* The deferred call of a timer.
Deferred(t, at) == [timer |-> t, at |-> at]

\* One round of the loop in fire().
Fire ==
    /\ list # <<>> /\ IsDue(Head(list))
    /\ m_timers_executing' = m_timers_executing \cup {Head(list)}
    /\ list' = Tail(list)
    /\ next_timer_due' = NextDue(Tail(list), m_expires)
    /\ calls' = Append(calls, Deferred(Head(list), "queued"))
    /\ UNCHANGED <<smp, m_expires, flags, refs, pc, result, ran>>

\* Deferred call i may run: in order on one processor, else on any.
MayCall(i) == i \in DOMAIN calls /\ (smp \/ i = 1)

\* Fault: the call does not look whether it was cancelled.
IsCancelledNever(t) == FALSE

IsCancelled(t) == t \in m_cancelled

\* A deferred call begins: the callback runs unless it was cancelled ...
CallBegins(i) ==
    LET t == calls[i].timer
    IN  /\ MayCall(i) /\ calls[i].at = "queued"
        /\ m_cancelled' = m_cancelled \cup {t}
        /\ calls' = [calls EXCEPT ![i] = Deferred(t, IF IsCancelled(t) THEN "clear" ELSE "callback")]
        /\ ran' = IF IsCancelled(t) THEN ran ELSE [ran EXCEPT ![t] = @ + 1]
        /\ UNCHANGED <<smp, queue, m_expires, m_in_use, m_callback_finished, refs, pc, result>>

ExecutingAfter(t) == m_timers_executing \ {t}

\* ... after the callback the timer leaves m_timers_executing; remove() of an
\* intrusive list takes it from whatever list it is in ...
CallReturns(i) ==
    LET t == calls[i].timer
    IN  /\ MayCall(i) /\ calls[i].at = "callback"
        /\ m_timers_executing' = ExecutingAfter(t)
        /\ list' = RemoveFirst(list, t)
        /\ calls' = [calls EXCEPT ![i] = Deferred(t, "clear")]
        /\ UNCHANGED <<smp, next_timer_due, m_expires, flags, refs, pc, result, ran>>

\* ... it is no longer in use ...
CallClearsInUse(i) ==
    /\ MayCall(i) /\ calls[i].at = "clear"
    /\ m_in_use' = m_in_use \ {calls[i].timer}
    /\ calls' = [calls EXCEPT ![i] = Deferred(calls[i].timer, "finish")]
    /\ UNCHANGED <<smp, queue, m_expires, m_cancelled, m_callback_finished, refs, pc, result, ran>>

\* Fault: set_callback_finished() is forgotten.
FinishedStale(t) == m_callback_finished

Finished(t) == m_callback_finished \cup {t}

\* ... and the call has finished and drops its reference.
CallFinishes(i) ==
    LET t == calls[i].timer
    IN  /\ MayCall(i) /\ calls[i].at = "finish"
        /\ m_callback_finished' = Finished(t)
        /\ refs' = [refs EXCEPT ![t] = @ - 1]
        /\ calls' = RemoveAt(calls, i)
        /\ UNCHANGED <<smp, queue, m_expires, m_cancelled, m_in_use, pc, result, ran>>

-----------------------------------------------------------------------------
Cancel(t) == SetCancelled(t) \/ RemoveTimer(t) \/ RemoveExecuting(t) \/ SpinEnds(t)

Call(i) == CallBegins(i) \/ CallReturns(i) \/ CallClearsInUse(i) \/ CallFinishes(i)

Next ==
    \/ \E t \in Timers :
          (\E delay \in 1..MaxDelay : AddTimer(t, delay)) \/ CancelTimer(t) \/ Cancel(t)
    \/ Tick \/ Fire
    \/ \E i \in DOMAIN calls : Call(i)

\* Interrupts keep coming, deferred calls run, and a thread inside
\* cancel_timer() goes on, though interrupts may stop it again and again.
Fairness ==
    /\ WF_vars(Tick) /\ WF_vars(Fire)
    /\ WF_vars(\E i \in DOMAIN calls : Call(i))
    /\ \A t \in Timers : SF_vars(Cancel(t))

Spec == Init /\ [][Next]_vars /\ Fairness

-----------------------------------------------------------------------------
\* The state is well formed.
TypeOK ==
    /\ smp \in BOOLEAN
    /\ list \in Seq(Timers) /\ next_timer_due \in 0..MaxDelay
    /\ m_timers_executing \subseteq Timers
    /\ m_expires \in [Timers -> 0..MaxDelay]
    /\ m_cancelled \subseteq Timers /\ m_in_use \subseteq Timers
    /\ m_callback_finished \subseteq Timers
    /\ refs \in [Timers -> Nat]
    /\ calls \in Seq([timer : Timers, at : {"queued", "callback", "clear", "finish"}])
    /\ pc \in [Timers -> {"new", "armed", "set_cancelled", "remove", "spin", "cancelled"}]
    /\ result \in [Timers -> BOOLEAN]
    /\ ran \in [Timers -> Nat]

\* The VERIFYs of fire(): the queue is ordered and next_timer_due is that of
\* its first timer, whatever was inserted or removed at the front.
NextTimerIsFirst ==
    /\ \A i, j \in DOMAIN list : i < j => m_expires[list[i]] <= m_expires[list[j]]
    /\ list # <<>> => next_timer_due = m_expires[Head(list)]

\* The VERIFYs of setup() and cancel_timer(): a timer that may be armed is on
\* no list, nor is one that is not in use; one that was cancelled before its
\* callback began is on one of the two.
OnTheRightList ==
    \A t \in Timers :
        /\ MayRun(t) /\ (pc[t] \in {"new", "cancelled"} \/ t \notin m_in_use) /\ pc[t] # "remove"
             => ~Queued(t)
        /\ pc[t] = "remove" => Queued(t)

\* The VERIFYs of the queue hold, whoever arms, fires and cancels meanwhile.
QueueIsSound == TypeOK /\ NextTimerIsFirst /\ OnTheRightList

\* A callback runs once per arming, never before its deadline.
RunsOnceWhenDue ==
    /\ \A t \in Timers : ran[t] <= 1
    /\ \A i \in DOMAIN calls : calls[i].at = "callback" => m_expires[calls[i].timer] = 0

\* What cancel_timer() returns is final: after TRUE the callback has not run
\* and never will, after FALSE it has run and is not running any more.  The
\* callback refers to the stack of its owner (Thread.cpp 151).
CancelIsFinal ==
    \A t \in Timers : pc[t] = "cancelled" =>
        /\ result[t] <=> ran[t] = 0
        /\ \A i \in CallsOf(t) : calls[i].at # "callback"

\* The callback runs as often as cancel_timer() lets its owner believe.
CallbacksAreExact == RunsOnceWhenDue /\ CancelIsFinal

\* Every reference is the owner's, the queue's or a deferred call's: no timer
\* is freed under a deferred call and none is leaked.
ReferencesAreExact ==
    \A t \in Timers :
        refs[t] = 1 + (IF t \in ToSet(list) THEN 1 ELSE 0) + Cardinality(CallsOf(t))

\* cancel_timer() returns: the callback it spins for does finish.
CancelReturns == \A t \in Timers : pc[t] = "set_cancelled" ~> pc[t] = "cancelled"

\* A timer that is armed runs its callback or is cancelled.
TimersFire == \A t \in Timers : pc[t] = "armed" ~> ran[t] > 0 \/ pc[t] # "armed"
=============================================================================
