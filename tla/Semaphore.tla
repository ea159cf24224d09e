------------------------------ MODULE Semaphore ------------------------------
(***************************************************************************)
(* sem_t of LibC (Userland/Libraries/LibC/semaphore.cpp): a word with a    *)
(* count of free slots and the flag POST_WAKES, and a futex on it.  The    *)
(* duty to wake moves between sem_post(), when the flag is set, and the    *)
(* thread that a sem_post() has woken, when it is not.  The step is one    *)
(* atomic operation or one system call.  The futex is FutexSpec, which     *)
(* module Futex implements for the threads of a process.                   *)
(***************************************************************************)
EXTENDS LibCThreads

CONSTANT MaxCount   \* bounds the slots; the code does not guard SEM_VALUE_MAX

ASSUME SemaphoreAssumption == IsFiniteSet(Threads) /\ MaxCount \in Nat \ {0}

VARIABLES value,                         \* sem->value
          seen,                          \* the local variable "value" of a thread
          responsible_for_waking,        \* threads with that variable set
          balance                        \* ghost: slots made, less slots taken

semVars == <<value, futex, pc, seen, responsible_for_waking, balance>>

Value(count, wakes) == [count |-> count, post_wakes |-> wakes]

Values == [count : 0..MaxCount, post_wakes : BOOLEAN]

SemFutex == INSTANCE FutexSpec WITH word <- value

SemInit ==
    /\ value \in {Value(n, FALSE) : n \in 0..MaxCount}
    /\ waiters = {}
    /\ expected = [t \in Threads |-> Value(0, TRUE)]
    /\ waking = [t \in Threads |-> 0]
    /\ pc = [t \in Threads |-> "outside"]
    /\ seen = [t \in Threads |-> Value(0, FALSE)]
    /\ responsible_for_waking = {}
    /\ balance = value.count

See(t, v) == seen' = [seen EXCEPT ![t] = v]

-----------------------------------------------------------------------------
\* sem_post(): one slot more; if the flag is set somebody has to be woken ...
SemPost(t) ==
    /\ pc[t] = "outside" /\ value.count < MaxCount
    /\ value' = [value EXCEPT !.count = @ + 1]
    /\ balance' = balance + 1
    /\ Goto(t, IF value.post_wakes THEN "post" ELSE "outside")
    /\ UNCHANGED <<futex, seen, responsible_for_waking>>

\* ... the flag is cleared, by one sem_post() call only ...
PostClears(t) ==
    /\ pc[t] = "post"
    /\ value' = [value EXCEPT !.post_wakes = FALSE]
    /\ waking' = [waking EXCEPT ![t] = IF value.post_wakes THEN 1 ELSE 0]
    /\ Goto(t, IF value.post_wakes THEN "wake" ELSE "outside")
    /\ UNCHANGED <<waiters, expected, seen, responsible_for_waking, balance>>

\* ... which wakes one thread; sem_wait() wakes as many as it has seen slots.
SemFutexWake(t) ==
    /\ pc[t] = "wake"
    /\ SemFutex!Wake(t)
    /\ Goto(t, "outside")
    /\ UNCHANGED <<seen, responsible_for_waking, balance>>

-----------------------------------------------------------------------------
\* sem_trywait() and sem_wait() load the value ...
Load(t, where) ==
    /\ pc[t] = "outside"
    /\ See(t, value)
    /\ Goto(t, where)
    /\ UNCHANGED <<value, futex, responsible_for_waking, balance>>

\* Fault: a store in place of a compare-exchange.
ExchangedBlindly(t) == TRUE

Exchanged(t) == value = seen[t]

\* ... sem_trywait() takes a slot without touching the flag, or fails ...
SemTrywait(t) ==
    /\ pc[t] = "try"
    /\ IF seen[t].count > 0 /\ Exchanged(t)
         THEN value' = [seen[t] EXCEPT !.count = @ - 1] /\ balance' = balance - 1
         ELSE UNCHANGED <<value, balance>>
    /\ Goto(t, "outside") /\ See(t, Value(0, FALSE))
    /\ UNCHANGED <<futex, responsible_for_waking>>

\* Does the duty to wake lie with this thread?
HasToWake(t) == t \in responsible_for_waking /\ ~seen[t].post_wakes

\* Fault: the duty is not passed back.
FlagAfterWaitKept(t) == seen[t].post_wakes

FlagAfterWait(t) == HasToWake(t) \/ seen[t].post_wakes

\* Fault: a woken thread that finds more slots wakes nobody.
WakesAfterWaitNone(t) == 0

WakesAfterWait(t) == IF HasToWake(t) THEN seen[t].count - 1 ELSE 0

\* ... sem_wait() takes a slot, and passes the duty back to sem_post() ...
TakeSlot(t) ==
    /\ pc[t] = "wait" /\ seen[t].count > 0 /\ Exchanged(t)
    /\ value' = Value(seen[t].count - 1, FlagAfterWait(t))
    /\ balance' = balance - 1
    /\ waking' = [waking EXCEPT ![t] = WakesAfterWait(t)]
    /\ Goto(t, IF WakesAfterWait(t) > 0 THEN "wake" ELSE "outside")
    /\ responsible_for_waking' = responsible_for_waking \ {t}
    /\ See(t, Value(0, FALSE))   \* the local variables are gone
    /\ UNCHANGED <<waiters, expected>>

\* ... or announces that it is going to sleep ...
SetPostWakes(t) ==
    /\ pc[t] = "wait" /\ seen[t] = Value(0, FALSE) /\ Exchanged(t)
    /\ value' = Value(0, TRUE)
    /\ See(t, Value(0, TRUE))
    /\ UNCHANGED <<futex, pc, responsible_for_waking, balance>>

\* ... or, when the compare-exchange fails, evaluates anew ...
Reevaluate(t) ==
    /\ pc[t] = "wait" /\ seen[t] # Value(0, TRUE) /\ ~Exchanged(t)
    /\ See(t, value)
    /\ UNCHANGED <<value, futex, pc, responsible_for_waking, balance>>

\* ... it sleeps while the value is still the one announced.
SemFutexWait(t) ==
    /\ pc[t] = "wait" /\ seen[t] = Value(0, TRUE)
    /\ responsible_for_waking' = responsible_for_waking \cup {t}
    /\ IF value = seen[t]
         THEN SemFutex!Wait(t) /\ Goto(t, "asleep") /\ UNCHANGED seen
         ELSE See(t, Value(1, FALSE)) /\ UNCHANGED <<value, futex, pc>>
    /\ UNCHANGED balance

\* A signal or a timeout ends the sleep; nobody looks at the result.
SemInterrupt(t) ==
    /\ t \in waiters
    /\ SemFutex!GiveUp(t)
    /\ UNCHANGED <<pc, seen, responsible_for_waking, balance>>

\* After the sleep it assumes that there is one slot.
SemFutexWaitReturns(t) ==
    /\ pc[t] = "asleep" /\ t \notin waiters
    /\ See(t, Value(1, FALSE))
    /\ Goto(t, "wait")
    /\ UNCHANGED <<value, futex, responsible_for_waking, balance>>

-----------------------------------------------------------------------------
SemSteps(t) ==
    \/ PostClears(t) \/ SemFutexWake(t) \/ SemTrywait(t) \/ TakeSlot(t) \/ SetPostWakes(t)
    \/ Reevaluate(t) \/ SemFutexWait(t) \/ SemFutexWaitReturns(t)

SemCalls(t) == SemPost(t) \/ Load(t, "try") \/ Load(t, "wait")

SemNext == \E t \in Threads : SemCalls(t) \/ SemInterrupt(t) \/ SemSteps(t)

\* A thread that is inside a call goes on.  Nobody has to call.
SemSpec == SemInit /\ [][SemNext]_semVars /\ \A t \in Threads : WF_semVars(SemSteps(t))

-----------------------------------------------------------------------------
\* The state is well formed, and only threads that have slept, or were about
\* to, are responsible for waking.
SemTypeOK ==
    /\ value \in Values /\ balance \in Nat
    /\ waiters \subseteq {t \in Threads : pc[t] = "asleep"}
    /\ expected \in [Threads -> Values]
    /\ waking \in [Threads -> 0..MaxCount]
    /\ \A t \in Threads : waking[t] > 0 <=> pc[t] = "wake"
    /\ pc \in [Threads -> {"outside", "try", "wait", "asleep", "post", "wake"}]
    /\ seen \in [Threads -> Values]
    /\ responsible_for_waking \subseteq {t \in Threads : pc[t] \in {"wait", "asleep"}}

\* Every slot is taken once: the count is what was posted less what the waits
\* that succeeded have taken.
SlotsAreConserved == balance = value.count

\* The word, the futex and the threads agree about the slots.
SlotsAreSound == SemTypeOK /\ SlotsAreConserved

\* No wake-up is lost: if there are slots and somebody sleeps, then a thread
\* that has to look at the slots, and to wake, is awake.
NoSlotIsForgotten ==
    waiters # {} /\ value.count > 0 =>
        \E t \in Threads :
            \/ pc[t] \in {"post", "wake"}
            \/ t \in responsible_for_waking \ waiters

\* If somebody sleeps then the next sem_post() wakes, or a thread that is
\* awake will see to that.
PostWillWake ==
    waiters # {} =>
        \/ value.post_wakes
        \/ \E t \in Threads : pc[t] = "wake" \/ t \in responsible_for_waking \ waiters

\* The duty to wake is always somebody's: of a sem_post() to come, or of a
\* thread that is awake.
DutyIsKept == NoSlotIsForgotten /\ PostWillWake

\* Slots do not stay free while threads sleep.  (New calls that never cease
\* can make every compare-exchange of a woken thread fail.)
SlotsAreTaken ==
    \/ waiters # {} /\ value.count > 0 ~> waiters = {} \/ value.count = 0
    \/ []<><<\E t \in Threads : SemCalls(t)>>_semVars
=============================================================================
