-------------------------------- MODULE Futex --------------------------------
(***************************************************************************)
(* sys$futex (Kernel/Syscalls/futex.cpp) on one word of memory, with the   *)
(* table of futex queues and the life of a FutexQueue                      *)
(* (Kernel/Tasks/FutexQueue.cpp): a queue is made by the first waiter and  *)
(* destroyed by whoever finds it empty, while others look it up.           *)
(*                                                                         *)
(* A system call holds the big lock of its process until it sleeps or      *)
(* returns; threads of another process that shares the word, and stores of *)
(* user code, are not held up by it.  Registering a blocker and falling    *)
(* asleep, and one wake_n(), are steps here: module WaitQueue has the      *)
(* interleavings inside Thread::block_impl().                              *)
(*                                                                         *)
(* Left out: FUTEX_WAKE_OP and the requeue operations, memory that is not  *)
(* mapped (EFAULT), running out of memory, exec.                           *)
(***************************************************************************)
EXTENDS Naturals, Sequences, FiniteSets, SequencesExt

CONSTANTS Processes,  \* the processes that map the word: disjoint sets of threads
          Values,     \* the values of the word
          Bits,       \* the bits of a bitset
          Queues,     \* the identities of FutexQueue objects
          Nothing     \* no thread, no queue

Threads == UNION Processes

ASSUME FutexAssumption ==
    /\ IsFiniteSet(Threads)
    /\ \A P, Q \in Processes : P = Q \/ P \cap Q = {}
    /\ Values # {} /\ Bits # {}
    /\ Nothing \notin Threads \cup Queues
    /\ Cardinality(Queues) > Cardinality(Threads)

VARIABLES word,             \* the futex integer
          s_global_futex_queues,        \* the queue of the word's key
          m_blockers, m_imminent_waits, m_was_removed,   \* of each queue
          big_lock,         \* the holder of each process's m_big_lock
          pc,               \* where a thread is in sys$futex
          val,              \* the params.val a waiter compares with
          bitset,           \* the bitset of a blocker, or of a wake call
          count,            \* the params.val of a wake call
          futex_queue,      \* the queue a call holds a reference to
          blocked, timer,   \* as in WaitQueue
          outcome           \* what the call will return after the sleep

queues == <<s_global_futex_queues, m_blockers, m_imminent_waits, m_was_removed>>
args   == <<val, bitset, count>>
sleep  == <<blocked, timer, outcome>>
vars   == <<word, queues, big_lock, pc, args, futex_queue, sleep>>

ProcessOf(t) == CHOOSE P \in Processes : t \in P
MatchAny     == Bits
AnyValue     == CHOOSE v \in Values : TRUE

Init ==
    /\ word = AnyValue
    /\ s_global_futex_queues = Nothing
    /\ m_blockers = [q \in Queues |-> <<>>]
    /\ m_imminent_waits = [q \in Queues |-> 0]
    /\ m_was_removed = {}
    /\ big_lock = [P \in Processes |-> Nothing]
    /\ pc = [t \in Threads |-> "user"]
    /\ val = [t \in Threads |-> AnyValue]
    /\ bitset = [t \in Threads |-> {}]
    /\ count = [t \in Threads |-> 0]
    /\ futex_queue = [t \in Threads |-> Nothing]
    /\ blocked = {} /\ timer = {}
    /\ outcome = [t \in Threads |-> "none"]

-----------------------------------------------------------------------------
(* User code, and the way in and out of the kernel *)

Store(t, v) ==
    /\ pc[t] = "user" /\ v # word
    /\ word' = v
    /\ UNCHANGED <<queues, big_lock, pc, args, futex_queue, sleep>>

\* Fault: sys$futex is declared NeedsBigProcessLock::No.
EnterUnlocked(t, where) ==
    /\ pc[t] = "user"
    /\ pc' = [pc EXCEPT ![t] = where]
    /\ UNCHANGED big_lock

Enter(t, where) ==
    /\ pc[t] = "user" /\ big_lock[ProcessOf(t)] = Nothing
    /\ big_lock' = [big_lock EXCEPT ![ProcessOf(t)] = t]
    /\ pc' = [pc EXCEPT ![t] = where]

\* The call returns; what it kept on its stack is gone.
Leave(t) ==
    /\ pc' = [pc EXCEPT ![t] = "user"]
    /\ big_lock' = [big_lock EXCEPT ![ProcessOf(t)] = Nothing]
    /\ val' = [val EXCEPT ![t] = AnyValue]
    /\ bitset' = [bitset EXCEPT ![t] = {}]
    /\ count' = [count EXCEPT ![t] = 0]
    /\ futex_queue' = [futex_queue EXCEPT ![t] = Nothing]

LeaveWait(t) ==
    /\ Leave(t)
    /\ outcome' = [outcome EXCEPT ![t] = "none"]
    /\ UNCHANGED <<blocked, timer>>

Goto(t, where) ==
    /\ pc' = [pc EXCEPT ![t] = where]
    /\ UNCHANGED <<big_lock, args, outcome, blocked, timer>>

-----------------------------------------------------------------------------
(* do_wait() *)

\* FUTEX_WAIT passes the bitset 0, and so does FUTEX_WAIT_BITSET with all bits.
EnterWait(t, v, b) ==
    /\ Enter(t, "check")
    /\ val' = [val EXCEPT ![t] = v]
    /\ bitset' = [bitset EXCEPT ![t] = IF b = MatchAny THEN {} ELSE b]
    /\ UNCHANGED <<word, queues, count, futex_queue, sleep>>

\* The word is loaded and compared, EAGAIN if it differs.
CheckValue(t) ==
    /\ pc[t] = "check"
    /\ IF word = val[t]
         THEN Goto(t, "find") /\ UNCHANGED futex_queue
         ELSE LeaveWait(t)
    /\ UNCHANGED <<word, queues>>

\* find_futex_queue(): a new queue starts with one imminent wait.
FindQueue(t) ==
    /\ pc[t] = "find" /\ s_global_futex_queues # Nothing
    /\ futex_queue' = [futex_queue EXCEPT ![t] = s_global_futex_queues]
    /\ Goto(t, "imminent")
    /\ UNCHANGED <<word, queues>>

CreateQueue(t, q) ==
    /\ pc[t] = "find" /\ s_global_futex_queues = Nothing
    /\ \A u \in Threads : futex_queue[u] # q
    /\ s_global_futex_queues' = q
    /\ m_blockers' = [m_blockers EXCEPT ![q] = <<>>]
    /\ m_imminent_waits' = [m_imminent_waits EXCEPT ![q] = 1]
    /\ m_was_removed' = m_was_removed \ {q}
    /\ futex_queue' = [futex_queue EXCEPT ![t] = q]
    /\ Goto(t, "wait")
    /\ UNCHANGED word

\* Fault: m_was_removed is not looked at.
QueueImminentWaitAnyway(t) ==
    /\ pc[t] = "imminent"
    /\ m_imminent_waits' = [m_imminent_waits EXCEPT ![futex_queue[t]] = @ + 1]
    /\ Goto(t, "wait")
    /\ UNCHANGED <<word, futex_queue, s_global_futex_queues, m_blockers, m_was_removed>>

\* Once more from the start if the queue was removed meanwhile.
QueueImminentWait(t) ==
    /\ pc[t] = "imminent"
    /\ LET q == futex_queue[t]
       IN  IF q \in m_was_removed
             THEN /\ Goto(t, "check")
                  /\ futex_queue' = [futex_queue EXCEPT ![t] = Nothing]
                  /\ UNCHANGED queues
             ELSE /\ Goto(t, "wait")
                  /\ m_imminent_waits' = [m_imminent_waits EXCEPT ![q] = @ + 1]
                  /\ UNCHANGED <<futex_queue, s_global_futex_queues, m_blockers, m_was_removed>>
    /\ UNCHANGED word

\* wait_on(): should_add_blocker(), and asleep without the big lock.
WaitOn(t) ==
    /\ pc[t] = "wait"
    /\ LET q == futex_queue[t]
       IN  /\ m_imminent_waits' = [m_imminent_waits EXCEPT ![q] = @ - 1]
           /\ IF q \in m_was_removed
                THEN /\ Goto(t, "done")
                     /\ UNCHANGED m_blockers
                ELSE /\ pc' = [pc EXCEPT ![t] = "sleep"]
                     /\ m_blockers' = [m_blockers EXCEPT ![q] = Append(@, t)]
                     /\ blocked' = blocked \cup {t}
                     /\ timer' \in {timer, timer \cup {t}}
                     /\ big_lock' = [big_lock EXCEPT ![ProcessOf(t)] = Nothing]
                     /\ UNCHANGED <<args, outcome>>
    /\ UNCHANGED <<word, s_global_futex_queues, m_was_removed, futex_queue>>

\* Fault: the imminent wait is not taken back when nothing is waited for.
WaitOnTooLateCounted(t) ==
    /\ pc[t] = "wait"
    /\ pc' = [pc EXCEPT ![t] = "done"]
    /\ outcome' = [outcome EXCEPT ![t] = "ETIMEDOUT"]
    /\ UNCHANGED <<word, queues, big_lock, args, futex_queue, blocked, timer>>

\* The timeout is already over: the blocker is taken off again.
WaitOnTooLate(t) ==
    /\ pc[t] = "wait"
    /\ m_imminent_waits' = [m_imminent_waits EXCEPT ![futex_queue[t]] = @ - 1]
    /\ pc' = [pc EXCEPT ![t] = "done"]
    /\ outcome' = [outcome EXCEPT ![t] = "ETIMEDOUT"]
    /\ UNCHANGED <<word, s_global_futex_queues, m_blockers, m_was_removed, big_lock, args,
                   futex_queue, blocked, timer>>

\* The thread is made runnable, and the first to do so decides the outcome.
Unblock(T, why) ==
    /\ blocked' = blocked \ T
    /\ outcome' = [t \in Threads |-> IF t \in T \cap blocked THEN why ELSE outcome[t]]

TimerFires(t) ==
    /\ t \in timer
    /\ timer' = timer \ {t}
    /\ Unblock({t}, "ETIMEDOUT")
    /\ UNCHANGED <<word, queues, big_lock, pc, args, futex_queue>>

\* A signal: the call returns 0.
Interrupt(t) ==
    /\ t \in blocked
    /\ Unblock({t}, "0")
    /\ UNCHANGED <<word, queues, big_lock, pc, args, futex_queue, timer>>

\* block_impl() takes the big lock again; only then finalize() takes the
\* blocker off the queue.
Relock(t) ==
    /\ pc[t] = "sleep" /\ t \notin blocked
    /\ big_lock[ProcessOf(t)] = Nothing
    /\ big_lock' = [big_lock EXCEPT ![ProcessOf(t)] = t]
    /\ pc' = [pc EXCEPT ![t] = "done"]
    /\ timer' = timer \ {t}
    /\ m_blockers' = [m_blockers EXCEPT ![futex_queue[t]] = RemoveFirst(@, t)]
    /\ UNCHANGED <<word, s_global_futex_queues, m_imminent_waits, m_was_removed, args,
                   futex_queue, blocked, outcome>>

IsEmptyAndNoImminentWaits(q) == m_imminent_waits[q] = 0 /\ m_blockers[q] = <<>>

\* Fault: only wake calls remove queues.
DoneQuietly(t) ==
    /\ pc[t] = "done"
    /\ LeaveWait(t)
    /\ UNCHANGED <<word, queues>>

\* "If there are no more waiters, we want to get rid of the futex!"
Done(t) ==
    /\ pc[t] = "done"
    /\ IF IsEmptyAndNoImminentWaits(futex_queue[t])
         THEN Goto(t, "remove") /\ UNCHANGED futex_queue
         ELSE LeaveWait(t)
    /\ UNCHANGED <<word, queues>>

\* remove_futex_queue() with try_remove(): it looks the key up anew.
RemoveQueue(t) ==
    /\ pc[t] = "remove"
    /\ LET q == s_global_futex_queues
       IN  IF q # Nothing /\ q \notin m_was_removed /\ IsEmptyAndNoImminentWaits(q)
             THEN /\ s_global_futex_queues' = Nothing
                  /\ m_was_removed' = m_was_removed \cup {q}
             ELSE UNCHANGED <<s_global_futex_queues, m_was_removed>>
    /\ LeaveWait(t)
    /\ UNCHANGED <<word, m_blockers, m_imminent_waits>>

-----------------------------------------------------------------------------
(* do_wake() *)

EnterWake(t, n, b) ==
    /\ Enter(t, "wakefind")
    /\ count' = [count EXCEPT ![t] = n]
    /\ bitset' = [bitset EXCEPT ![t] = b]
    /\ UNCHANGED <<word, queues, val, futex_queue, sleep>>

\* Nobody has a queue: the call returns 0.
WakeNobody(t) ==
    /\ pc[t] = "wakefind" /\ s_global_futex_queues = Nothing
    /\ Leave(t)
    /\ UNCHANGED <<word, queues, sleep>>

WakeFind(t) ==
    /\ pc[t] = "wakefind" /\ s_global_futex_queues # Nothing
    /\ futex_queue' = [futex_queue EXCEPT ![t] = s_global_futex_queues]
    /\ Goto(t, "wake")
    /\ UNCHANGED <<word, queues>>

\* FutexBlocker::unblock(), unblock_bitset()
Matches(t, b) == b = MatchAny \/ bitset[t] \cap b # {}

\* The places of the first n blockers that match.
FirstMatching(s, n, b) ==
    {i \in DOMAIN s : Matches(s[i], b) /\ Cardinality({j \in 1..i : Matches(s[j], b)}) <= n}

\* The elements of s at the places I, in their order.
Subsequence(s, I) ==
    [k \in 1..Cardinality(I) |-> s[CHOOSE i \in I : Cardinality({j \in I : j <= i}) = k]]

\* wake_n(): the first n blockers that match.  Then remove the queue, or return.
WakeN(t) ==
    /\ pc[t] = "wake"
    /\ LET q     == futex_queue[t]
           first == FirstMatching(m_blockers[q], count[t], bitset[t])
           woken == {m_blockers[q][i] : i \in first}
           rest  == Subsequence(m_blockers[q], DOMAIN m_blockers[q] \ first)
       IN  /\ m_blockers' = [m_blockers EXCEPT ![q] = rest]
           /\ Unblock(woken, "0")
           /\ IF m_imminent_waits[q] = 0 /\ rest = <<>>
                THEN /\ pc' = [pc EXCEPT ![t] = "remove"]
                     /\ UNCHANGED <<big_lock, args, futex_queue>>
                ELSE Leave(t)
    /\ UNCHANGED <<word, s_global_futex_queues, m_imminent_waits, m_was_removed, timer>>

-----------------------------------------------------------------------------
Next ==
    \E t \in Threads :
        \/ \E v \in Values : Store(t, v)
        \/ \E v \in Values, b \in (SUBSET Bits) \ {{}} : EnterWait(t, v, b)
        \/ \E n \in 1..Cardinality(Threads), b \in (SUBSET Bits) \ {{}} : EnterWake(t, n, b)
        \/ CheckValue(t) \/ FindQueue(t)
        \/ \E q \in Queues : CreateQueue(t, q)
        \/ QueueImminentWait(t) \/ WaitOn(t) \/ WaitOnTooLate(t)
        \/ TimerFires(t) \/ Interrupt(t) \/ Relock(t) \/ Done(t) \/ RemoveQueue(t)
        \/ WakeNobody(t) \/ WakeFind(t) \/ WakeN(t)

Spec == Init /\ [][Next]_vars

-----------------------------------------------------------------------------
\* The state is well formed.
TypeOK ==
    /\ word \in Values
    /\ s_global_futex_queues \in Queues \cup {Nothing}
    /\ m_blockers \in [Queues -> Seq(Threads)]
    /\ m_imminent_waits \in [Queues -> Nat]
    /\ m_was_removed \subseteq Queues
    /\ big_lock \in [Processes -> Threads \cup {Nothing}]
    /\ pc \in [Threads -> {"user", "check", "find", "imminent", "wait", "sleep", "done",
                           "remove", "wakefind", "wake"}]
    /\ val \in [Threads -> Values] /\ bitset \in [Threads -> SUBSET Bits]
    /\ count \in [Threads -> 0..Cardinality(Threads)]
    /\ futex_queue \in [Threads -> Queues \cup {Nothing}]
    /\ blocked \subseteq Threads /\ timer \subseteq Threads
    /\ outcome \in [Threads -> {"none", "0", "ETIMEDOUT"}]

\* A queue with somebody in it, or about to be, is the one a wake call finds:
\* nobody sleeps on a queue that was removed from the table.
NoDetachedWaiter ==
    \A q \in Queues \ {s_global_futex_queues} : IsEmptyAndNoImminentWaits(q)

\* VERIFY(m_imminent_waits > 0) in should_add_blocker(), and no imminent wait
\* is left over: it would keep the queue for ever.
ImminentWaitsAreExact ==
    \A q \in Queues :
        m_imminent_waits[q] = Cardinality({t \in Threads : pc[t] = "wait" /\ futex_queue[t] = q})

\* The table never holds a queue that refuses waiters: with it in the table
\* the loop of do_wait() would never end.
NoRemovedQueueInTable == s_global_futex_queues \notin m_was_removed

\* A word on which nobody waits costs nothing: the last call to leave has
\* removed the queue, whichever of waiters and wakers it is.
NoLeakedQueue ==
    (\A t \in Threads : pc[t] = "user") => s_global_futex_queues = Nothing

\* The life of the queues is as the VERIFYs of FutexQueue have it.
QueuesAreSound == TypeOK /\ ImminentWaitsAreExact /\ NoRemovedQueueInTable

\* The futex implements the abstract one.
Abstract == INSTANCE FutexSpec WITH
    waiters <- {t \in Threads : pc[t] \in {"find", "imminent", "wait"}}
                 \cup UNION {Range(m_blockers[q]) : q \in Queues},
    expected <- val,
    waking <- [t \in Threads |-> IF pc[t] \in {"wakefind", "wake"} THEN count[t] ELSE 0]

\* For the threads of one process, sys$futex compares and starts to wait in
\* one step, and a wake-up finds every waiter (as long as no bitsets are used).
ImplementsFutexSpec == Abstract!Spec
=============================================================================
