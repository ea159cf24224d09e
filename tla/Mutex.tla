-------------------------------- MODULE Mutex --------------------------------
(***************************************************************************)
(* Kernel::Mutex (Kernel/Locking/Mutex.cpp, Mutex.h): the kernel's         *)
(* recursive reader/writer lock, with the part of Kernel::Thread that puts *)
(* a thread to sleep on it (Kernel/Tasks/Thread.cpp).                      *)
(*                                                                         *)
(* lock(), unlock(), force_unlock_exclusive_if_locked() and                *)
(* restore_exclusive_lock() run under the spinlock m_lock, and a caller    *)
(* that has to wait is on its list, marked Blocked, before m_lock is       *)
(* released; so each call is one action up to the point where it returns   *)
(* or sleeps.  A sleeping thread is given the lock by whoever releases it, *)
(* and takes itself off the list only when it runs again (ReturnFromBlock):*)
(* until then it owns a lock it does not know of.                          *)
(*                                                                         *)
(* A claim <<t, l, mode>> stands for one lock() call of thread t at        *)
(* LockLocation l.  The claims in `holding' are what LOCK_DEBUG builds     *)
(* record through Thread::holding_lock(): the ghost state against which    *)
(* the counters of the mutex are checked.                                  *)
(***************************************************************************)
EXTENDS Naturals, Sequences, FiniteSets, SequencesExt

CONSTANTS Threads,      \* the threads that use this mutex
          Locations,    \* the places they lock it at; bounds the recursion
          NoThread,     \* m_holder = 0
          m_behavior,   \* "Regular", or "BigLock" for Process::m_big_lock
          AllowUpgrade  \* may a shared holder ask for exclusive access?

ASSUME MutexAssumption ==
    /\ IsFiniteSet(Threads) /\ IsFiniteSet(Locations)
    /\ NoThread \notin Threads
    /\ m_behavior \in {"Regular", "BigLock"}
    /\ AllowUpgrade \in BOOLEAN

VARIABLES m_mode, m_times_locked, m_holder, m_shared_holders,
          exclusive,    \* threads waiting for exclusive access, in order
          shared,       \* threads waiting for shared access (order is unused)
          blocking,     \* threads whose m_blocking_mutex is this mutex
          requested,    \* the claims a blocked thread waits for; their number
                        \* is Thread::m_lock_requested_count
          holding,      \* ghost: the claims that hold the mutex
          dropped       \* the claims a thread force-unlocked and will restore;
                        \* their number is lock_count_to_restore

counters == <<m_mode, m_times_locked, m_holder, m_shared_holders>>
lists    == <<exclusive, shared, blocking, requested>>
vars     == <<counters, lists, holding, dropped>>

-----------------------------------------------------------------------------
Modes  == {"Exclusive", "Shared"}
Claims == Threads \X Locations \X Modes

ClaimsOf(t) == {c \in holding : c[1] = t}
Waiters     == Range(exclusive) \cup shared

\* The thread executes: it neither sleeps in Mutex::block() nor is it between
\* dropping the big lock and restoring it.
Running(t) == t \notin Waiters /\ dropped[t] = {}

\* What the threads of T asked for in Mutex::block().
Requested(T) == {c \in Claims : c[1] \in T /\ c \in requested[c[1]]}

Init ==
    /\ m_mode = "Unlocked"
    /\ m_times_locked = 0
    /\ m_holder = NoThread
    /\ m_shared_holders = 0
    /\ exclusive = <<>>
    /\ shared = {}
    /\ blocking = {}
    /\ requested = [t \in Threads |-> {}]
    /\ holding = {}
    /\ dropped = [t \in Threads |-> {}]

-----------------------------------------------------------------------------
\* A call of lock() the callers make.  The big lock is only ever asked for in
\* exclusive mode.  A location is used by one call of a thread at a time.
Calls(t, l, mode) ==
    /\ Running(t)
    /\ \A c \in ClaimsOf(t) : c[2] # l
    /\ m_behavior = "BigLock" => mode = "Exclusive"
    /\ ~AllowUpgrade /\ mode = "Exclusive" /\ m_mode = "Shared" => ClaimsOf(t) = {}

LockUnlocked(t, l, mode) ==
    /\ Calls(t, l, mode)
    /\ m_mode = "Unlocked"
    /\ m_mode' = mode
    /\ m_times_locked' = m_times_locked + 1
    /\ m_holder' = IF mode = "Exclusive" THEN t ELSE m_holder
    /\ m_shared_holders' = IF mode = "Shared" THEN m_shared_holders + 1
                                              ELSE m_shared_holders
    /\ holding' = holding \cup {<<t, l, mode>>}
    /\ UNCHANGED <<lists, dropped>>

\* The holder locks again; asking for shared access leaves the mutex exclusive.
LockExclusive(t, l, mode) ==
    /\ Calls(t, l, mode)
    /\ m_mode = "Exclusive" /\ m_holder = t
    /\ m_times_locked' = m_times_locked + 1
    /\ holding' = holding \cup {<<t, l, mode>>}
    /\ UNCHANGED <<m_mode, m_holder, m_shared_holders, lists, dropped>>

\* One more reader, whether or not a writer is waiting.
LockShared(t, l, mode) ==
    /\ Calls(t, l, mode)
    /\ m_mode = "Shared" /\ mode = "Shared"
    /\ m_times_locked' = m_times_locked + 1
    /\ m_shared_holders' = m_shared_holders + 1
    /\ holding' = holding \cup {<<t, l, mode>>}
    /\ UNCHANGED <<m_mode, m_holder, lists, dropped>>

\* Fault: prepend() in place of append().
BlockInFront(t, mode, claims) ==
    /\ exclusive' = IF mode = "Exclusive" THEN <<t>> \o exclusive ELSE exclusive
    /\ shared' = IF mode = "Shared" THEN shared \cup {t} ELSE shared
    /\ blocking' = blocking \cup {t}
    /\ requested' = [requested EXCEPT ![t] = claims]
    /\ UNCHANGED <<counters, holding>>

\* Mutex::block() up to the point where Thread::block() yields.
Block(t, mode, claims) ==
    /\ exclusive' = IF mode = "Exclusive" THEN Append(exclusive, t) ELSE exclusive
    /\ shared' = IF mode = "Shared" THEN shared \cup {t} ELSE shared
    /\ blocking' = blocking \cup {t}
    /\ requested' = [requested EXCEPT ![t] = claims]
    /\ UNCHANGED <<counters, holding>>

MustWait(t, mode) ==
    \/ m_mode = "Exclusive" /\ m_holder # t
    \/ m_mode = "Shared" /\ mode = "Exclusive"

LockBlocks(t, l, mode) ==
    /\ Calls(t, l, mode)
    /\ MustWait(t, mode)
    /\ Block(t, mode, {<<t, l, mode>>})
    /\ UNCHANGED dropped

\* Fault: the thread does not check why it was scheduled.
ReturnFromBlockAtOnce(t) ==
    /\ \/ /\ \E i \in DOMAIN exclusive :
                exclusive[i] = t /\ exclusive' = RemoveAt(exclusive, i)
          /\ UNCHANGED shared
       \/ t \in shared /\ shared' = shared \ {t} /\ UNCHANGED exclusive
    /\ requested' = [requested EXCEPT ![t] = {}]
    /\ UNCHANGED <<counters, blocking, holding, dropped>>

\* Thread::block() returns: the thread leaves the list and lock() returns.
ReturnFromBlock(t) ==
    /\ t \notin blocking
    /\ \/ /\ \E i \in DOMAIN exclusive :
                exclusive[i] = t /\ exclusive' = RemoveAt(exclusive, i)
          /\ UNCHANGED shared
       \/ t \in shared /\ shared' = shared \ {t} /\ UNCHANGED exclusive
    /\ requested' = [requested EXCEPT ![t] = {}]
    /\ UNCHANGED <<counters, blocking, holding, dropped>>

-----------------------------------------------------------------------------
\* Fault: the mutex is counted once for all the readers it is handed to.
UnblockSharedOnce(released) ==
    /\ shared # {}
    /\ m_mode' = "Shared"
    /\ m_times_locked' = 1
    /\ m_shared_holders' = 1
    /\ m_holder' = NoThread
    /\ blocking' = blocking \ shared
    /\ holding' = (holding \ released) \cup Requested(shared)

\* The mutex has just become free of `released': Mutex::unblock_waiters().
UnblockShared(released) ==
    /\ shared # {}
    /\ m_mode' = "Shared"
    /\ m_times_locked' = Cardinality(Requested(shared))
    /\ m_shared_holders' = Cardinality(Requested(shared))
    /\ m_holder' = NoThread
    /\ blocking' = blocking \ shared
    /\ holding' = (holding \ released) \cup Requested(shared)

UnblockExclusive(released) ==
    /\ exclusive # <<>>
    /\ m_mode' = "Exclusive"
    /\ m_times_locked' = Cardinality(requested[Head(exclusive)])
    /\ m_holder' = Head(exclusive)
    /\ m_shared_holders' = 0
    /\ blocking' = blocking \ {Head(exclusive)}
    /\ holding' = (holding \ released) \cup requested[Head(exclusive)]

UnblockNobody(released) ==
    /\ shared = {} /\ exclusive = <<>>
    /\ m_mode' = "Unlocked"
    /\ m_times_locked' = 0
    /\ m_holder' = NoThread
    /\ m_shared_holders' = 0
    /\ holding' = holding \ released
    /\ UNCHANGED blocking

\* Fault: writers always go first.
UnblockWritersFirst(previous_mode, released) ==
    /\ \/ exclusive = <<>> /\ UnblockShared(released)
       \/ UnblockExclusive(released)
       \/ UnblockNobody(released)
    /\ UNCHANGED <<exclusive, shared, requested>>

\* Readers and writers take turns: who goes first depends on who held it.
UnblockWaiters(previous_mode, released) ==
    /\ \/ /\ m_behavior = "Regular"
          /\ previous_mode = "Exclusive" \/ exclusive = <<>>
          /\ UnblockShared(released)
       \/ /\ m_behavior = "BigLock" \/ previous_mode = "Shared" \/ shared = {}
          /\ UnblockExclusive(released)
       \/ UnblockNobody(released)
    /\ UNCHANGED <<exclusive, shared, requested>>

\* unlock() ends one of the caller's claims.
Unlock(t, c) ==
    /\ Running(t)
    /\ c \in ClaimsOf(t)
    /\ \/ /\ m_times_locked > 1
          /\ m_times_locked' = m_times_locked - 1
          /\ m_shared_holders' = IF m_mode = "Shared" THEN m_shared_holders - 1
                                                      ELSE m_shared_holders
          /\ holding' = holding \ {c}
          /\ UNCHANGED <<m_mode, m_holder, lists>>
       \/ m_times_locked = 1 /\ UnblockWaiters(m_mode, {c})
    /\ UNCHANGED dropped

\* Fault: the big lock is dropped and nobody is woken.
ForceUnlockQuietly(t) ==
    /\ m_behavior = "BigLock"
    /\ Running(t)
    /\ m_mode = "Exclusive" /\ m_holder = t
    /\ m_mode' = "Unlocked" /\ m_times_locked' = 0 /\ m_holder' = NoThread
    /\ holding' = holding \ ClaimsOf(t)
    /\ UNCHANGED <<m_shared_holders, lists>>

\* force_unlock_exclusive_if_locked(): all of the holder's claims at once.
ForceUnlock(t) ==
    /\ m_behavior = "BigLock"
    /\ Running(t)
    /\ m_mode = "Exclusive" /\ m_holder = t
    /\ UnblockWaiters("Exclusive", ClaimsOf(t))

\* The thread is about to sleep and gives up the big lock meanwhile.
DropBigLock(t) ==
    /\ ForceUnlock(t)
    /\ dropped' = [dropped EXCEPT ![t] = ClaimsOf(t)]

\* A dying thread gives up the big lock for good.  Its identity is taken by a
\* thread created later.
DieIfNeeded(t) == ForceUnlock(t) /\ UNCHANGED dropped

\* Fault: the thread assumes that the lock it gave up is still free.
RestoreUnchecked(t) ==
    /\ dropped[t] # {} /\ t \notin Waiters
    /\ m_mode' = "Exclusive"
    /\ m_times_locked' = m_times_locked + Cardinality(dropped[t])
    /\ m_holder' = t
    /\ holding' = holding \cup dropped[t]
    /\ dropped' = [dropped EXCEPT ![t] = {}]
    /\ UNCHANGED <<m_shared_holders, lists>>

\* restore_exclusive_lock() of a free lock, or of one the thread holds.
RestoreAtOnce(t) ==
    /\ dropped[t] # {} /\ t \notin Waiters
    /\ m_mode = "Unlocked" \/ (m_mode = "Exclusive" /\ m_holder = t)
    /\ m_mode' = "Exclusive"
    /\ m_times_locked' = m_times_locked + Cardinality(dropped[t])
    /\ m_holder' = t
    /\ holding' = holding \cup dropped[t]
    /\ dropped' = [dropped EXCEPT ![t] = {}]
    /\ UNCHANGED <<m_shared_holders, lists>>

RestoreBlocks(t) ==
    /\ dropped[t] # {} /\ t \notin Waiters
    /\ m_mode = "Exclusive" /\ m_holder # t
    /\ Block(t, "Exclusive", dropped[t])
    /\ dropped' = [dropped EXCEPT ![t] = {}]

Next ==
    \E t \in Threads :
        \/ \E l \in Locations, mode \in Modes :
              \/ LockUnlocked(t, l, mode)
              \/ LockExclusive(t, l, mode)
              \/ LockShared(t, l, mode)
              \/ LockBlocks(t, l, mode)
        \/ ReturnFromBlock(t)
        \/ \E c \in holding : Unlock(t, c)
        \/ DropBigLock(t)
        \/ DieIfNeeded(t)
        \/ RestoreAtOnce(t)
        \/ RestoreBlocks(t)

Spec == Init /\ [][Next]_vars

\* A thread that may run is scheduled, a thread that holds the mutex undoes its
\* lock() calls, and one that comes down to its last claim again and again gives
\* it up some time: critical sections end.
Fairness ==
    \A t \in Threads :
        /\ WF_vars(ReturnFromBlock(t))
        /\ WF_vars(\E c \in holding : Unlock(t, c))
        /\ SF_vars(\E c \in holding : ClaimsOf(t) = {c} /\ Unlock(t, c))
        /\ WF_vars(RestoreAtOnce(t) \/ RestoreBlocks(t))

FairSpec == Spec /\ Fairness

-----------------------------------------------------------------------------
\* The state is well formed.
TypeOK ==
    /\ m_mode \in Modes \cup {"Unlocked"}
    /\ m_times_locked \in Nat
    /\ m_holder \in Threads \cup {NoThread}
    /\ m_shared_holders \in Nat
    /\ exclusive \in Seq(Threads)
    /\ shared \subseteq Threads
    /\ blocking \subseteq Threads
    /\ requested \in [Threads -> SUBSET Claims]
    /\ holding \subseteq Claims
    /\ dropped \in [Threads -> SUBSET Claims]

\* While one lock(Exclusive) call has returned (or is about to: the thread was
\* handed the mutex in its sleep) and is not yet undone, every claim on the
\* mutex is that thread's own, through recursion, hand-overs to sleeping
\* threads, and dropping and restoring the big lock.
MutualExclusion ==
    \A c, d \in holding :
        c[1] # d[1] => c[3] = "Shared" /\ d[3] = "Shared"

\* m_times_locked counts exactly the lock() calls that have not been undone,
\* and m_shared_holders counts them when they are shared: so unlock() frees
\* the mutex at the last unlock() and never before, also after a hand-over
\* to several readers or of a whole recursion depth to a restoring thread.
CountsTheClaims ==
    /\ m_times_locked = Cardinality(holding)
    /\ m_shared_holders = IF m_mode = "Shared" THEN Cardinality(holding) ELSE 0

\* What the VERIFYs after block() in lock() and restore_exclusive_lock() say:
\* a thread that wakes up finds the mutex in the mode it asked for, owned by
\* itself, whatever other threads did between the hand-over and its waking.
WakesAsOwner ==
    \A t \in Waiters \ blocking :
        /\ requested[t] # {} /\ requested[t] \subseteq holding
        /\ t \in shared =>
              m_mode = "Shared" /\ m_holder = NoThread /\ m_shared_holders > 0
        /\ t \in Range(exclusive) =>
              m_mode = "Exclusive" /\ m_holder = t /\ m_shared_holders = 0

\* The mutex is never free while a thread sleeps on it: no wake-up is lost,
\* and unblock_waiters() never finds a thread on a list that has been woken
\* before (VERIFY(m_blocking_mutex == &mutex) in unblock_from_mutex()).
NoForgottenWaiter ==
    /\ m_mode = "Unlocked" => Waiters = {}
    /\ \A t \in blocking : t \in Waiters /\ requested[t] # {}
                         /\ requested[t] \cap holding = {}

\* A thread is on at most one list, once: VERIFY(!list.contains()) in block().
OnOneList ==
    /\ \A i, j \in DOMAIN exclusive : exclusive[i] = exclusive[j] => i = j
    /\ Range(exclusive) \cap shared = {}

\* The mutex implements the abstract lock.
Abstract == INSTANCE RWLock WITH
    granted <- holding,
    pending <- Requested(blocking),
    dropped <- UNION {dropped[t] : t \in Threads}

\* Every step of the code is a step of RWLock, or none.
ImplementsRWLock == Abstract!Spec

\* Readers are never starved: a reader that waits is let in when the writer
\* leaves, whatever other writers wait.
ReaderProgress ==
    \A t \in Threads : t \in shared /\ t \in blocking ~> t \notin blocking

\* Writers wait for each other in order; new readers may overtake them for
\* ever, so a writer is let in only if the mutex is not shared for ever.
WriterProgress ==
    []<>(m_mode # "Shared") =>
        \A t \in Threads : t \in Range(exclusive) /\ t \in blocking ~> t \notin blocking

\* Each thread that wants the big lock gets it, also a thread that restores
\* it after a sleep.
BigLockProgress ==
    \A t \in Threads : dropped[t] # {} \/ t \in blocking ~> dropped[t] = {} /\ t \notin blocking
=============================================================================
