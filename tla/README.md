# Waiting, waking and delivering in SerenityOS: a TLA+ development

SerenityOS is an operating system: a preemptive kernel (`Kernel/`), its own C
library and some eighty libraries (`Userland/Libraries/`), system services, a
desktop and its applications. Most of the code is sequential. The part on which
everything else leans, and which tests hardly reach, is the part where threads
**wait for each other**: locks, sleeps and wake-ups, in the kernel and in LibC.
This project models that part from the bottom up, with the two machines that
drive it from outside: the timer queue and TCP.

## 1. Inventory

| component | state | operations | talks to | what is hard | what makes it correct |
|---|---|---|---|---|---|
| `Mutex` (`Kernel/Locking/Mutex.cpp`) | mode, recursion count, holder, number of readers, two lists of sleeping threads | `lock`, `unlock`, `force_unlock_exclusive_if_locked`, `restore_exclusive_lock` | `Thread::block(Mutex&)`, `unblock_from_mutex` | the lock is handed to threads that still sleep; whole recursion depths are dropped and restored | exclusion, exact counts, no sleeper on a free mutex, no starvation |
| `Thread` blocking (`Kernel/Tasks/Thread.cpp`, `Thread.h`, `ThreadBlockers.cpp`) | thread state, `m_blocker`, flags of the blocker, the block timer, `m_should_die` | `block_impl`, `unblock`, `unblock_from_blocker`, timer callback, `send_signal`, `set_should_die`, `die_if_needed` | every blocker set, the timer queue, the scheduler | four parties race to end one sleep; two spinlocks are taken in both orders | no lost wake-up, no dangling blocker, one cause for each wake-up |
| `WaitQueue` (`Kernel/Tasks/WaitQueue.cpp`) | registered blockers, `m_wake_requested` | `should_add_blocker`, `wake_one`, `wake_n`, `wake_all` | `Thread` blocking | a wake-up nobody waits for is remembered | remembered once, and only while nobody waits |
| `sys$futex` and `FutexQueue` (`Kernel/Syscalls/futex.cpp`, `Kernel/Tasks/FutexQueue.cpp`) | a global table of queues; per queue its blockers, imminent waits, removed flag | wait, wake, with and without bitsets; wake-op; requeue | big lock, `Thread` blocking, user memory | queues are created, found and removed concurrently; compare and sleep must be one step | nobody waits on a removed queue, no queue leaks, no missed wake-up |
| pthread mutexes (`LibC/pthread_integration.cpp`) | `lock`, `owner`, `level` | lock, trylock, pessimistic lock, unlock | futex | announcements of waiters are erased by the fast path | exclusion, exact recursion, no forgotten sleeper |
| Process big lock | a `Mutex` of behaviour `BigLock` | as `Mutex`; dropped by every sleep | all system calls | a sleep on another mutex drops it too | depth restored exactly; everybody gets it back |
| condition variables (`LibC/pthread_cond.cpp`) | generation and two flags in one word | wait, timedwait, signal, broadcast | futex, pthread mutex | the mutex is released before the sleep; flags are cleared and put back around the wake-up | a signal unblocks one of those that waited, a broadcast all |
| semaphores (`LibC/semaphore.cpp`) | count and `POST_WAKES` in one word | post, trywait, wait, timedwait; named semaphores | futex | the duty to wake moves between `sem_post()` and woken threads | slots taken once; the duty is always somebody's |
| `TimerQueue` (`Kernel/Time/TimerQueue.cpp`) | sorted list, `next_timer_due`, executing timers; per timer three atomic flags and a reference count | `add_timer`, `cancel_timer`, `fire`, deferred calls | timer interrupt, `Thread` blocking, alarms | cancellation against a callback that is queued or running | once, not early, and what `cancel_timer()` returns is final |
| `WaitBlockerSet`, `sys$waitid` (`ThreadBlockers.cpp`, `Syscalls/waitid.cpp`) | states of children to be waited for, sleeping blockers | `waitid`, stop, continue, death, disown | `Process`, signals, big lock | a child dies while its parent is on the way to sleep or out of it | a death is kept until one wait takes it |
| `TCPSocket`, `NetworkTask` (`Kernel/Net/`) | connection state, sequence numbers, unacknowledged packets, delayed ACKs | connect, send, shutdown, close, receive, retransmit | network, timers | loss, duplication, reordering; late packets after a close | bytes in order and once; retransmission ends |
| once, rwlocks, thread creation (`LibC`) | words and futexes | | futex | | once; readers or a writer |
| join, select and flock blockers | blocker sets with pending events | | `Process`, `Thread` | events before the wait | each event is delivered once |
| `FinalizerTask`, `Scheduler` | flags, ready queues | | `WaitQueue`, `Thread` | work announced while the finalizer falls asleep | no dead thread stays |
| pipes and local sockets, `AsyncDeviceRequest` | buffers, request states | | `WaitQueue`, `Mutex` | end of file, cancellation | no lost byte, no use after completion |
| memory: copy-on-write commitments, `PhysicalZone` | page counts, buddy bitmaps | | page faults | running out at the wrong moment | commitments are honoured |
| storage and file systems | disk cache, on-disk structures | | `Mutex` | write-back | cache matches disk |
| LibIPC, LibThreading, LibCore event loop | queues of messages and actions | | sockets | synchronous calls among events | every reply finds its request |
| services, WindowServer, AK, LibJS, LibWeb, codecs, applications, drivers and boot code | | | | mostly sequential, drawing, parsing or hardware | |

`PROJECT.json` lists the components with their status and the hazards with
their source lines.

How the modelled parts stack up:

    LibC pthread_cond_t          PthreadCond --- extends ---> PthreadMutex
    LibC pthread_mutex_t         PthreadMutex -- uses --+
    LibC sem_t                   Semaphore ----- uses --+---> FutexSpec
                                                                ^
    sys$futex, FutexQueue        Futex  ------- implements -----+
                                   | registering and waking a blocker is one
                                   | step there, many steps here:
    Thread::block_impl, wakers   WaitQueue
      sys$waitid                 WaitBlockerSet (a blocker with results)
      the block timer            TimerQueue (one step of WaitQueue, many here)
    Mutex, big lock              Mutex  ------- implements ----> RWLock

    TCPSocket, NetworkTask       TCPSocket (two machines and the network)

## 2. Modules

### RWLock and Mutex

`RWLock` is the promise of a kernel mutex in terms of *claims*, one per `lock()`
call: granted claims never conflict, only pending claims are granted, and a
release that leaves the lock free hands it over at once. It knows no counters,
modes or lists.

`Mutex` has the fields of the class under their own names. `exclusive` and
`shared` are the two lists of blocked threads, `blocking` are the threads whose
`m_blocking_mutex` is set, `requested[t]` are the claims a blocked thread waits
for (their number is `m_lock_requested_count`), `dropped[t]` those it
force-unlocked (their number is `lock_count_to_restore`), and `holding` is a ghost, the record
that `LOCK_DEBUG` builds keep. All of `lock()` and `unlock()` runs under the
spinlock `m_lock`, and a caller that must wait is on its list and marked Blocked
before `m_lock` is released. So each call is one action up to its return or its
sleep, and waking up (`ReturnFromBlock`) is another: in between, the thread owns a
mutex it does not know of. `lock()` is split by the mode it finds
(`LockUnlocked`, `LockExclusive`, `LockShared`, `LockBlocks`);
`UnblockWaiters` is `unblock_waiters()` with its choice of list. `DropBigLock`,
`RestoreAtOnce`, `RestoreBlocks` and `DieIfNeeded` are the uses that
`Thread` makes of the big lock. A dead thread's identity is reused by a later
thread. `Locations` bounds the recursion depth: a thread has one claim per
location. `AllowUpgrade` lets a reader ask for exclusive access, which the code
only warns of and which waits for itself.

### WaitQueue

The steps are the critical sections of `block_impl()` and of the wake functions:
`BeginBlock`, `SetupBlocker` (registration under the queue's lock, or a
remembered wake-up used up), `FallAsleep` (timer, `begin_blocking()`, Blocked),
`WakeUp` (end of the yield loop, `end_blocking()`), `Return` (timer cancelled,
`finalize()`); `BeginWake`, `Visit`, `UnblockFromBlocker`, `EndWake`; and
`TimerFires`, `SendSignal`, `SetShouldDie`, `Die`. `MayRun` models the
spinlocks: on one processor (`SMP = FALSE`, the default of the boot parameter
`smp`) they keep interrupts off, so that nobody else moves while one is held;
on several only the locks exclude. `cause` is a ghost.

### FutexSpec and Futex

`FutexSpec` is the manual page: comparing and starting to wait is one step, and
a wake-up of n wakes n threads or all. `Futex` is one word of memory with the
entry of its key in `s_global_futex_queues`. A system call is a sequence of
steps, one per critical section (`CheckValue`, `FindQueue` or `CreateQueue`,
`QueueImminentWait`, `WaitOn`, `Relock`, `Done`, `RemoveQueue`; `WakeFind`,
`WakeN`, ...), and it holds the big lock of its process until it sleeps or
returns. `Processes` partitions the threads; stores by user code happen at any
time. An object of type `FutexQueue` that nothing refers to may be created
again, so `Queues` needs one more element than there are threads.

### PthreadMutex

`LibCThreads` declares what this module and `Semaphore` have in common: the
threads, where each is (`pc`), and the state of one futex.

`pthread_mutex_lock`, `trylock`, `__pthread_mutex_lock_pessimistic_np` and
`unlock`, one action per atomic operation or system call, for normal and
recursive mutexes. The futex is an instance of `FutexSpec`, and the actions
`Wait`, `GiveUp` and `Wake` are taken from it. `Spec` is a mutex without
condition variables; the pessimistic lock, which only they call, is a step of
`PthreadCond`. `depth` is a ghost.

### PthreadCond

`PthreadCond` extends `PthreadMutex`: the threads, their mutex and the futex of
the mutex are the same, and `cpc` says where a thread is in a call for the
condition variable. Of `cond->value`, `need_to_wake` are the flags; of the
generation only what a wait can tell is kept, whether it has changed since the
wait began (`fresh`). `CondWait` to `CondWaitReturns` are
`pthread_cond_timedwait()`, one action per atomic operation or call:
announce, unlock (the steps of `PthreadMutex`), compare and sleep, relock by the
pessimistic path. A recursive mutex that is locked more than once is only
counted down (`CondUnlockLevel`), and its owner then waits for itself (`LockOwn`
of `PthreadMutex`). `CondTimeout` returns without the mutex, as the code does;
with `TimedOutUnlocks` the caller then may take itself for the holder and unlock
(`TimedOutUnlock`), as `Tests/Kernel/pthread-cond-timedwait-example.cpp` does, and
the ghost `trespassed` remembers it.
`CondSignal`, `SignalClear`, `SignalWake`, `SignalRestore` are
`pthread_cond_signal()`, the `Broadcast` actions `pthread_cond_broadcast()`,
whose requeue with a count of -1 wakes everybody. Both may be called with the
mutex held or not. `owed` is a ghost: who waited when the call began.

### Semaphore

The word is the pair of a count and the flag `POST_WAKES`. `seen` is the local
variable `value` of a thread, `responsible_for_waking` the local variable of
that name. `sem_post()` is `SemPost`, `PostClears`, `SemFutexWake`; `sem_wait()`
is `Load` and then the loop, whose rounds are `TakeSlot`, `SetPostWakes`,
`Reevaluate` (the compare-exchange failed) and `SemFutexWait`; after a sleep the
thread assumes that there is one slot (`SemFutexWaitReturns`). The result of the
futex call is ignored by the code, so `SemInterrupt` covers signals and timeouts.
`balance` is a ghost that counts the slots made less those taken.

### TimerQueue

The list with its `next_timer_due`, `m_timers_executing`, the three atomic flags
of a timer, its reference count, and the deferred calls that `fire()` has made.
`AddTimer`, one step under `g_timerqueue_lock`; `cancel_timer()` as `CancelTimer`
(`is_in_use()`), `SetCancelled`, then `RemoveTimer`, `RemoveExecuting` or
`SpinEnds`; `Tick` and `Fire` are the interrupt; a deferred call is `CallBegins`,
`CallReturns`, `CallClearsInUse`, `CallFinishes`. Deadlines are relative, so that
time needs no bound. `smp` is chosen at the start: on one processor interrupts
and their deferred calls come before any thread (`MayRun`) and in order, on
several they interleave with the owner and each other. `ran` is a ghost.

### WaitBlockerSet

One parent with several threads, and its children. A wait is for all of them, for
one or for those in a process group, which does not change. `m_processes` is the list of
states to be waited for, in order; `m_blockers` the sleeping blockers. A call is
`Waitid`, then `WaitNoHang` or `Block` (`should_add_blocker()` under the set's
lock), `EndBlocking` when the thread runs again, and `Return` when it has the big
lock back, until which its blocker can still take a result. `TryUnblock` is
`try_unblock()`, `Unblock` is `unblock()` with the choice of what is remembered
and of whom is told; `Stop`, `Continue`, `Finalize` and `Disown` are what happens
to a child. `reaped` is a ghost.

### TCPSocket

Two machines with this kernel and a set of packets that may arrive at any time,
any number of times or never. `Answer` is `send_tcp_packet()`; a packet that
takes a sequence number is appended to `unacked_packets`. `Receive` is
`handle_tcp()` with one operator per state. Sequence numbers are modulo
`SeqModulus` and the comparison of acknowledgements does not wrap, as in the
code. `Retransmit`, `FlushDelayedAck` and `TimeWaitElapses` are the timers. The
number of attempts is capped where the socket gives up, from where it only grows.
`written`, `received` and `passed_over` are ghosts; the last one marks
connections whose handshake has skipped data.

### Faulty variants

Operators introduced by a comment "Fault:" are variants of the definition that
follows them with a plausible bug in it. No specification uses them; replacing
the definition by its variant must make TLC report the property that
`PROJECT.json` names with it.

## 3. Runs

| run | instance | what it shows |
|---|---|---|
| `mutex_regular` | 4 threads, 2 locations, upgrades allowed | exact counts, refinement of `RWLock`, progress of readers and writers |
| `mutex_big_lock` | 4 threads, 2 locations, `BigLock` | exclusion and no forgotten waiter while threads drop, restore and die with the lock; everybody gets it |
| `wait_queue` | 2 waiters, 2 wakers, one processor | no lost wake-up, memory of wake-ups, one cause per wake-up, no dangling blocker, sleeps end |
| `futex_private` | 3 threads of one process, 2 values | refinement of `FutexSpec`: no missed wake-up, right counts |
| `futex_shared` | 2 + 1 threads of two processes, 2 bits | life of the queues: none detached, none leaked, exact imminent waits |
| `pthread_mutex` | 3 threads, recursive, `MaxLevel = 2` | exclusion, exact recursion, no forgotten sleeper; a free mutex is taken |
| `pthread_cond` | 3 threads, recursive, `MaxLevel = 2`, `TimedOutUnlocks` | with or without the mutex: all are unblocked by a broadcast, one by a signal that no other call overlaps; the flags tell of sleepers; the mutex excludes until a caller unlocks it after a timeout, and who sleeps has let go of it or had locked it more than once |
| `semaphore` | 4 threads, `MaxCount = 2`, every initial count | slots are conserved, the duty to wake is kept, free slots are taken |
| `timer_queue` | 3 timers, delays 1 and 2, one and several processors | list and due time agree, callbacks once and not early, cancellation is final, exact references, `cancel_timer()` returns, timers fire |
| `wait_blocker_set` | 2 threads, 2 children, 3 kinds of waits | deaths are pending or reaped, none is slept through or reported by a later wait, zombies are reaped |
| `tcp` | the client writes 2, the server 1; 1 retransmission, 1 duplicate ACK, 8 packets | bytes in order, nothing unreceived is forgotten, a FIN is taken in `Established` after all the data, retransmission ends |
| `cond_relock` | 3 threads | **violated**: a thread sleeps for ever on a free mutex |

`BlockersAreSound`, `QueuesAreSound`, `CondKeepsExclusion`, `SlotsAreSound`,
`DutyIsKept`, `QueueIsSound`, `CallbacksAreExact`, `ListIsSound` and
`UnackedAreSound` are conjunctions of the named invariants above them in their
modules, the type invariant among them.

**Bounds.** Four threads on a mutex give a holder, two waiters on one list and a
waiter on the other, or two readers that are handed the lock together; two
locations give recursion and a depth of two to restore. Two waiters and two
wakers give a queue with a blocker left behind by `wake_one()` and two wake
calls in a row. Two values suffice for a futex word (the expected one and
another); `futex_shared` keeps one value and spends its states on bitsets,
because its properties do not depend on the word. `MaxLevel = 2` lets the
recursion counter of a pthread mutex pass zero in both directions. Three threads
on a condition variable are a sleeper, a thread that announces itself or was just
woken, and one that signals, or a sleeper between two that signal at once, each
in any of these parts in turn; four on a semaphore are a poster, a woken thread
and two sleepers. Three timers
give a timer in front of, behind and equal to another. Two children let the
state of one stand before the death of the other in the list. In `tcp`, two
writes can be reordered, one retransmission meets the original, and eight
packets hold the handshake, the data with their acknowledgements and both FINs;
sequence numbers do not wrap. `Values`, `Bits`, `Queues`, `Locations`,
`MaxLevel`, `MaxCount`, `MaxDelay`, `MaxData`, `MaxRetransmits`, `MaxDupAcks`,
`MaxPackets` and the numbers of threads, timers and children are all the bounds
there are, but for one: `pthread_cond` does not go beyond the first unlock by a
caller that does not hold the mutex (`BeforeTheTrespass`), after which two threads
can be inside and count the level up and down between them without end. What is
claimed beyond it is proved (section 5). `Waits` in `MCWaitBlockerSet` picks the
kinds of calls. Symmetry is used where no liveness property is checked.

**Deadlock** is checked in every passing run except `mutex_regular`, where a
reader that asks for exclusive access waits for itself for ever, `timer_queue`,
where on several processors a timer is used once, and `tcp`, where a connection
ends.

**Fairness.** The scheduler runs every runnable thread, so a thread that is
inside a call takes its next step (weak fairness; strong where spinlocks of
others keep disabling it, since a spinlock is free again and again). In `Mutex`
and the pthread modules a thread that holds a lock leaves its critical section;
for `Mutex` this includes strong fairness of giving up a last claim, since a
thread that nests `lock()` calls could otherwise keep one for ever. Armed timers
fire: `TimerQueue` shows it from weak fairness of the interrupt and of the
deferred calls, and strong fairness of a thread in `cancel_timer()`, which
interrupts stop again and again. In `TCPSocket` only `retransmit_packets()` is
fair, which the network task calls periodically; the network delivers nothing
that it does not want to. Nobody is obliged to lock, to wait, to wake, to post,
to arm, to write, to send a signal or to kill. `SlotsAreTaken` excepts threads
that call for ever, which can make each compare-exchange of a woken thread fail;
`ZombiesAreReaped` is about a parent that keeps waiting.

## 4. Findings and known divergences

One finding has a run of its own, `cond_relock`, which shows what the code does
against what a comment says of it.
`__pthread_mutex_lock_pessimistic_np()`, by which `pthread_cond_wait()` takes the
mutex back, sleeps on the value that its exchange returned. If that is
`MUTEX_LOCKED_NO_NEED_TO_WAKE`, and the mutex is freed and taken again by the
fast path before the futex call, the thread sleeps, the next `unlock()` wakes
nobody, and the mutex stays free while the thread sleeps.

The following behaviours are in the models, too. The properties of the runs
leave them out by a constant or by a hypothesis, as noted; the stronger property
is violated.

Threads and futexes:

- On several processors (`SMP = TRUE` in `WaitQueue`) `NoLostWakeup` is violated:
  a waker may visit a blocker whose thread has not reached `begin_blocking()`.
  It is marked as unblocked and removed, the thread is not made runnable because
  it is not yet blocking, and then it sleeps. `m_block_lock` should prevent this,
  but wakers do not take it before they look at `m_is_blocking`.
- `block_impl()` takes the lock of the queue under `g_scheduler_lock`, wakers take
  them the other way round. With several processors they can wait for each other;
  on one, interrupts are off while a spinlock is held, whatever the order. No
  property is stated of it.
- `set_should_die()` interrupts only a thread that is already Blocked, and
  `block_impl()` does not look at `m_should_die`: a kill just before the sleep
  has no effect.
- For a word shared between processes, futex comparison and wait are not atomic
  (`ImplementsFutexSpec` with two processes is violated); only the big lock of
  the waiter's own process protects them.
- A futex waiter that has timed out stays in the queue until it has the big lock
  again; `FUTEX_WAKE(1)` counts it as woken and another waiter sleeps on.
- A plain `FUTEX_WAIT` waits with the bitset 0, so no `FUTEX_WAKE_BITSET`
  reaches it. `do_requeue()` asks `find_futex_queue()` for a new queue without
  `did_create`, which that function does not allow; LibC never gets there.

LibC:

- `pthread_cond_timedwait()` returns `ETIMEDOUT` without the mutex
  (`pthread_cond.cpp:105`). The test of that call
  (`Tests/Kernel/pthread-cond-timedwait-example.cpp:40-42`) goes on as if it held it
  and unlocks it: another thread can be in its critical section then, and loses its
  mutex. `CondKeepsExclusion` ends with such an unlock (`trespassed`); the other
  properties of the condition variable hold whatever the callers do.
- The pessimistic path does not ask whether its caller owns the mutex, "because we
  know we don't" (`pthread_integration.cpp:171`). A recursive mutex, as LibThreading
  uses with its `ConditionVariable` (`LibThreading/Mutex.h:44`), that is locked twice
  is only counted down by `pthread_cond_wait()`: the thread sleeps with the mutex,
  and, when it is woken, waits for itself.
- "Release at least one of the threads waiting on this variable", says
  `LibThreading/ConditionVariable.h:45` of `signal()`, which `ThreadPool.h:132` calls
  without the mutex. A signal that finds `NEED_TO_WAKE_ONE` cleared does nothing
  (`pthread_cond.cpp:120`). The one that has cleared it may have woken its thread
  already and be about to put the flag back; then a second sleeper is woken by
  neither, and two signals at once can wake one thread between them.
  `SignalUnblocksOne` says what is left: a signal is without effect only inside
  another call that has cleared the flag.
- The generation in `cond->value` wraps after 2^30 signals.
- `sem_post()` does not guard `SEM_VALUE_MAX`. `sem_timedwait()` ignores the
  result of `futex_wait()`: it never returns `ETIMEDOUT` and, past its deadline,
  spins.

Timers: with several processors, a timer that is cancelled while its deferred
call is queued, and armed again before that call runs, has its new callback run
by the old call, early and possibly twice (`RearmOnSMP = TRUE` violates
`CallbacksAreExact`). A callback that waits for the thread which cancels its timer
keeps it in `cancel_timer()` for ever; in the model callbacks return.

Waiting for children:

- `Process::finalize()` sends `SIGCHLD` (`Process.cpp:900`) and then tells the
  waiters (911). A wait that the signal wakes in between finds nothing and settles
  for `EINTR`; while it waits for the big lock its blocker, still in the set, takes
  the death. The call returns `EINTR`, against the comments at
  `ThreadBlockers.cpp:697` and 719 ("wait() will return normally despite the fact that
  SIGCHLD was delivered"), and the status is lost. (If the death is there when the
  thread wakes up, `do_set_result()` does what the comments say.) Another signal has
  the same effect at any time. `ListIsSound` counts the death as reaped.
- `sys$disown()` tells the blocker set of the child (`disown.cpp:24`), not of the
  parent: threads that wait for the child are not unblocked, against
  `ThreadBlockers.cpp:767` ("Disowning must unblock anyone waiting for this process
  explicitly").
- Two threads asleep in waits for the same child both report its death;
  `ReapedForGood` is about waits that get their result later.
- `should_add_blocker()` ignores `was_waited`: a stop is reported again, and hides
  a death behind it from a wait for both. `unblock()` looks at `was_waited` of the
  child's previous state, so a wait for `WCONTINUED` can sleep through it.
- When `unblock()` tells a sleeping wait of a death, it leaves the entry that the
  list has of an earlier stop or continuation of the child: after stop,
  continuation and such a death, "Continued" of a child that is dead and reaped
  stays in the list, for a later wait to report. `ListIsSound` is about deaths.
- `end_blocking()` takes the set's lock under the blocker's, `unblock()` the
  other way round; the model has one processor.

TCP:

- In `SynReceived` any ACK ends the handshake and sets the number expected next:
  data sent before it and lost are never delivered (`passed_over` excepts such
  connections), and data that arrive first reset the connection.
- Acknowledgements are compared without regard for the wrap at 2^32: with a small
  `SeqModulus` `UnackedAreSound` is violated.
- A FIN is not kept for retransmission: `FinWait1`, `FinWait2` and `LastAck` can
  last for ever. In `FinWait1` and `FinWait2` data of the other side reset the
  connection, though it was closed in one direction only.
- `protocol_is_disconnected()` tells readers of the end of the file in `CloseWait`
  and `LastAck`, where nothing is missing (`FinComesLast`), but also in `FinWait1`,
  `FinWait2` and `TimeWait`, where data are not taken any more, and in `Closed`,
  after a reset or when retransmission has given up: there data that were written
  may be missing, and the reader cannot tell.
- A socket that has given up stays in the list of `retransmit_packets()`, which
  closes it again and again.
- After `maximum_duplicate_acks` a sender whose ACKs are lost gives up, though
  its data were delivered.
- `protocol_send()` does not look at the state; a write after retransmission has
  given up reuses sequence numbers (`WritesWhenClosed = TRUE` violates `InOrder`).

## 5. Proofs

The theorems hold for any number of threads, timers, children and values, from
the assumption on constants that each module states (`MutexAssumption`,
`WaitQueueAssumption`, ...: finite sets, positive bounds) and, where noted, from
the constant that leaves out a finding of section 4. Each proof rests on an
inductive invariant that implies what is proved. `ListTheorems` has the facts
about lists that they share: the kernel's lists are intrusive, so that a list is
an injective sequence, and appending and removing keep it one.

`MutexProofs` proves, for both behaviours and with or without upgrades: `TypeOK`,
`MutualExclusion`, `CountsTheClaims`, `WakesAsOwner`, `NoForgottenWaiter`,
`OnOneList`, and that `Mutex` implements `RWLock` (`RefinesRWLock`).

None of these is inductive. `IndInv` adds what ties the fields together:
`ModeMatchesClaims` (the mode says who may be among the holders),
`RequestsFitLists` (what a sleeper asked for is its own, fits its list and is
not granted while it is `blocking`), `DroppedIsApart` (who dropped the big lock
holds nothing and waits for nothing) and `GrantedOwns` (who was handed the mutex
owns it, though still on the list). Two of its parts carry the argument. While a
woken writer is still at the head of `exclusive`, `unblock_waiters()` must not
choose it again: `GrantedOwns` says that the mutex is then exclusively its own,
so that only the thread itself could release it, and it is not running. And the
count after a hand-over is right because requested claims of different threads
are disjoint from each other and from what is held. The lemmas are grouped by
what they are about: lists and counting, taking the lock, blocking, returning,
handing over, dropping and restoring. The refinement maps each action to one of
`RWLock`'s under `IndInv`.

`WaitQueueProofs` has two layers. `WaitInv` holds on any number of processors:
a spinlock is held exactly inside its critical section (`LocksInv`), only
blockers that were not told to unblock are in the queue (`QueueInv`), the state
and the blocker of a thread change together (`SleepInv`), and what ended a sleep
has left its mark and nothing else has (`CauseInv`). `BlockersAreSound` and
`ResultTellsCause` follow. `OneProcessorInv` adds, for `~SMP`, that the two
spinlocks are never held at the same time by two threads, so that no waker visits
a thread between its registration and its sleep. This gives `NoLostWakeup`, which
is violated with `SMP`.

`FutexProofs` proves `QueuesAreSound`, `NoDetachedWaiter` and `NoLeakedQueue` for
any processes and bitsets. `QueueInv` adds that a queue somebody refers to is in
the table or marked as removed (`HeldInv`), that its blockers are threads asleep
on it (`BlockersInv`), and that as long as there is a queue in the table somebody
is going to look whether it is still needed (`LastToLeaveInv`). The counting of
imminent waits is what keeps a queue alive between a waiter's look at the table
and its sleep.

`FutexRefinesFutexSpec` proves that for one process without bitsets
(`OneProcess`, `NoBitsets`) the system call implements `FutexSpec`, which the
modules about LibC use in its place. A thread counts as a waiter from the
comparison until it is woken or, if it gave up, until it has the big lock again:
only then does it leave the queue. `CallInv` says why this works: the big lock
lets one thread be inside the call, so a queue that was found or found missing
is still that when it is used. With two processes it is violated. LibC's
mutexes, condition variables and semaphores use no bitsets: a timed wait passes
`FUTEX_BITSET_MATCH_ANY`, which the call turns into a plain one.

`LibCProofs` proves of the pthread mutex, for any `MaxLevel`: `TypeOK`,
`MutualExclusion`, `RecursionIsExact` and `NoForgottenSleeper`. `LockInv` adds
that the owner is between `lock()` and `unlock()`; it is preserved by the steps
of the pessimistic lock as well (`LockNext`). `SleeperInv` adds that whoever is
in the futex is asleep and compares the word with `MUTEX_LOCKED_NEED_TO_WAKE`
only; the pessimistic path breaks it, as run `cond_relock` shows. Of the
condition variable it proves `FlagsTellOfSleepers`, `SignalUnblocksOne` and
`BroadcastUnblocksAll` for both types of mutexes, held or not by those who signal,
and for either value of `TimedOutUnlocks`: their proofs do not speak of the mutex.
`FlagsInv` splits `FlagsTellOfSleepers` by flag: only a broadcast clears
`NEED_TO_WAKE_ALL`, and then it wakes everybody, so a signal that puts back
`NEED_TO_WAKE_ONE` completes the flags. `OwedInv` says that a call owes nothing to
those whose announcement is newer than its increment of the generation, so that a
thread it owes a wake-up and that still waits is asleep, and the flags tell of it.
`CondKeepsExclusion` is proved from `LockInv` and `LetGo` (a sleeper has unlocked the
mutex or only counted it down), both under `~trespassed`: every step of
`PthreadCond` but `TimedOutUnlock` is, for the mutex, a step of `LockNext` or none
(`StepsOfTheMutex`), so that `LockInv` carries over.

Of the semaphore it proves `SlotsAreSound` and `DutyIsKept`. The latter needs to
count: `Duties` has one element for every thread that is awake and responsible
and for every wake-up of a `futex_wake()` in progress, and `SlotsAreOwed` says
that, while threads sleep and the flag is set, there are at least as many of
them as there are free slots. A `futex_wake()` that wakes fewer threads than it
was told to has left nobody asleep.

`TimerQueueProofs` proves `QueueIsSound`, `CallbacksAreExact` and
`ReferencesAreExact` for `~RearmOnSMP`, on one processor and on several. The
invariant follows the life of a timer from one arming to the next (new, listed,
queued, in its callback, clearing, finishing) and says for each stage what
`m_cancelled`, `m_in_use` and the executing list are and how far its owner may be
in `cancel_timer()`. Whoever sets `m_cancelled` first, owner or deferred call,
decides (`RanOut`, `CancelledInTime`). There is never more than one deferred call
for a timer (`OneCall`), which rearming on several processors breaks.

`WaitBlockerSetProofs` proves `ListIsSound`, `NoDeathOverlooked` and the action
property `ReapedForGood`, for any set of `Waits`.
`DeathsInv` is stronger than the part of `ListIsSound` that it gives: also the
death of a child that was disowned later must not be in the list once a wait has
consumed it. `SleepersInv` says that who sleeps without a result is in the set and
would take none of the deaths in the list; `unblock()` offers each new one to
every blocker in the set.

`TCPSocketProofs` proves `InOrder`, `UnackedAreSound` and `FinComesLast` for
any amount of data and any number of packets, retransmissions and duplicate
ACKs, under two hypotheses that leave out findings of section 4: the SYN, the
data and the FIN of each side fit below `SeqModulus` (`NoWrap`), and nobody writes
on a closed connection (`~WritesWhenClosed`). The instance of run `tcp` satisfies
both. As in the run, connections whose handshake passed data over are excepted
from what concerns the received data. Since any packet ever sent may arrive at
any time, the invariant `TCPInv` is about all of them:

- `SendInv`: what an endpoint sent is numbered from its first sequence number,
  the SYN first, and the packets not acknowledged are the last ones of it, without
  a gap;
- `PacketInv`: the number of every packet on the network tells what it carries
  (the n-th data have the n-th number; a FIN comes after everything written, and
  nothing is written after it);
- `ReceiveInv`: an open socket has a prefix of what its peer wrote and asks for
  the next number; one that has taken a FIN in `Established` has everything;
- `AckInv`: no acknowledgement on the network claims more than its sender has
  received, unless the sender is gone or at the end of the stream;
- `LossInv`: what the peer has not received, the sender still keeps.

`AckInv` and `LossInv` need each other: packets are dropped only because of an
acknowledgement (`AckTaken`), and a late one claims less than the newest.
`UnackedAreSound` is not inductive without the numbering, because the comparison
in `receive_tcp_packet()` is by number only. Each step moves one endpoint and adds
packets to the network; `Fits` says what the socket may become, `Sends` what it
may send, and lemma `Moves`, that the other endpoint then keeps its part of the
invariant. The steps are then grouped by what they send: nothing (`QuietStep`), an
ACK, RST or FIN (`AnswerStep`), a SYN or data (`NumberedStep`). `handle_tcp()` has
one lemma per state.

`TypeOK`, `WakesAsOwner` and `OnOneList` of `Mutex` and `TypeOK` of `PthreadMutex`
are proved and in no run: the runs check what rests on them.

**Only model-checked**: the liveness properties, which are out of the proof
system's reach: `ReaderProgress`, `WriterProgress`, `BigLockProgress`, `SleepEnds`,
`SomebodyTakesIt`, `SlotsAreTaken`, `CancelReturns`, `TimersFire`,
`ZombiesAreReaped` and `RetransmissionEnds`. Every invariant, action property and
refinement of the passing runs is proved. The theorems stand on the models' grain: the steps that a
module takes as one (section 6) are one in its proofs, too.

## 6. Not modelled

Inside the modelled components: stopped and traced threads, signal dispatch,
thread finalization, and wake-ups from interrupt handlers, which are deferred
(`Thread.cpp` 310-328); `FUTEX_WAKE_OP`, requeueing except for the one use LibC
makes of it, queues cleared on exec and faults on user memory; named semaphores;
the numbers that `add_timer()` gives out and deadlines in the past; tracers, changes of
process groups and the end of the parent in `waitid`; windows, options, Nagle's algorithm, simultaneous
open, `accept()` and `close()` during `connect()`, routing, UDP, ICMP and ARP in
the network; weak memory orders (atomic operations are sequentially consistent in
the models). `WaitQueue` and `Futex` treat `cancel_timer()` as one step, which
`CallbacksAreExact` and `CancelReturns` of `TimerQueue` justify. `Futex` takes
registering a blocker and one `wake_n()` as single steps, which `WaitQueue`
justifies for one processor.

Not at all: the other components of the inventory. Those marked "planned" in
`PROJECT.json` follow below; drivers, on-disk formats, drawing, parsers and
interpreters stay out, as hardware, formats or sequential code whose state is
too large to enumerate. They are by far the larger part of the repository.

## 7. Plan

Done: `RWLock`, `Mutex`, `WaitQueue`, `FutexSpec`, `Futex`, `PthreadMutex`,
`PthreadCond`, `Semaphore`, `TimerQueue`, `WaitBlockerSet`, `TCPSocket`;
`ListTheorems`, `MutexProofs`, `WaitQueueProofs`, `FutexProofs`, `LibCProofs`,
`TimerQueueProofs`, `WaitBlockerSetProofs`, `TCPSocketProofs`.

Modules to add: `PthreadOnce` on `FutexSpec`; `ProcessLocks`, two instances of
`Mutex` with the calls in `Thread::block(Mutex&)` and `block_impl()` that drop the
big lock to wait for the other (`Thread.cpp` 223-283, 453-489); `JoinBlocker` and
`FinalizerTask`; `DoubleBuffer` with `FIFO`, `AsyncDeviceRequest`, copy-on-write
commitments, LibIPC's `Connection`.
