--------------------------- MODULE WaitQueueProofs ---------------------------
(***************************************************************************)
(* Proofs about WaitQueue, for any number of waiting threads and wakers.   *)
(* What the blockers, the queue and the reported results say of each other *)
(* holds on any number of processors; that no wake-up is lost holds on one.*)
(***************************************************************************)
EXTENDS WaitQueue, ListTheorems, FiniteSetTheorems

\* A spinlock is held inside the critical section that takes it.
LocksInv ==
    /\ \A t \in Threads : g_scheduler_lock = t <=> pc[t] \in {"setup", "added"}
    /\ \A w \in Wakers : queue_lock = w <=> waker[w].at # "idle"

\* Only blockers that were not told to unblock are in the queue, and a wake
\* call that has told nobody still has somebody to tell.
QueueInv ==
    /\ IsInjective(m_blockers)
    /\ \A t \in Range(m_blockers) : pc[t] \in {"added", "sleeping", "woken"}
    /\ \A t \in Range(m_blockers) : t \notin m_did_unblock
    /\ m_wake_requested => Range(m_blockers) = {}
    /\ \A t \in m_did_unblock : pc[t] \in {"added", "sleeping", "woken"}
    /\ \A t \in timer : pc[t] \in {"sleeping", "woken"}
    /\ \A w \in Wakers :
          ~waker[w].any => waker[w].at # "unblocking" /\ (waker[w].at = "iterating" => waker[w].left > 0)

\* The state and the blocker of a thread change together.
SleepInv ==
    /\ m_blocker = blocked
    /\ \A t \in blocked : pc[t] = "sleeping"
    /\ blocked \subseteq m_is_blocking \cup m_did_unblock

\* What ended the sleep has left its mark, and nothing else has.
Marks(t, why, flag, late) ==
    cause[t] = why /\ interrupted[t] = flag /\ (t \in timeout_unblocked <=> late)

CauseInv ==
    \A t \in Threads :
        /\ pc[t] \in {"running", "setup", "added"} => Marks(t, "none", "no", FALSE)
        /\ t \in blocked => Marks(t, "none", "no", FALSE)
        /\ pc[t] = "sleeping" /\ t \notin blocked =>
              \/ Marks(t, "waker", "no", FALSE) \/ Marks(t, "timer", "no", TRUE)
              \/ Marks(t, "signal", "signal", FALSE) \/ Marks(t, "death", "death", FALSE)

WaitInv == TypeOK /\ LocksInv /\ QueueInv /\ SleepInv /\ CauseInv /\ ResultTellsCause

\* On one processor the two spinlocks are never held by two threads, so no
\* waker visits a thread between its registration and its sleep.
OneProcessorInv ==
    /\ g_scheduler_lock = Nobody \/ queue_lock = Nobody
    /\ \A t \in m_did_unblock : pc[t] # "added"
    /\ NoLostWakeup

USE DEF locks, queue, flags, sleep, Unblock

\* The initial state satisfies both invariants.
LEMMA InitialState == Init => WaitInv /\ OneProcessorInv
<1> SUFFICES ASSUME Init PROVE WaitInv /\ OneProcessorInv
  OBVIOUS
<1> USE WaitQueueAssumption DEF Init
<1>1. Cardinality(Threads) \in Nat
  BY FS_CardinalityType
<1>2. TypeOK
  <2>1. Idle \in WakerStates
    BY <1>1 DEF Idle, WakeCall, WakerStates
  <2>2. waker \in [Wakers -> WakerStates] /\ m_wake_requested \in BOOLEAN
    BY <2>1
  <2>3. m_blockers \in Seq(Threads)
    OBVIOUS
  <2> QED
    BY <2>2, <2>3 DEF TypeOK
<1>3. LocksInv
  BY DEF LocksInv, Idle, WakeCall
<1>4. Range(m_blockers) = {} /\ IsInjective(m_blockers)
  BY DEF Range, IsInjective
<1>5. QueueInv
  BY <1>4 DEF QueueInv, Idle, WakeCall
<1>6. SleepInv /\ CauseInv /\ ResultTellsCause
  BY DEF SleepInv, CauseInv, Marks, ResultTellsCause
<1>7. OneProcessorInv
  BY DEF OneProcessorInv, NoLostWakeup
<1> QED
  BY <1>2, <1>3, <1>5, <1>6, <1>7 DEF WaitInv

\* Taking a blocker off the queue takes it and nobody else off, and a blocker
\* that is not in the queue is added to it once.
LEMMA QueueOperations ==
    ASSUME m_blockers \in Seq(Threads), IsInjective(m_blockers)
    PROVE  /\ \A t \in Threads :
                 /\ RemoveFirst(m_blockers, t) \in Seq(Threads)
                 /\ IsInjective(RemoveFirst(m_blockers, t))
                 /\ Range(RemoveFirst(m_blockers, t)) = Range(m_blockers) \ {t}
                 /\ Append(m_blockers, t) \in Seq(Threads)
                 /\ t \notin Range(m_blockers) => IsInjective(Append(m_blockers, t))
                 /\ Range(Append(m_blockers, t)) = Range(m_blockers) \cup {t}
           /\ \A i \in DOMAIN m_blockers :
                 /\ m_blockers[i] \in Threads /\ m_blockers[i] \in Range(m_blockers)
                 /\ RemoveAt(m_blockers, i) \in Seq(Threads)
                 /\ IsInjective(RemoveAt(m_blockers, i))
                 /\ Range(RemoveAt(m_blockers, i)) = Range(m_blockers) \ {m_blockers[i]}
<1>1. ASSUME NEW t \in Threads
      PROVE  /\ RemoveFirst(m_blockers, t) \in Seq(Threads)
             /\ IsInjective(RemoveFirst(m_blockers, t))
             /\ Range(RemoveFirst(m_blockers, t)) = Range(m_blockers) \ {t}
  BY ListRemoveFirst
<1>2. ASSUME NEW t \in Threads
      PROVE  /\ Append(m_blockers, t) \in Seq(Threads)
             /\ t \notin Range(m_blockers) => IsInjective(Append(m_blockers, t))
             /\ Range(Append(m_blockers, t)) = Range(m_blockers) \cup {t}
  BY ListAppend
<1>3. ASSUME NEW i \in DOMAIN m_blockers
      PROVE  /\ RemoveAt(m_blockers, i) \in Seq(Threads)
             /\ IsInjective(RemoveAt(m_blockers, i))
             /\ Range(RemoveAt(m_blockers, i)) = Range(m_blockers) \ {m_blockers[i]}
  BY ListRemove
<1>4. ASSUME NEW i \in DOMAIN m_blockers
      PROVE  m_blockers[i] \in Threads /\ m_blockers[i] \in Range(m_blockers)
  BY DEF Range
<1> QED
  BY <1>1, <1>2, <1>3, <1>4

\* Every step keeps the types.
LEMMA TypeStep == WaitInv /\ [Next]_vars => TypeOK'
<1> SUFFICES ASSUME WaitInv, [Next]_vars PROVE TypeOK'
  OBVIOUS
<1> USE WaitQueueAssumption
<1>0. TypeOK /\ Cardinality(Threads) \in Nat
  BY FS_CardinalityType DEF WaitInv
<1>a. m_blockers \in Seq(Threads) /\ IsInjective(m_blockers)
  BY DEF WaitInv, TypeOK, QueueInv
<1>1. CASE UNCHANGED vars
  BY <1>0, <1>1 DEF vars, TypeOK
<1>2. ASSUME NEW t \in Threads, BeginBlock(t) PROVE TypeOK'
  BY <1>0, <1>2 DEF BeginBlock, TypeOK
<1>3. ASSUME NEW t \in Threads, SetupBlocker(t) PROVE TypeOK'
  <2>0. Append(m_blockers, t) \in Seq(Threads)
    BY <1>a, QueueOperations
  <2>1. m_blockers' \in Seq(Threads)
    BY <1>a, <1>3, <2>0 DEF SetupBlocker
  <2>1a. m_wake_requested' \in BOOLEAN
    BY <1>0, <1>3 DEF SetupBlocker, TypeOK
  <2>2. /\ pc' \in [Threads -> {"running", "setup", "added", "sleeping", "woken"}]
        /\ g_scheduler_lock' \in Threads \cup {Nobody}
    BY <1>0, <1>3 DEF SetupBlocker, TypeOK
  <2> QED
    BY <1>0, <1>3, <2>1, <2>1a, <2>2 DEF SetupBlocker, TypeOK
<1>4. ASSUME NEW t \in Threads, FallAsleep(t) PROVE TypeOK'
  BY <1>0, <1>4 DEF FallAsleep, TypeOK
<1>5. ASSUME NEW t \in Threads, TimeoutInThePast(t) PROVE TypeOK'
  <2>1. m_blockers' \in Seq(Threads)
    BY <1>a, <1>5, QueueOperations DEF TimeoutInThePast
  <2> QED
    BY <1>0, <1>5, <2>1 DEF TimeoutInThePast, TypeOK
<1>6. ASSUME NEW t \in Threads, WakeUp(t) PROVE TypeOK'
  BY <1>0, <1>6 DEF WakeUp, BlockResult, TypeOK
<1>7. ASSUME NEW t \in Threads, Return(t) PROVE TypeOK'
  BY <1>0, <1>a, <1>7, QueueOperations DEF Return, TypeOK
<1>8. ASSUME NEW t \in Threads, Die(t) PROVE TypeOK'
  BY <1>0, <1>8 DEF Die, TypeOK
<1>9. ASSUME NEW t \in Threads, TimerFires(t) PROVE TypeOK'
  BY <1>0, <1>9 DEF TimerFires, TypeOK
<1>10. ASSUME NEW t \in Threads, SendSignal(t) PROVE TypeOK'
  BY <1>0, <1>10 DEF SendSignal, TypeOK
<1>11. ASSUME NEW t \in Threads, SetShouldDie(t) PROVE TypeOK'
  BY <1>0, <1>11 DEF SetShouldDie, TypeOK
<1>12. ASSUME NEW w \in Wakers, NEW n \in 1..Cardinality(Threads), BeginWake(w, n) PROVE TypeOK'
  <2>1. WakeCall("iterating", n, FALSE, Nobody) \in WakerStates
    BY <1>0 DEF WakeCall, WakerStates
  <2> QED
    BY <1>0, <1>12, <2>1 DEF BeginWake, TypeOK
<1>13. ASSUME NEW w \in Wakers, Visit(w) PROVE TypeOK'
  <2>1. PICK i \in DOMAIN m_blockers :
            /\ m_did_unblock' = m_did_unblock \cup {m_blockers[i]}
            /\ m_is_blocking' = m_is_blocking \ {m_blockers[i]}
            /\ m_blockers' = RemoveAt(m_blockers, i)
            /\ waker' = [waker EXCEPT ![w] =
                  IF m_blockers[i] \in m_is_blocking
                    THEN WakeCall("unblocking", waker[w].left - 1, TRUE, m_blockers[i])
                    ELSE WakeCall("iterating", waker[w].left - 1, TRUE, Nobody)]
    BY <1>13 DEF Visit, Candidates
  <2>2. m_blockers' \in Seq(Threads) /\ m_blockers[i] \in Threads
    BY <1>a, <2>1, QueueOperations
  <2>3. waker[w].left - 1 \in 0..Cardinality(Threads)
    BY <1>0, <1>13 DEF Visit, TypeOK, WakerStates
  <2>4. waker' \in [Wakers -> WakerStates]
    <3>1. /\ WakeCall("unblocking", waker[w].left - 1, TRUE, m_blockers[i]) \in WakerStates
          /\ WakeCall("iterating", waker[w].left - 1, TRUE, Nobody) \in WakerStates
      BY <2>2, <2>3 DEF WakeCall, WakerStates
    <3> QED
      BY <1>0, <2>1, <3>1 DEF TypeOK
  <2> QED
    BY <1>0, <1>13, <2>1, <2>2, <2>4 DEF Visit, TypeOK
<1>14. ASSUME NEW w \in Wakers, UnblockFromBlocker(w) PROVE TypeOK'
  <2>1. waker' \in [Wakers -> WakerStates]
    <3>1. WakeCall("iterating", waker[w].left, waker[w].any, Nobody) \in WakerStates
      BY <1>0 DEF TypeOK, WakeCall, WakerStates
    <3> QED
      BY <1>0, <1>14, <3>1 DEF UnblockFromBlocker, TypeOK
  <2>2. /\ blocked' \subseteq Threads /\ m_blocker' \subseteq Threads
        /\ cause' \in [Threads -> {"none", "timer", "signal", "death", "waker"}]
    BY <1>0, <1>14 DEF UnblockFromBlocker, TypeOK
  <2> QED
    BY <1>0, <1>14, <2>1, <2>2 DEF UnblockFromBlocker, TypeOK
<1>15. ASSUME NEW w \in Wakers, EndWake(w) PROVE TypeOK'
  <2>1. Idle \in WakerStates
    BY <1>0 DEF Idle, WakeCall, WakerStates
  <2>2. m_wake_requested' \in BOOLEAN
    BY <1>15 DEF EndWake
  <2> QED
    BY <1>0, <1>15, <2>1, <2>2 DEF EndWake, TypeOK
<1> QED
  BY <1>1, <1>2, <1>3, <1>4, <1>5, <1>6, <1>7, <1>8, <1>9, <1>10, <1>11, <1>12, <1>13,
     <1>14, <1>15 DEF Next

\* Every step takes and releases the spinlocks with its critical section.
LEMMA LocksStep == WaitInv /\ [Next]_vars => LocksInv'
<1> SUFFICES ASSUME WaitInv, [Next]_vars PROVE LocksInv'
  OBVIOUS
<1> USE WaitQueueAssumption
<1>0. TypeOK /\ LocksInv
  BY DEF WaitInv
<1>1. CASE UNCHANGED vars
  BY <1>0, <1>1 DEF vars, TypeOK, WakerStates, LocksInv
<1>2. ASSUME NEW t \in Threads, BeginBlock(t) PROVE LocksInv'
  BY <1>0, <1>2 DEF BeginBlock, TypeOK, WakerStates, LocksInv
<1>3. ASSUME NEW t \in Threads, SetupBlocker(t) PROVE LocksInv'
  BY <1>0, <1>3 DEF SetupBlocker, TypeOK, WakerStates, LocksInv
<1>4. ASSUME NEW t \in Threads, FallAsleep(t) PROVE LocksInv'
  BY <1>0, <1>4 DEF FallAsleep, TypeOK, WakerStates, LocksInv
<1>5. ASSUME NEW t \in Threads, TimeoutInThePast(t) PROVE LocksInv'
  BY <1>0, <1>5 DEF TimeoutInThePast, TypeOK, WakerStates, LocksInv
<1>6. ASSUME NEW t \in Threads, WakeUp(t) PROVE LocksInv'
  BY <1>0, <1>6 DEF WakeUp, TypeOK, WakerStates, LocksInv
<1>7. ASSUME NEW t \in Threads, Return(t) PROVE LocksInv'
  BY <1>0, <1>7 DEF Return, TypeOK, WakerStates, LocksInv
<1>8. ASSUME NEW t \in Threads, Die(t) PROVE LocksInv'
  BY <1>0, <1>8 DEF Die, TypeOK, WakerStates, LocksInv
<1>9. ASSUME NEW t \in Threads, TimerFires(t) PROVE LocksInv'
  BY <1>0, <1>9 DEF TimerFires, TypeOK, WakerStates, LocksInv
<1>10. ASSUME NEW t \in Threads, SendSignal(t) PROVE LocksInv'
  BY <1>0, <1>10 DEF SendSignal, TypeOK, WakerStates, LocksInv
<1>11. ASSUME NEW t \in Threads, SetShouldDie(t) PROVE LocksInv'
  BY <1>0, <1>11 DEF SetShouldDie, TypeOK, WakerStates, LocksInv
<1>12. ASSUME NEW w \in Wakers, NEW n \in 1..Cardinality(Threads), BeginWake(w, n) PROVE LocksInv'
  BY <1>0, <1>12 DEF BeginWake, WakeCall, TypeOK, WakerStates, LocksInv
<1>13. ASSUME NEW w \in Wakers, Visit(w) PROVE LocksInv'
  BY <1>0, <1>13 DEF Visit, Candidates, WakeCall, TypeOK, WakerStates, LocksInv
<1>14. ASSUME NEW w \in Wakers, UnblockFromBlocker(w) PROVE LocksInv'
  BY <1>0, <1>14 DEF UnblockFromBlocker, WakeCall, TypeOK, WakerStates, LocksInv
<1>15. ASSUME NEW w \in Wakers, EndWake(w) PROVE LocksInv'
  BY <1>0, <1>15 DEF EndWake, Idle, WakeCall, TypeOK, WakerStates, LocksInv
<1> QED
  BY <1>1, <1>2, <1>3, <1>4, <1>5, <1>6, <1>7, <1>8, <1>9, <1>10, <1>11, <1>12, <1>13,
     <1>14, <1>15 DEF Next

\* Every step leaves only blockers in the queue that were not told to unblock.
LEMMA QueueStep == WaitInv /\ [Next]_vars => QueueInv'
<1> SUFFICES ASSUME WaitInv, [Next]_vars PROVE QueueInv'
  OBVIOUS
<1> USE WaitQueueAssumption
<1>0. TypeOK /\ QueueInv
  BY DEF WaitInv
<1>a. m_blockers \in Seq(Threads) /\ IsInjective(m_blockers) /\ Range(m_blockers) \subseteq Threads
  BY <1>0 DEF TypeOK, QueueInv, Range
<1>1. CASE UNCHANGED vars
  BY <1>0, <1>1 DEF vars, TypeOK, WakerStates, QueueInv
<1>2. ASSUME NEW t \in Threads, BeginBlock(t) PROVE QueueInv'
  BY <1>0, <1>2 DEF BeginBlock, TypeOK, WakerStates, QueueInv
<1>3. ASSUME NEW t \in Threads, SetupBlocker(t) PROVE QueueInv'
  <2>1. t \notin Range(m_blockers) /\ t \notin m_did_unblock /\ t \notin timer
    BY <1>0, <1>3 DEF SetupBlocker, QueueInv
  <2>2. /\ IsInjective(m_blockers') /\ Range(m_blockers') \subseteq Range(m_blockers) \cup {t}
        /\ m_wake_requested' => Range(m_blockers') = {}
        /\ t \in Range(m_blockers') => pc'[t] = "added"
    <3>1. CASE m_wake_requested
      BY <1>0, <1>3, <2>1, <3>1 DEF SetupBlocker, QueueInv
    <3>2. CASE ~m_wake_requested
      <4>1. m_blockers' = Append(m_blockers, t) /\ m_wake_requested' = m_wake_requested
        BY <1>3, <3>2 DEF SetupBlocker
      <4>2. pc'[t] = "added"
        BY <1>0, <1>3, <3>2 DEF SetupBlocker, TypeOK
      <4> QED
        BY <1>a, <2>1, <3>2, <4>1, <4>2, QueueOperations
    <3> QED
      BY <3>1, <3>2
  <2> QED
    BY <1>0, <1>a, <1>3, <2>1, <2>2 DEF SetupBlocker, TypeOK, QueueInv
<1>4. ASSUME NEW t \in Threads, FallAsleep(t) PROVE QueueInv'
  BY <1>0, <1>4 DEF FallAsleep, TypeOK, WakerStates, QueueInv
<1>5. ASSUME NEW t \in Threads, TimeoutInThePast(t) PROVE QueueInv'
  <2>1. IsInjective(m_blockers') /\ Range(m_blockers') = Range(m_blockers) \ {t}
    BY <1>a, <1>5, QueueOperations DEF TimeoutInThePast
  <2> QED
    BY <1>0, <1>a, <1>5, <2>1 DEF TimeoutInThePast, TypeOK, QueueInv
<1>6. ASSUME NEW t \in Threads, WakeUp(t) PROVE QueueInv'
  BY <1>0, <1>6 DEF WakeUp, TypeOK, WakerStates, QueueInv
<1>7. ASSUME NEW t \in Threads, Return(t) PROVE QueueInv'
  <2>1. IsInjective(m_blockers') /\ Range(m_blockers') = Range(m_blockers) \ {t}
    BY <1>a, <1>7, QueueOperations DEF Return
  <2> QED
    BY <1>0, <1>a, <1>7, <2>1 DEF Return, TypeOK, QueueInv
<1>8. ASSUME NEW t \in Threads, Die(t) PROVE QueueInv'
  BY <1>0, <1>8 DEF Die, TypeOK, WakerStates, QueueInv
<1>9. ASSUME NEW t \in Threads, TimerFires(t) PROVE QueueInv'
  BY <1>0, <1>9 DEF TimerFires, TypeOK, WakerStates, QueueInv
<1>10. ASSUME NEW t \in Threads, SendSignal(t) PROVE QueueInv'
  BY <1>0, <1>10 DEF SendSignal, TypeOK, WakerStates, QueueInv
<1>11. ASSUME NEW t \in Threads, SetShouldDie(t) PROVE QueueInv'
  BY <1>0, <1>11 DEF SetShouldDie, TypeOK, WakerStates, QueueInv
<1>12. ASSUME NEW w \in Wakers, NEW n \in 1..Cardinality(Threads), BeginWake(w, n) PROVE QueueInv'
  BY <1>0, <1>12 DEF BeginWake, WakeCall, TypeOK, WakerStates, QueueInv
<1>13. ASSUME NEW w \in Wakers, Visit(w) PROVE QueueInv'
  <2>1. PICK i \in DOMAIN m_blockers :
            /\ m_did_unblock' = m_did_unblock \cup {m_blockers[i]}
            /\ m_blockers' = RemoveAt(m_blockers, i)
            /\ waker'[w].any = TRUE /\ \A v \in Wakers : v # w => waker'[v] = waker[v]
    BY <1>0, <1>13 DEF Visit, Candidates, WakeCall, TypeOK
  <2>2. /\ IsInjective(m_blockers') /\ Range(m_blockers') = Range(m_blockers) \ {m_blockers[i]}
        /\ m_blockers[i] \in Range(m_blockers)
    BY <1>a, <2>1, QueueOperations
  <2>3. pc' = pc /\ timer' = timer /\ m_wake_requested' = m_wake_requested
    BY <1>13 DEF Visit
  <2> QED
    BY <1>0, <2>1, <2>2, <2>3 DEF QueueInv
<1>14. ASSUME NEW w \in Wakers, UnblockFromBlocker(w) PROVE QueueInv'
  BY <1>0, <1>14 DEF UnblockFromBlocker, WakeCall, TypeOK, WakerStates, QueueInv
<1>15. ASSUME NEW w \in Wakers, EndWake(w) PROVE QueueInv'
  <2>1. m_blockers' = m_blockers /\ m_did_unblock' = m_did_unblock /\ pc' = pc /\ timer' = timer
    BY <1>15 DEF EndWake
  <2>2. m_wake_requested' => Range(m_blockers) = {}
    <3>1. SUFFICES ASSUME ~waker[w].any PROVE Range(m_blockers) = {}
      BY <1>15 DEF EndWake
    <3>2. Candidates = {}
      BY <1>0, <1>15, <3>1 DEF EndWake, QueueInv, TypeOK, WakerStates
    <3> QED
      BY <1>0, <3>2 DEF Candidates, QueueInv, Range
  <2>3. \A v \in Wakers : v # w => waker'[v] = waker[v]
    BY <1>0, <1>15 DEF EndWake, TypeOK
  <2>4. waker'[w].at = "idle"
    BY <1>0, <1>15 DEF EndWake, Idle, WakeCall, TypeOK
  <2> QED
    BY <1>0, <2>1, <2>2, <2>3, <2>4 DEF QueueInv
<1> QED
  BY <1>1, <1>2, <1>3, <1>4, <1>5, <1>6, <1>7, <1>8, <1>9, <1>10, <1>11, <1>12, <1>13,
     <1>14, <1>15 DEF Next

\* Every step changes the state of a thread together with its blocker.
LEMMA SleepStep == WaitInv /\ [Next]_vars => SleepInv'
<1> SUFFICES ASSUME WaitInv, [Next]_vars PROVE SleepInv'
  OBVIOUS
<1>0. TypeOK /\ SleepInv
  BY DEF WaitInv
<1>1. CASE UNCHANGED vars
  BY <1>0, <1>1 DEF vars, TypeOK, SleepInv
<1>2. ASSUME NEW t \in Threads, BeginBlock(t) PROVE SleepInv'
  BY <1>0, <1>2 DEF BeginBlock, TypeOK, SleepInv
<1>3. ASSUME NEW t \in Threads, SetupBlocker(t) PROVE SleepInv'
  <2>1. t \notin blocked
    BY <1>0, <1>3 DEF SetupBlocker, SleepInv
  <2> QED
    BY <1>0, <1>3, <2>1 DEF SetupBlocker, TypeOK, SleepInv
<1>4. ASSUME NEW t \in Threads, FallAsleep(t) PROVE SleepInv'
  BY <1>0, <1>4 DEF FallAsleep, TypeOK, SleepInv
<1>5. ASSUME NEW t \in Threads, TimeoutInThePast(t) PROVE SleepInv'
  BY <1>0, <1>5 DEF TimeoutInThePast, TypeOK, SleepInv
<1>6. ASSUME NEW t \in Threads, WakeUp(t) PROVE SleepInv'
  BY <1>0, <1>6 DEF WakeUp, TypeOK, SleepInv
<1>7. ASSUME NEW t \in Threads, Return(t) PROVE SleepInv'
  BY <1>0, <1>7 DEF Return, TypeOK, SleepInv
<1>8. ASSUME NEW t \in Threads, Die(t) PROVE SleepInv'
  BY <1>0, <1>8 DEF Die, TypeOK, SleepInv
<1>9. ASSUME NEW t \in Threads, TimerFires(t) PROVE SleepInv'
  BY <1>0, <1>9 DEF TimerFires, TypeOK, SleepInv
<1>10. ASSUME NEW t \in Threads, SendSignal(t) PROVE SleepInv'
  BY <1>0, <1>10 DEF SendSignal, TypeOK, SleepInv
<1>11. ASSUME NEW t \in Threads, SetShouldDie(t) PROVE SleepInv'
  BY <1>0, <1>11 DEF SetShouldDie, TypeOK, SleepInv
<1>12. ASSUME NEW w \in Wakers, NEW n \in 1..Cardinality(Threads), BeginWake(w, n) PROVE SleepInv'
  BY <1>0, <1>12 DEF BeginWake, WakeCall, TypeOK, SleepInv
<1>13. ASSUME NEW w \in Wakers, Visit(w) PROVE SleepInv'
  BY <1>0, <1>13 DEF Visit, Candidates, WakeCall, TypeOK, SleepInv
<1>14. ASSUME NEW w \in Wakers, UnblockFromBlocker(w) PROVE SleepInv'
  BY <1>0, <1>14 DEF UnblockFromBlocker, WakeCall, TypeOK, SleepInv
<1>15. ASSUME NEW w \in Wakers, EndWake(w) PROVE SleepInv'
  BY <1>0, <1>15 DEF EndWake, Idle, WakeCall, TypeOK, SleepInv
<1> QED
  BY <1>1, <1>2, <1>3, <1>4, <1>5, <1>6, <1>7, <1>8, <1>9, <1>10, <1>11, <1>12, <1>13,
     <1>14, <1>15 DEF Next

\* Every step that makes a thread runnable leaves one mark, and block_impl()
\* reports the mark that it finds.
LEMMA CauseStep == WaitInv /\ [Next]_vars => CauseInv' /\ ResultTellsCause'
<1> SUFFICES ASSUME WaitInv, [Next]_vars PROVE CauseInv' /\ ResultTellsCause'
  OBVIOUS
<1>0. TypeOK /\ SleepInv /\ CauseInv /\ ResultTellsCause
  BY DEF WaitInv
<1> USE DEF Marks
<1>1. CASE UNCHANGED vars
  BY <1>0, <1>1 DEF vars, TypeOK, SleepInv, CauseInv, ResultTellsCause
<1>2. ASSUME NEW t \in Threads, BeginBlock(t) PROVE CauseInv' /\ ResultTellsCause'
  BY <1>0, <1>2 DEF BeginBlock, TypeOK, SleepInv, CauseInv, ResultTellsCause
<1>3. ASSUME NEW t \in Threads, SetupBlocker(t) PROVE CauseInv' /\ ResultTellsCause'
  BY <1>0, <1>3 DEF SetupBlocker, TypeOK, SleepInv, CauseInv, ResultTellsCause
<1>4. ASSUME NEW t \in Threads, FallAsleep(t) PROVE CauseInv' /\ ResultTellsCause'
  BY <1>0, <1>4 DEF FallAsleep, TypeOK, SleepInv, CauseInv, ResultTellsCause
<1>5. ASSUME NEW t \in Threads, TimeoutInThePast(t) PROVE CauseInv' /\ ResultTellsCause'
  BY <1>0, <1>5 DEF TimeoutInThePast, TypeOK, SleepInv, CauseInv, ResultTellsCause
<1>6. ASSUME NEW t \in Threads, WakeUp(t) PROVE CauseInv' /\ ResultTellsCause'
  BY <1>0, <1>6 DEF WakeUp, BlockResult, TypeOK, SleepInv, CauseInv, ResultTellsCause
<1>7. ASSUME NEW t \in Threads, Return(t) PROVE CauseInv' /\ ResultTellsCause'
  BY <1>0, <1>7 DEF Return, TypeOK, SleepInv, CauseInv, ResultTellsCause
<1>8. ASSUME NEW t \in Threads, Die(t) PROVE CauseInv' /\ ResultTellsCause'
  BY <1>0, <1>8 DEF Die, TypeOK, SleepInv, CauseInv, ResultTellsCause
<1>9. ASSUME NEW t \in Threads, TimerFires(t) PROVE CauseInv' /\ ResultTellsCause'
  BY <1>0, <1>9 DEF TimerFires, TypeOK, SleepInv, CauseInv, ResultTellsCause
<1>10. ASSUME NEW t \in Threads, SendSignal(t) PROVE CauseInv' /\ ResultTellsCause'
  BY <1>0, <1>10 DEF SendSignal, TypeOK, SleepInv, CauseInv, ResultTellsCause
<1>11. ASSUME NEW t \in Threads, SetShouldDie(t) PROVE CauseInv' /\ ResultTellsCause'
  BY <1>0, <1>11 DEF SetShouldDie, TypeOK, SleepInv, CauseInv, ResultTellsCause
<1>12. ASSUME NEW w \in Wakers, NEW n \in 1..Cardinality(Threads), BeginWake(w, n) PROVE CauseInv' /\ ResultTellsCause'
  BY <1>0, <1>12 DEF BeginWake, WakeCall, TypeOK, SleepInv, CauseInv, ResultTellsCause
<1>13. ASSUME NEW w \in Wakers, Visit(w) PROVE CauseInv' /\ ResultTellsCause'
  BY <1>0, <1>13 DEF Visit, Candidates, WakeCall, TypeOK, SleepInv, CauseInv, ResultTellsCause
<1>14. ASSUME NEW w \in Wakers, UnblockFromBlocker(w) PROVE CauseInv' /\ ResultTellsCause'
  BY <1>0, <1>14 DEF UnblockFromBlocker, WakeCall, TypeOK, SleepInv, CauseInv, ResultTellsCause
<1>15. ASSUME NEW w \in Wakers, EndWake(w) PROVE CauseInv' /\ ResultTellsCause'
  BY <1>0, <1>15 DEF EndWake, Idle, WakeCall, TypeOK, SleepInv, CauseInv, ResultTellsCause
<1> QED
  BY <1>1, <1>2, <1>3, <1>4, <1>5, <1>6, <1>7, <1>8, <1>9, <1>10, <1>11, <1>12, <1>13,
     <1>14, <1>15 DEF Next

\* On one processor no step of a waker falls between the registration of a
\* blocker and the sleep.
LEMMA OneProcessorStep ==
    ASSUME ~SMP
    PROVE  WaitInv /\ OneProcessorInv /\ [Next]_vars => OneProcessorInv'
<1> SUFFICES ASSUME WaitInv, OneProcessorInv, [Next]_vars PROVE OneProcessorInv'
  OBVIOUS
<1> USE WaitQueueAssumption
<1>0. TypeOK /\ LocksInv /\ QueueInv /\ SleepInv
  BY DEF WaitInv
<1>1. CASE UNCHANGED vars
  BY <1>0, <1>1 DEF vars, OneProcessorInv, NoLostWakeup
<1>2. ASSUME NEW t \in Threads, BeginBlock(t) PROVE OneProcessorInv'
  BY <1>0, <1>2 DEF BeginBlock, MayRun, TypeOK, OneProcessorInv, NoLostWakeup
<1>3. ASSUME NEW t \in Threads, SetupBlocker(t) PROVE OneProcessorInv'
  BY <1>0, <1>3 DEF SetupBlocker, TypeOK, QueueInv, OneProcessorInv, NoLostWakeup
<1>4. ASSUME NEW t \in Threads, FallAsleep(t) PROVE OneProcessorInv'
  BY <1>0, <1>4 DEF FallAsleep, TypeOK, OneProcessorInv, NoLostWakeup
<1>5. ASSUME NEW t \in Threads, TimeoutInThePast(t) \/ Return(t) PROVE OneProcessorInv'
  BY <1>0, <1>5 DEF TimeoutInThePast, Return, TypeOK, OneProcessorInv, NoLostWakeup
<1>6. ASSUME NEW t \in Threads, WakeUp(t) \/ Die(t) PROVE OneProcessorInv'
  BY <1>0, <1>6 DEF WakeUp, Die, TypeOK, OneProcessorInv, NoLostWakeup
<1>7. ASSUME NEW t \in Threads, TimerFires(t) \/ SendSignal(t) \/ SetShouldDie(t)
      PROVE OneProcessorInv'
  <2>1. /\ UNCHANGED <<pc, g_scheduler_lock, queue_lock, m_did_unblock, waker>>
        /\ blocked' \subseteq blocked
    BY <1>7 DEF TimerFires, SendSignal, SetShouldDie
  <2> QED
    BY <2>1 DEF OneProcessorInv, NoLostWakeup
<1>8. ASSUME NEW w \in Wakers, NEW n \in 1..Cardinality(Threads), BeginWake(w, n)
      PROVE OneProcessorInv'
  <2>1. /\ UNCHANGED <<pc, g_scheduler_lock, m_did_unblock, blocked>>
        /\ waker[w].at = "idle" /\ \A v \in Wakers : v # w => waker'[v] = waker[v]
    BY <1>0, <1>8 DEF BeginWake, TypeOK
  <2>2. g_scheduler_lock = Nobody
    BY <1>0, <1>8 DEF BeginWake, MayRun, TypeOK
  <2> QED
    BY <2>1, <2>2 DEF OneProcessorInv, NoLostWakeup
<1>9. ASSUME NEW w \in Wakers, Visit(w) PROVE OneProcessorInv'
  <2>1. PICK i \in Candidates :
            /\ m_did_unblock' = m_did_unblock \cup {m_blockers[i]}
            /\ m_blockers[i] \in m_is_blocking =>
                  waker'[w].at = "unblocking" /\ waker'[w].target = m_blockers[i]
    BY <1>0, <1>9 DEF Visit, WakeCall, TypeOK
  <2>2. /\ UNCHANGED <<pc, g_scheduler_lock, queue_lock, blocked>>
        /\ waker[w].at = "iterating" /\ \A v \in Wakers : v # w => waker'[v] = waker[v]
    BY <1>0, <1>9 DEF Visit, TypeOK
  <2>3. m_blockers[i] \in Threads /\ m_blockers[i] \notin m_did_unblock
    BY <1>0, <2>1 DEF Candidates, TypeOK
  <2>4. g_scheduler_lock = Nobody
    BY <1>0, <1>9 DEF Visit, MayRun, TypeOK
  <2>5. pc[m_blockers[i]] # "added"
    BY <1>0, <2>3, <2>4 DEF LocksInv
  <2>6. m_blockers[i] \in blocked => m_blockers[i] \in m_is_blocking
    BY <1>0, <2>3 DEF SleepInv
  <2> QED
    BY <2>1, <2>2, <2>3, <2>5, <2>6 DEF OneProcessorInv, NoLostWakeup
<1>10. ASSUME NEW w \in Wakers, UnblockFromBlocker(w) PROVE OneProcessorInv'
  <2>1. /\ UNCHANGED <<pc, g_scheduler_lock, queue_lock, m_did_unblock>>
        /\ blocked' \subseteq blocked /\ waker[w].target \notin blocked'
        /\ \A v \in Wakers : v # w => waker'[v] = waker[v]
    BY <1>0, <1>10 DEF UnblockFromBlocker, TypeOK, SleepInv
  <2> QED
    BY <2>1 DEF OneProcessorInv, NoLostWakeup
<1>11. ASSUME NEW w \in Wakers, EndWake(w) PROVE OneProcessorInv'
  <2>1. /\ UNCHANGED <<pc, g_scheduler_lock, m_did_unblock, blocked>> /\ queue_lock' = Nobody
        /\ waker[w].at = "iterating" /\ \A v \in Wakers : v # w => waker'[v] = waker[v]
    BY <1>0, <1>11 DEF EndWake, TypeOK
  <2> QED
    BY <2>1 DEF OneProcessorInv, NoLostWakeup
<1> QED
  BY <1>1, <1>2, <1>3, <1>4, <1>5, <1>6, <1>7, <1>8, <1>9, <1>10, <1>11 DEF Next

-----------------------------------------------------------------------------
\* The invariants hold in every reachable state.
THEOREM WaitInvHolds == Spec => []WaitInv
<1>1. WaitInv /\ [Next]_vars => WaitInv'
  BY TypeStep, LocksStep, QueueStep, SleepStep, CauseStep DEF WaitInv
<1> QED
  BY InitialState, <1>1, PTL DEF Spec

\* On one processor, the invariant that needs it, too.
THEOREM OneProcessorInvHolds ==
    ASSUME ~SMP
    PROVE  Spec => []OneProcessorInv
<1>1. WaitInv /\ OneProcessorInv /\ [Next]_vars => OneProcessorInv'
  BY OneProcessorStep
<1> QED
  BY InitialState, WaitInvHolds, <1>1, PTL DEF Spec

\* On any number of processors the queue, the stacks and the states of the
\* threads agree about every blocker, and a wake-up is remembered only if
\* nobody waits.
THEOREM BlockersAreSoundHolds == Spec => []BlockersAreSound
<1>1. WaitInv => BlockersAreSound
  <2> SUFFICES ASSUME WaitInv PROVE BlockersAreSound
    OBVIOUS
  <2>1. TypeOK /\ QueueInv /\ SleepInv
    BY DEF WaitInv
  <2>2. \A i \in DOMAIN m_blockers : m_blockers[i] \in Range(m_blockers)
    BY DEF Range
  <2>3. RememberedOnlyIfEmpty
    <3>1. m_wake_requested => DOMAIN m_blockers = {}
      BY <2>1, <2>2 DEF QueueInv
    <3>2. m_blockers \in Seq(Threads)
      BY <2>1 DEF TypeOK
    <3> QED
      BY <3>1, <3>2 DEF RememberedOnlyIfEmpty
  <2>4. NoDanglingBlocker
    BY <2>1, <2>2 DEF QueueInv, IsInjective, NoDanglingBlocker
  <2>5. SleeperHasBlocker
    BY <2>1 DEF SleepInv, SleeperHasBlocker
  <2> QED
    BY <2>1, <2>3, <2>4, <2>5 DEF BlockersAreSound
<1> QED
  BY WaitInvHolds, <1>1, PTL

\* On any number of processors block_impl() reports what ended the sleep,
\* however its timer, a signal, a kill and a waker race.
THEOREM ResultTellsCauseHolds == Spec => []ResultTellsCause
<1>1. WaitInv => ResultTellsCause
  BY DEF WaitInv
<1> QED
  BY WaitInvHolds, <1>1, PTL

\* On one processor a thread whose blocker was told to unblock does not sleep
\* on.
THEOREM NoLostWakeupHolds ==
    ASSUME ~SMP
    PROVE  Spec => []NoLostWakeup
<1>1. OneProcessorInv => NoLostWakeup
  BY DEF OneProcessorInv
<1> QED
  BY OneProcessorInvHolds, <1>1, PTL
=============================================================================
