----------------------------- MODULE FutexProofs -----------------------------
(***************************************************************************)
(* Proofs about Futex.  For any number of processes, threads and bits: the *)
(* queues are counted exactly, found by those who need them and removed by *)
(* the last to leave.  For the threads of one process, without bitsets:    *)
(* the system call implements FutexSpec, on which the proofs about the     *)
(* mutexes, condition variables and semaphores of LibC rest.               *)
(***************************************************************************)
EXTENDS Futex, ListTheorems, FiniteSetTheorems

\* Who counts as an imminent wait on a queue.
Waiting(q) == {t \in Threads : pc[t] = "wait" /\ futex_queue[t] = q}

\* A queue that somebody refers to is in the table or was removed from it.
HeldInv ==
    \A t \in Threads :
        /\ futex_queue[t] # Nothing =>
              futex_queue[t] = s_global_futex_queues \/ futex_queue[t] \in m_was_removed
        /\ pc[t] \in {"imminent", "wait", "sleep", "done", "wake"} => futex_queue[t] # Nothing

\* The blockers in a queue are those of threads that sleep on it.
BlockersInv ==
    \A q \in Queues :
        /\ IsInjective(m_blockers[q])
        /\ \A t \in Range(m_blockers[q]) : pc[t] = "sleep" /\ futex_queue[t] = q

\* Somebody is going to look whether the queue in the table is still needed.
LastToLeaveInv ==
    s_global_futex_queues # Nothing => \E t \in Threads : pc[t] \in {"wait", "sleep", "done", "remove"}

QueueInv ==
    /\ TypeOK /\ HeldInv /\ BlockersInv /\ LastToLeaveInv
    /\ NoDetachedWaiter /\ ImminentWaitsAreExact /\ NoRemovedQueueInTable

USE DEF queues, args, sleep

-----------------------------------------------------------------------------
\* A subsequence has the elements at the places it is taken from, each once.
LEMMA SubsequenceElements ==
    ASSUME NEW S, NEW s \in Seq(S), NEW I \in SUBSET DOMAIN s
    PROVE  /\ Subsequence(s, I) \in Seq(S)
           /\ Range(Subsequence(s, I)) = {s[i] : i \in I}
           /\ IsInjective(s) => IsInjective(Subsequence(s, I))
           /\ I = {} => Subsequence(s, I) = <<>>
<1>. DEFINE n == Cardinality(I)
            upto(i) == {j \in I : j <= i}
            rank == [i \in I |-> Cardinality(upto(i))]
            place(k) == CHOOSE i \in I : Cardinality(upto(i)) = k
            r == Subsequence(s, I)
<1>1. Len(s) \in Nat /\ DOMAIN s = 1..Len(s) /\ \A i \in 1..Len(s) : s[i] \in S
  BY ListElements
<1>2. IsFiniteSet(I) /\ n \in Nat /\ IsFiniteSet(1..n) /\ Cardinality(1..n) = n
  <2>1. 1 \in Int /\ Len(s) \in Int BY <1>1
  <2>2. IsFiniteSet(1..Len(s)) BY <2>1, FS_Interval
  <2>3. IsFiniteSet(I) BY <1>1, <2>2, FS_Subset
  <2>4. n \in Nat BY <2>3, FS_CardinalityType
  <2>. HIDE DEF n
  <2>5. 1 \in Int /\ n \in Int BY <2>4
  <2>6. IsFiniteSet(1..n) /\ Cardinality(1..n) = IF 1 > n THEN 0 ELSE n-1+1
    BY <2>5, FS_Interval
  <2>7. Cardinality(1..n) = n BY <2>4, <2>6
  <2>. QED BY <2>3, <2>4, <2>6, <2>7
<1>3. \A i \in I : i \in Int /\ upto(i) \subseteq I /\ i \in upto(i)
  BY <1>1
<1>4. ASSUME NEW i \in I PROVE Cardinality(upto(i)) \in 1..n
  <2>1. IsFiniteSet(upto(i)) /\ Cardinality(upto(i)) <= n
    BY <1>2, <1>3, FS_Subset
  <2>2. upto(i) # {} BY <1>3
  <2>3. Cardinality(upto(i)) \in Nat /\ Cardinality(upto(i)) # 0
    BY <2>1, <2>2, FS_CardinalityType, FS_EmptySet
  <2>. QED BY <1>2, <2>1, <2>3
<1>5. ASSUME NEW i \in I, NEW k \in I, Cardinality(upto(i)) = Cardinality(upto(k)) PROVE i = k
  <2>1. ASSUME NEW a \in I, NEW b \in I, a <= b, Cardinality(upto(a)) = Cardinality(upto(b)) PROVE a = b
    <3>1. upto(a) \subseteq upto(b) BY <1>1, <1>3, <2>1
    <3>2. IsFiniteSet(upto(b)) BY <1>2, <1>3, FS_Subset
    <3>3. upto(a) = upto(b) BY <2>1, <3>1, <3>2, FS_Subset
    <3>4. b \in upto(a) BY <1>3, <3>3
    <3>. QED BY <1>3, <2>1, <3>4
  <2>2. i <= k \/ k <= i BY <1>3
  <2>. QED BY <1>5, <2>1, <2>2
<1>. HIDE DEF n, upto
<1>6. rank \in Injection(I, 1..n)
  <2>1. rank \in [I -> 1..n] /\ \A i \in I : rank[i] = Cardinality(upto(i))
    BY <1>4
  <2>. HIDE DEF rank
  <2>. QED BY <1>5, <2>1 DEF Injection, IsInjective
<1>7. rank \in Surjection(I, 1..n)
  <2>1. n = Cardinality(I) BY DEF n
  <2>. HIDE DEF rank
  <2>. QED BY <1>2, <1>6, <2>1, FS_Injection
<1>8. \A k \in 1..n : place(k) \in I /\ Cardinality(upto(place(k))) = k
  BY <1>7 DEF Surjection
<1>9. \A i \in I : \E k \in 1..n : place(k) = i
  <2>. TAKE i \in I
  <2>1. Cardinality(upto(i)) \in 1..n BY <1>4
  <2>2. place(Cardinality(upto(i))) = i BY <1>5, <1>8, <2>1
  <2>. QED BY <2>1, <2>2
<1>10. r = [k \in 1..n |-> s[place(k)]]
  BY DEF Subsequence, n, upto
<1>. HIDE DEF place
<1>11. r \in Seq(S) /\ DOMAIN r = 1..n /\ \A k \in 1..n : r[k] = s[place(k)]
  BY <1>1, <1>2, <1>8, <1>10
<1>. HIDE DEF r
<1>12. Range(r) = {s[i] : i \in I}
  BY <1>8, <1>9, <1>11 DEF Range
<1>13. ASSUME IsInjective(s) PROVE IsInjective(r)
  BY <1>8, <1>11, <1>13 DEF IsInjective
<1>14. ASSUME I = {} PROVE r = <<>>
  <2>1. n = 0 BY <1>14, FS_EmptySet DEF n
  <2>. QED BY <1>11, <2>1
<1>. QED BY <1>11, <1>12, <1>13, <1>14 DEF r

-----------------------------------------------------------------------------
\* The initial state satisfies the invariant.
LEMMA InitialState == Init => QueueInv
<1>. SUFFICES ASSUME Init PROVE QueueInv
  OBVIOUS
<1>1. AnyValue \in Values
  BY FutexAssumption DEF AnyValue
<1>2. Cardinality(Threads) \in Nat
  BY FutexAssumption, FS_CardinalityType
<1>3. TypeOK
  <2>1. m_blockers \in [Queues -> Seq(Threads)] BY DEF Init
  <2>2. count \in [Threads -> 0..Cardinality(Threads)] BY <1>2 DEF Init
  <2>. QED BY <1>1, <2>1, <2>2 DEF Init, TypeOK
<1>4. \A q \in Queues : DOMAIN m_blockers[q] = {}
  BY DEF Init
<1>5. HeldInv /\ BlockersInv /\ LastToLeaveInv /\ NoDetachedWaiter
  BY <1>4 DEF Init, HeldInv, BlockersInv, LastToLeaveInv, NoDetachedWaiter,
              IsEmptyAndNoImminentWaits, IsInjective, Range
<1>6. ImminentWaitsAreExact
  <2>1. \A q \in Queues : {t \in Threads : pc[t] = "wait" /\ futex_queue[t] = q} = {}
    BY DEF Init
  <2>. QED BY <2>1, FS_EmptySet DEF Init, ImminentWaitsAreExact
<1>7. NoRemovedQueueInTable
  BY DEF Init, NoRemovedQueueInTable
<1>. QED BY <1>3, <1>5, <1>6, <1>7 DEF QueueInv

\* A thread of any process is a thread of its process.
LEMMA ProcessOfThread == \A t \in Threads : ProcessOf(t) \in Processes /\ t \in ProcessOf(t)
  BY DEF Threads, ProcessOf

\* The blocker of a thread that does not sleep is in no queue.
LEMMA BlockersSleep ==
    ASSUME QueueInv, NEW t, pc[t] # "sleep"
    PROVE  \A p \in Queues : \A u \in Range(m_blockers[p]) : u \in Threads /\ u # t
<1>. TAKE p \in Queues
<1>. TAKE u \in Range(m_blockers[p])
<1>1. m_blockers[p] \in Seq(Threads)
  BY DEF QueueInv, TypeOK
<1>2. u \in Threads
  BY <1>1 DEF Range
<1>. QED BY <1>2 DEF QueueInv, BlockersInv

\* A step of t that leaves the queues alone and is not about a wait.
LEMMA OutsideQueues ==
    ASSUME QueueInv, NEW t \in Threads, TypeOK', UNCHANGED queues,
           \A u \in Threads : u # t => pc'[u] = pc[u] /\ futex_queue'[u] = futex_queue[u],
           pc[t] \notin {"wait", "sleep"}, pc'[t] \notin {"wait", "sleep"},
           futex_queue'[t] \in {futex_queue[t], Nothing, s_global_futex_queues},
           pc'[t] \in {"imminent", "done", "wake"} => futex_queue'[t] # Nothing,
           LastToLeaveInv'
    PROVE  QueueInv'
<1>1. HeldInv'
  BY DEF QueueInv, HeldInv
<1>2. BlockersInv'
  <2>1. \A p \in Queues : \A u \in Range(m_blockers[p]) : u \in Threads /\ u # t
    BY BlockersSleep
  <2>. QED BY <2>1 DEF QueueInv, BlockersInv
<1>3. NoDetachedWaiter' /\ NoRemovedQueueInTable'
  BY DEF QueueInv, NoDetachedWaiter, NoRemovedQueueInTable, IsEmptyAndNoImminentWaits
<1>4. ImminentWaitsAreExact'
  <2>1. \A q : {u \in Threads : pc'[u] = "wait" /\ futex_queue'[u] = q}
             = {u \in Threads : pc[u] = "wait" /\ futex_queue[u] = q}
    OBVIOUS
  <2>. QED BY <2>1 DEF QueueInv, ImminentWaitsAreExact
<1>. QED BY <1>1, <1>2, <1>3, <1>4 DEF QueueInv

\* A step that leaves the queues and the calls alone.
LEMMA OutsideCalls ==
    ASSUME QueueInv, TypeOK', UNCHANGED <<queues, pc, futex_queue>>
    PROVE  QueueInv'
  BY DEF QueueInv, HeldInv, BlockersInv, LastToLeaveInv, NoDetachedWaiter, NoRemovedQueueInTable,
         IsEmptyAndNoImminentWaits, ImminentWaitsAreExact

-----------------------------------------------------------------------------
\* The imminent waits of a queue are counted by a finite set.
LEMMA WaitingIsCounted ==
    ASSUME QueueInv, NEW q \in Queues
    PROVE  IsFiniteSet(Waiting(q)) /\ m_imminent_waits[q] = Cardinality(Waiting(q))
<1>1. Waiting(q) \in SUBSET Threads
  BY DEF Waiting
<1>. QED BY <1>1, FutexAssumption, FS_Subset DEF QueueInv, ImminentWaitsAreExact, Waiting

\* A wait that is imminent is on the queue in the table.
LEMMA ImminentIsInTable ==
    ASSUME QueueInv, NEW t \in Threads, pc[t] = "wait"
    PROVE  /\ futex_queue[t] = s_global_futex_queues /\ futex_queue[t] \in Queues
           /\ futex_queue[t] \notin m_was_removed
           /\ m_imminent_waits[futex_queue[t]] \in Nat \ {0}
<1>. DEFINE q == futex_queue[t]
<1>1. q \in Queues
  BY DEF QueueInv, HeldInv, TypeOK
<1>2. t \in Waiting(q)
  BY DEF Waiting
<1>3. m_imminent_waits[q] # 0
  BY <1>1, <1>2, WaitingIsCounted, FS_EmptySet
<1>4. m_imminent_waits[q] \in Nat
  BY <1>1 DEF QueueInv, TypeOK
<1>5. q = s_global_futex_queues
  BY <1>1, <1>3 DEF QueueInv, NoDetachedWaiter, IsEmptyAndNoImminentWaits
<1>. QED BY <1>1, <1>3, <1>4, <1>5 DEF QueueInv, NoRemovedQueueInTable

\* A queue that is needed has somebody in it, or about to be.
LEMMA NeededQueue ==
    ASSUME QueueInv, NEW q \in Queues, ~IsEmptyAndNoImminentWaits(q)
    PROVE  \E u \in Threads : pc[u] \in {"wait", "sleep"}
<1>1. CASE m_imminent_waits[q] # 0
  <2>1. Waiting(q) # {}
    BY <1>1, WaitingIsCounted, FS_EmptySet
  <2>. QED BY <2>1 DEF Waiting
<1>2. CASE m_blockers[q] # <<>>
  <2>1. m_blockers[q] \in Seq(Threads)
    BY DEF QueueInv, TypeOK
  <2>2. 1 \in DOMAIN m_blockers[q] /\ m_blockers[q][1] \in Threads
    BY <1>2, <2>1
  <2>. QED BY <2>2 DEF QueueInv, BlockersInv, Range
<1>. QED BY <1>1, <1>2 DEF IsEmptyAndNoImminentWaits

-----------------------------------------------------------------------------
(* One lemma per step. *)

\* A store, a timer that fires and a signal.
LEMMA OutsideStep ==
    ASSUME QueueInv, NEW t \in Threads,
           (\E v \in Values : Store(t, v)) \/ TimerFires(t) \/ Interrupt(t)
    PROVE  QueueInv'
<1>1. UNCHANGED <<queues, big_lock, pc, args, futex_queue>>
  BY DEF Store, TimerFires, Interrupt
<1>2. TypeOK
  BY DEF QueueInv
<1>3. TypeOK'
  <2>1. word' \in Values
    BY <1>2 DEF Store, TimerFires, Interrupt, TypeOK
  <2>2. blocked' \subseteq Threads /\ timer' \subseteq Threads
    BY <1>2 DEF Store, TimerFires, Interrupt, Unblock, TypeOK
  <2>3. outcome' \in [Threads -> {"none", "0", "ETIMEDOUT"}]
    BY <1>2 DEF Store, TimerFires, Interrupt, Unblock, TypeOK
  <2>. QED BY <1>1, <1>2, <2>1, <2>2, <2>3 DEF TypeOK
<1>. QED BY <1>1, <1>3, OutsideCalls

\* A call is made.
LEMMA EnterStep ==
    ASSUME QueueInv, NEW t \in Threads,
           \/ \E v \in Values, b \in (SUBSET Bits) \ {{}} : EnterWait(t, v, b)
           \/ \E n \in 1..Cardinality(Threads), b \in (SUBSET Bits) \ {{}} : EnterWake(t, n, b)
    PROVE  QueueInv'
<1>1. /\ pc[t] = "user"
      /\ pc' = [pc EXCEPT ![t] = "check"] \/ pc' = [pc EXCEPT ![t] = "wakefind"]
      /\ UNCHANGED <<word, queues, futex_queue, sleep>>
  BY DEF EnterWait, EnterWake, Enter
<1>2. TypeOK
  BY DEF QueueInv
<1>3. Cardinality(Threads) \in Nat
  BY FutexAssumption, FS_CardinalityType
<1>4. TypeOK'
  <2>0. /\ \E P \in Processes : big_lock' = [big_lock EXCEPT ![P] = t]
        /\ \E v \in Values : val' = val \/ val' = [val EXCEPT ![t] = v]
        /\ \E b \in SUBSET Bits : bitset' = [bitset EXCEPT ![t] = b]
        /\ \E n \in 0..Cardinality(Threads) : count' = count \/ count' = [count EXCEPT ![t] = n]
    <3>1. CASE \E v \in Values, b \in (SUBSET Bits) \ {{}} : EnterWait(t, v, b)
      <4>1. PICK v \in Values, b \in (SUBSET Bits) \ {{}} : EnterWait(t, v, b)
        BY <3>1
      <4>2. (IF b = MatchAny THEN {} ELSE b) \in SUBSET Bits /\ 0 \in 0..Cardinality(Threads)
        BY <1>3
      <4>. QED BY <4>1, <4>2, ProcessOfThread DEF EnterWait, Enter
    <3>2. CASE \E n \in 1..Cardinality(Threads), b \in (SUBSET Bits) \ {{}} : EnterWake(t, n, b)
      <4>1. PICK n \in 1..Cardinality(Threads), b \in (SUBSET Bits) \ {{}} : EnterWake(t, n, b)
        BY <3>2
      <4>2. n \in 0..Cardinality(Threads) /\ \E v \in Values : TRUE
        BY <1>3, FutexAssumption
      <4>. QED BY <4>1, <4>2, ProcessOfThread DEF EnterWake, Enter
    <3>. QED BY <3>1, <3>2
  <2>1. big_lock' \in [Processes -> Threads \cup {Nothing}]
    BY <1>2, <2>0 DEF TypeOK
  <2>2. val' \in [Threads -> Values]
    BY <1>2, <2>0 DEF TypeOK
  <2>3. bitset' \in [Threads -> SUBSET Bits]
    BY <1>2, <2>0 DEF TypeOK
  <2>4. count' \in [Threads -> 0..Cardinality(Threads)]
    BY <1>2, <2>0 DEF TypeOK
  <2>. QED BY <1>1, <1>2, <2>1, <2>2, <2>3, <2>4 DEF TypeOK
<1>5. \A u \in Threads : u # t => pc'[u] = pc[u]
  BY <1>1, <1>2 DEF TypeOK
<1>6. pc'[t] \in {"check", "wakefind"}
  BY <1>1, <1>2 DEF TypeOK
<1>7. LastToLeaveInv'
  BY <1>1, <1>5 DEF QueueInv, LastToLeaveInv
<1>. QED BY <1>1, <1>4, <1>5, <1>6, <1>7, OutsideQueues

\* The types of what a call leaves behind.
LEMMA LeaveTypes ==
    ASSUME TypeOK, NEW t \in Threads, Leave(t)
    PROVE  /\ pc' \in [Threads -> {"user", "check", "find", "imminent", "wait", "sleep", "done",
                                   "remove", "wakefind", "wake"}]
           /\ big_lock' \in [Processes -> Threads \cup {Nothing}]
           /\ val' \in [Threads -> Values] /\ bitset' \in [Threads -> SUBSET Bits]
           /\ count' \in [Threads -> 0..Cardinality(Threads)]
           /\ futex_queue' \in [Threads -> Queues \cup {Nothing}]
           /\ pc'[t] = "user" /\ futex_queue'[t] = Nothing
           /\ \A u \in Threads : u # t => pc'[u] = pc[u] /\ futex_queue'[u] = futex_queue[u]
<1>1. AnyValue \in Values
  BY FutexAssumption DEF AnyValue
<1>2. Cardinality(Threads) \in Nat
  BY FutexAssumption, FS_CardinalityType
<1>3. val' \in [Threads -> Values]
  BY <1>1 DEF TypeOK, Leave
<1>4. count' \in [Threads -> 0..Cardinality(Threads)]
  BY <1>2 DEF TypeOK, Leave
<1>5. bitset' \in [Threads -> SUBSET Bits]
  BY DEF TypeOK, Leave
<1>. QED BY <1>3, <1>4, <1>5 DEF TypeOK, Leave

\* A call that changes no queue returns.
LEMMA LeaveStep ==
    ASSUME QueueInv, NEW t \in Threads, Leave(t), pc[t] \notin {"wait", "sleep"},
           UNCHANGED <<word, queues, blocked, timer>>,
           outcome' \in [Threads -> {"none", "0", "ETIMEDOUT"}],
           pc[t] \in {"done", "remove"} => \E u \in Threads : pc[u] \in {"wait", "sleep"}
    PROVE  QueueInv'
<1>1. TypeOK
  BY DEF QueueInv
<1>2. TypeOK'
  BY <1>1, LeaveTypes DEF TypeOK
<1>3. /\ pc'[t] = "user" /\ futex_queue'[t] = Nothing
      /\ \A u \in Threads : u # t => pc'[u] = pc[u] /\ futex_queue'[u] = futex_queue[u]
  BY <1>1, LeaveTypes
<1>4. LastToLeaveInv'
  BY <1>3 DEF QueueInv, LastToLeaveInv
<1>. QED BY <1>2, <1>3, <1>4, OutsideQueues

\* A call goes on without a change to the queues.
LEMMA GotoStep ==
    ASSUME QueueInv, NEW t \in Threads, NEW where \in {"check", "find", "imminent", "remove", "wake"},
           Goto(t, where), pc[t] \notin {"wait", "sleep"}, pc[t] = "done" => where = "remove",
           pc[t] # "remove",
           NEW q \in {futex_queue[t], Nothing, s_global_futex_queues},
           futex_queue' = [futex_queue EXCEPT ![t] = q],
           where \in {"imminent", "wake"} => q # Nothing,
           UNCHANGED <<word, queues>>
    PROVE  QueueInv'
<1>1. TypeOK
  BY DEF QueueInv
<1>2. pc' = [pc EXCEPT ![t] = where] /\ UNCHANGED <<big_lock, args, outcome, blocked, timer>>
  BY DEF Goto
<1>3. TypeOK'
  BY <1>1, <1>2 DEF TypeOK
<1>4. /\ pc'[t] = where /\ futex_queue'[t] = q
      /\ \A u \in Threads : u # t => pc'[u] = pc[u] /\ futex_queue'[u] = futex_queue[u]
  BY <1>1, <1>2 DEF TypeOK
<1>5. LastToLeaveInv'
  BY <1>4 DEF QueueInv, LastToLeaveInv
<1>. QED BY <1>3, <1>4, <1>5, OutsideQueues

\* The steps of a call before and after it uses its queue.
LEMMA CallStep ==
    ASSUME QueueInv, NEW t \in Threads,
           CheckValue(t) \/ FindQueue(t) \/ Done(t) \/ WakeNobody(t) \/ WakeFind(t)
    PROVE  QueueInv'
<1>1. TypeOK
  BY DEF QueueInv
<1>2. futex_queue = [futex_queue EXCEPT ![t] = futex_queue[t]]
  BY <1>1 DEF TypeOK
<1>3. CASE CheckValue(t)
  <2>1. CASE word = val[t]
    BY <1>2, <1>3, <2>1, GotoStep DEF CheckValue
  <2>2. CASE word # val[t]
    <3>1. pc[t] = "check" /\ LeaveWait(t) /\ UNCHANGED <<word, queues>>
      BY <1>3, <2>2 DEF CheckValue
    <3>2. outcome' \in [Threads -> {"none", "0", "ETIMEDOUT"}]
      BY <1>1, <3>1 DEF LeaveWait, TypeOK
    <3>. QED BY <3>1, <3>2, LeaveStep DEF LeaveWait
  <2>. QED BY <2>1, <2>2
<1>4. CASE FindQueue(t)
  BY <1>4, GotoStep DEF FindQueue
<1>5. CASE Done(t)
  <2>1. pc[t] = "done" /\ futex_queue[t] \in Queues
    BY <1>1, <1>5 DEF Done, QueueInv, HeldInv, TypeOK
  <2>2. CASE IsEmptyAndNoImminentWaits(futex_queue[t])
    BY <1>2, <1>5, <2>1, <2>2, GotoStep DEF Done
  <2>3. CASE ~IsEmptyAndNoImminentWaits(futex_queue[t])
    <3>1. LeaveWait(t) /\ UNCHANGED <<word, queues>>
      BY <1>5, <2>3 DEF Done
    <3>2. outcome' \in [Threads -> {"none", "0", "ETIMEDOUT"}]
      BY <1>1, <3>1 DEF LeaveWait, TypeOK
    <3>3. \E u \in Threads : pc[u] \in {"wait", "sleep"}
      BY <2>1, <2>3, NeededQueue
    <3>. QED BY <2>1, <3>1, <3>2, <3>3, LeaveStep DEF LeaveWait
  <2>. QED BY <2>2, <2>3
<1>6. CASE WakeNobody(t)
  <2>1. outcome' \in [Threads -> {"none", "0", "ETIMEDOUT"}]
    BY <1>1, <1>6 DEF WakeNobody, TypeOK
  <2>. QED BY <1>6, <2>1, LeaveStep DEF WakeNobody
<1>7. CASE WakeFind(t)
  BY <1>7, GotoStep DEF WakeFind
<1>. QED BY <1>3, <1>4, <1>5, <1>6, <1>7

\* The first waiter makes a queue, with one imminent wait: its own.
LEMMA CreateQueueStep ==
    ASSUME QueueInv, NEW t \in Threads, NEW q \in Queues, CreateQueue(t, q)
    PROVE  QueueInv'
<1>1. /\ pc[t] = "find" /\ s_global_futex_queues = Nothing
      /\ \A u \in Threads : futex_queue[u] # q
      /\ s_global_futex_queues' = q
      /\ m_blockers' = [m_blockers EXCEPT ![q] = <<>>]
      /\ m_imminent_waits' = [m_imminent_waits EXCEPT ![q] = 1]
      /\ m_was_removed' = m_was_removed \ {q}
      /\ futex_queue' = [futex_queue EXCEPT ![t] = q]
      /\ pc' = [pc EXCEPT ![t] = "wait"]
      /\ UNCHANGED <<word, big_lock, args, sleep>>
  BY DEF CreateQueue, Goto
<1>2. TypeOK
  BY DEF QueueInv
<1>3. /\ pc'[t] = "wait" /\ futex_queue'[t] = q
      /\ \A u \in Threads : u # t => pc'[u] = pc[u] /\ futex_queue'[u] = futex_queue[u]
  BY <1>1, <1>2 DEF TypeOK
<1>4. \A p \in Queues : m_blockers[p] = <<>> /\ m_imminent_waits[p] = 0
  BY <1>1, FutexAssumption DEF QueueInv, NoDetachedWaiter, IsEmptyAndNoImminentWaits
<1>5. m_blockers' = m_blockers
  BY <1>1, <1>2, <1>4 DEF TypeOK
<1>6. /\ m_imminent_waits'[q] = 1
      /\ \A p \in Queues : p # q => m_imminent_waits'[p] = m_imminent_waits[p]
  BY <1>1, <1>2 DEF TypeOK
<1>7. TypeOK'
  BY <1>1, <1>2, <1>5 DEF TypeOK
<1>8. HeldInv'
  BY <1>1, <1>3, FutexAssumption DEF QueueInv, HeldInv
<1>9. BlockersInv'
  <2>1. \A p \in Queues : Range(m_blockers[p]) = {} BY <1>4 DEF Range
  <2>. QED BY <1>5, <2>1 DEF QueueInv, BlockersInv
<1>10. LastToLeaveInv'
  BY <1>3 DEF LastToLeaveInv
<1>11. NoDetachedWaiter' /\ NoRemovedQueueInTable'
  BY <1>1, <1>4, <1>5, <1>6 DEF NoDetachedWaiter, NoRemovedQueueInTable, IsEmptyAndNoImminentWaits
<1>12. ImminentWaitsAreExact'
  <2>1. ASSUME NEW p \in Queues
        PROVE  m_imminent_waits'[p] = Cardinality({u \in Threads : pc'[u] = "wait" /\ futex_queue'[u] = p})
    <3>1. CASE p = q
      <4>1. {u \in Threads : pc'[u] = "wait" /\ futex_queue'[u] = p} = {t}
        BY <1>1, <1>3, <3>1
      <4>. QED BY <1>6, <3>1, <4>1, FS_Singleton
    <3>2. CASE p # q
      <4>1. {u \in Threads : pc'[u] = "wait" /\ futex_queue'[u] = p} = Waiting(p)
        BY <1>1, <1>3, <3>2 DEF Waiting
      <4>. QED BY <1>6, <3>2, <4>1, WaitingIsCounted
    <3>. QED BY <3>1, <3>2
  <2>. QED BY <2>1 DEF ImminentWaitsAreExact
<1>. QED BY <1>7, <1>8, <1>9, <1>10, <1>11, <1>12 DEF QueueInv

\* queue_imminent_wait() counts a wait on a queue that was not removed, and so
\* is still the one in the table.
LEMMA QueueImminentWaitStep ==
    ASSUME QueueInv, NEW t \in Threads, QueueImminentWait(t)
    PROVE  QueueInv'
<1>. PICK q \in Queues : q = futex_queue[t]
  BY DEF QueueInv, HeldInv, TypeOK, QueueImminentWait
<1>1. TypeOK /\ pc[t] = "imminent"
  BY DEF QueueInv, QueueImminentWait
<1>2. CASE q \in m_was_removed
  <2>1. Goto(t, "check") /\ futex_queue' = [futex_queue EXCEPT ![t] = Nothing] /\ UNCHANGED <<word, queues>>
    BY <1>2 DEF QueueImminentWait
  <2>. QED BY <1>1, <2>1, GotoStep
<1>3. CASE q \notin m_was_removed
  <2>1. /\ pc' = [pc EXCEPT ![t] = "wait"]
        /\ m_imminent_waits' = [m_imminent_waits EXCEPT ![q] = @ + 1]
        /\ UNCHANGED <<futex_queue, s_global_futex_queues, m_blockers, m_was_removed, word, big_lock, args, sleep>>
    BY <1>3 DEF QueueImminentWait, Goto
  <2>2. q = s_global_futex_queues
    BY <1>3, FutexAssumption DEF QueueInv, HeldInv
  <2>3. pc'[t] = "wait" /\ \A u \in Threads : u # t => pc'[u] = pc[u]
    BY <1>1, <2>1 DEF TypeOK
  <2>4. /\ m_imminent_waits'[q] = m_imminent_waits[q] + 1
        /\ \A p \in Queues : p # q => m_imminent_waits'[p] = m_imminent_waits[p]
    BY <1>1, <2>1 DEF TypeOK
  <2>5. TypeOK'
    BY <1>1, <2>1 DEF TypeOK
  <2>6. HeldInv'
    BY <1>1, <2>1, <2>3, FutexAssumption DEF QueueInv, HeldInv
  <2>7. BlockersInv'
    <3>1. \A p \in Queues : \A u \in Range(m_blockers[p]) : u \in Threads /\ u # t
      BY <1>1, BlockersSleep
    <3>. QED BY <2>1, <2>3, <3>1 DEF QueueInv, BlockersInv
  <2>8. LastToLeaveInv'
    BY <2>3 DEF LastToLeaveInv
  <2>9. NoDetachedWaiter' /\ NoRemovedQueueInTable'
    BY <2>1, <2>2, <2>4 DEF QueueInv, NoDetachedWaiter, NoRemovedQueueInTable, IsEmptyAndNoImminentWaits
  <2>10. ImminentWaitsAreExact'
    <3>1. ASSUME NEW p \in Queues
          PROVE  m_imminent_waits'[p] = Cardinality({u \in Threads : pc'[u] = "wait" /\ futex_queue'[u] = p})
      <4>1. CASE p = q
        <5>1. {u \in Threads : pc'[u] = "wait" /\ futex_queue'[u] = p} = Waiting(q) \cup {t}
          BY <2>1, <2>3, <4>1 DEF Waiting
        <5>2. t \notin Waiting(q) BY <1>1 DEF Waiting
        <5>3. Cardinality(Waiting(q) \cup {t}) = Cardinality(Waiting(q)) + 1
          BY <5>2, WaitingIsCounted, FS_AddElement
        <5>. QED BY <2>4, <4>1, <5>1, <5>3, WaitingIsCounted
      <4>2. CASE p # q
        <5>1. {u \in Threads : pc'[u] = "wait" /\ futex_queue'[u] = p} = Waiting(p)
          BY <2>1, <2>3, <4>2 DEF Waiting
        <5>. QED BY <2>4, <4>2, <5>1, WaitingIsCounted
      <4>. QED BY <4>1, <4>2
    <3>. QED BY <3>1 DEF ImminentWaitsAreExact
  <2>. QED BY <2>5, <2>6, <2>7, <2>8, <2>9, <2>10 DEF QueueInv
<1>. QED BY <1>2, <1>3

\* An imminent wait of t is taken back.
LEMMA WaitTakenBack ==
    ASSUME QueueInv, NEW t \in Threads, pc[t] = "wait", NEW q \in Queues, q = futex_queue[t],
           m_imminent_waits' = [m_imminent_waits EXCEPT ![q] = @ - 1],
           UNCHANGED futex_queue, pc'[t] # "wait", \A u \in Threads : u # t => pc'[u] = pc[u]
    PROVE  /\ ImminentWaitsAreExact'
           /\ m_imminent_waits' \in [Queues -> Nat]
           /\ \A p \in Queues : p # q => m_imminent_waits'[p] = m_imminent_waits[p]
<1>1. TypeOK
  BY DEF QueueInv
<1>2. m_imminent_waits[q] \in Nat \ {0}
  BY ImminentIsInTable
<1>3. m_imminent_waits'[q] = m_imminent_waits[q] - 1 /\ m_imminent_waits[q] - 1 \in Nat
  BY <1>1, <1>2 DEF TypeOK
<1>4. \A p \in Queues : p # q => m_imminent_waits'[p] = m_imminent_waits[p]
  BY <1>1 DEF TypeOK
<1>5. m_imminent_waits' \in [Queues -> Nat]
  BY <1>1, <1>3 DEF TypeOK
<1>6. ASSUME NEW p \in Queues
      PROVE  m_imminent_waits'[p] = Cardinality({u \in Threads : pc'[u] = "wait" /\ futex_queue'[u] = p})
  <2>1. CASE p = q
    <3>1. {u \in Threads : pc'[u] = "wait" /\ futex_queue'[u] = p} = Waiting(q) \ {t}
      BY <2>1 DEF Waiting
    <3>2. t \in Waiting(q) BY DEF Waiting
    <3>3. Cardinality(Waiting(q) \ {t}) = Cardinality(Waiting(q)) - 1
      BY <3>2, WaitingIsCounted, FS_RemoveElement
    <3>. QED BY <1>3, <2>1, <3>1, <3>3, WaitingIsCounted
  <2>2. CASE p # q
    <3>1. {u \in Threads : pc'[u] = "wait" /\ futex_queue'[u] = p} = Waiting(p)
      BY <2>2 DEF Waiting
    <3>. QED BY <1>4, <2>2, <3>1, WaitingIsCounted
  <2>. QED BY <2>1, <2>2
<1>. QED BY <1>4, <1>5, <1>6 DEF ImminentWaitsAreExact

\* should_add_blocker() puts the blocker into the queue and the thread sleeps.
LEMMA WaitOnStep ==
    ASSUME QueueInv, NEW t \in Threads, WaitOn(t)
    PROVE  QueueInv'
<1>1. TypeOK /\ pc[t] = "wait"
  BY DEF QueueInv, WaitOn
<1>. PICK q \in Queues : q = futex_queue[t]
  BY <1>1, ImminentIsInTable
<1>2. q = s_global_futex_queues /\ q \notin m_was_removed
  BY <1>1, ImminentIsInTable
<1>3. /\ m_imminent_waits' = [m_imminent_waits EXCEPT ![q] = @ - 1]
      /\ pc' = [pc EXCEPT ![t] = "sleep"]
      /\ m_blockers' = [m_blockers EXCEPT ![q] = Append(@, t)]
      /\ blocked' = blocked \cup {t} /\ timer' \in {timer, timer \cup {t}}
      /\ big_lock' = [big_lock EXCEPT ![ProcessOf(t)] = Nothing]
      /\ UNCHANGED <<args, outcome, word, s_global_futex_queues, m_was_removed, futex_queue>>
  BY <1>2 DEF WaitOn
<1>4. pc'[t] = "sleep" /\ \A u \in Threads : u # t => pc'[u] = pc[u]
  BY <1>1, <1>3 DEF TypeOK
<1>5. /\ ImminentWaitsAreExact' /\ m_imminent_waits' \in [Queues -> Nat]
      /\ \A p \in Queues : p # q => m_imminent_waits'[p] = m_imminent_waits[p]
  BY <1>1, <1>3, <1>4, WaitTakenBack
<1>6. \A p \in Queues : \A u \in Range(m_blockers[p]) : u \in Threads /\ u # t
  BY <1>1, BlockersSleep
<1>7. /\ Append(m_blockers[q], t) \in Seq(Threads)
      /\ Range(Append(m_blockers[q], t)) = Range(m_blockers[q]) \cup {t}
      /\ IsInjective(Append(m_blockers[q], t))
  BY <1>1, <1>6, ListAppend DEF QueueInv, BlockersInv, TypeOK
<1>8. /\ m_blockers'[q] = Append(m_blockers[q], t)
      /\ \A p \in Queues : p # q => m_blockers'[p] = m_blockers[p]
      /\ m_blockers' \in [Queues -> Seq(Threads)]
  BY <1>1, <1>3, <1>7 DEF TypeOK
<1>9. TypeOK'
  BY <1>1, <1>3, <1>5, <1>8 DEF TypeOK
<1>10. HeldInv'
  BY <1>1, <1>3, <1>4 DEF QueueInv, HeldInv
<1>11. BlockersInv'
  BY <1>3, <1>4, <1>6, <1>7, <1>8 DEF QueueInv, BlockersInv
<1>12. LastToLeaveInv'
  BY <1>4 DEF LastToLeaveInv
<1>13. NoDetachedWaiter' /\ NoRemovedQueueInTable'
  BY <1>2, <1>3, <1>5, <1>8 DEF QueueInv, NoDetachedWaiter, NoRemovedQueueInTable, IsEmptyAndNoImminentWaits
<1>. QED BY <1>5, <1>9, <1>10, <1>11, <1>12, <1>13 DEF QueueInv

\* The timeout is over before the thread sleeps.
LEMMA WaitOnTooLateStep ==
    ASSUME QueueInv, NEW t \in Threads, WaitOnTooLate(t)
    PROVE  QueueInv'
<1>1. TypeOK /\ pc[t] = "wait"
  BY DEF QueueInv, WaitOnTooLate
<1>. PICK q \in Queues : q = futex_queue[t]
  BY <1>1, ImminentIsInTable
<1>2. q = s_global_futex_queues
  BY <1>1, ImminentIsInTable
<1>3. /\ m_imminent_waits' = [m_imminent_waits EXCEPT ![q] = @ - 1]
      /\ pc' = [pc EXCEPT ![t] = "done"] /\ outcome' = [outcome EXCEPT ![t] = "ETIMEDOUT"]
      /\ UNCHANGED <<word, s_global_futex_queues, m_blockers, m_was_removed, big_lock, args,
                     futex_queue, blocked, timer>>
  BY DEF WaitOnTooLate
<1>4. pc'[t] = "done" /\ \A u \in Threads : u # t => pc'[u] = pc[u]
  BY <1>1, <1>3 DEF TypeOK
<1>5. /\ ImminentWaitsAreExact' /\ m_imminent_waits' \in [Queues -> Nat]
      /\ \A p \in Queues : p # q => m_imminent_waits'[p] = m_imminent_waits[p]
  BY <1>1, <1>3, <1>4, WaitTakenBack
<1>6. \A p \in Queues : \A u \in Range(m_blockers[p]) : u \in Threads /\ u # t
  BY <1>1, BlockersSleep
<1>7. TypeOK'
  BY <1>1, <1>3, <1>5 DEF TypeOK
<1>8. HeldInv'
  BY <1>1, <1>3, <1>4 DEF QueueInv, HeldInv
<1>9. BlockersInv'
  BY <1>3, <1>4, <1>6 DEF QueueInv, BlockersInv
<1>10. LastToLeaveInv'
  BY <1>4 DEF LastToLeaveInv
<1>11. NoDetachedWaiter' /\ NoRemovedQueueInTable'
  BY <1>2, <1>3, <1>5 DEF QueueInv, NoDetachedWaiter, NoRemovedQueueInTable, IsEmptyAndNoImminentWaits
<1>. QED BY <1>5, <1>7, <1>8, <1>9, <1>10, <1>11 DEF QueueInv

\* A sequence without elements is empty.
LEMMA NoElements == ASSUME NEW S, NEW s \in Seq(S), Range(s) = {} PROVE s = <<>>
<1>. SUFFICES ASSUME s # <<>> PROVE FALSE
  OBVIOUS
<1>1. 1 \in DOMAIN s
  OBVIOUS
<1>. QED BY <1>1 DEF Range

\* A queue loses some of its blockers, by a step of thread t, which is then in
\* no queue.
LEMMA QueueLoses ==
    ASSUME QueueInv, TypeOK', NEW t \in Threads, NEW q \in Queues,
           pc[t] # "wait", pc'[t] \notin {"wait", "sleep"},
           futex_queue'[t] \in {futex_queue[t], Nothing}, pc'[t] = "done" => futex_queue'[t] # Nothing,
           pc'[t] \notin {"imminent", "wake"},
           \A u \in Threads : u # t => pc'[u] = pc[u] /\ futex_queue'[u] = futex_queue[u],
           NEW l \in Seq(Threads), IsInjective(l), Range(l) \subseteq Range(m_blockers[q]) \ {t},
           \A p \in Queues : p # q => t \notin Range(m_blockers[p]),
           m_blockers' = [m_blockers EXCEPT ![q] = l],
           UNCHANGED <<s_global_futex_queues, m_imminent_waits, m_was_removed>>,
           LastToLeaveInv'
    PROVE  QueueInv'
<1>1. TypeOK
  BY DEF QueueInv
<1>2. m_blockers'[q] = l /\ \A p \in Queues : p # q => m_blockers'[p] = m_blockers[p]
  BY <1>1 DEF TypeOK
<1>3. \A p \in Queues : \A u \in Range(m_blockers[p]) : u \in Threads
  <2>. TAKE p \in Queues
  <2>1. m_blockers[p] \in Seq(Threads) BY <1>1 DEF TypeOK
  <2>. QED BY <2>1 DEF Range
<1>4. HeldInv'
  BY DEF QueueInv, HeldInv
<1>5. BlockersInv'
  <2>1. ASSUME NEW p \in Queues
        PROVE  /\ IsInjective(m_blockers'[p])
               /\ \A u \in Range(m_blockers'[p]) : pc'[u] = "sleep" /\ futex_queue'[u] = p
    <3>1. CASE p = q BY <1>2, <1>3, <3>1 DEF QueueInv, BlockersInv
    <3>2. CASE p # q
      <4>1. \A u \in Range(m_blockers[p]) : u \in Threads /\ u # t BY <1>3, <3>2
      <4>. QED BY <1>2, <3>2, <4>1 DEF QueueInv, BlockersInv
    <3>. QED BY <3>1, <3>2
  <2>. QED BY <2>1 DEF BlockersInv
<1>6. NoDetachedWaiter' /\ NoRemovedQueueInTable'
  <2>1. ASSUME NEW p \in Queues \ {s_global_futex_queues}
        PROVE  m_imminent_waits'[p] = 0 /\ m_blockers'[p] = <<>>
    <3>1. m_imminent_waits[p] = 0 /\ m_blockers[p] = <<>>
      BY DEF QueueInv, NoDetachedWaiter, IsEmptyAndNoImminentWaits
    <3>2. CASE p = q
      <4>1. Range(m_blockers[q]) = {} BY <3>1, <3>2 DEF Range
      <4>2. Range(l) = {} BY <4>1
      <4>3. l = <<>> BY <4>2, NoElements
      <4>. QED BY <1>2, <3>1, <3>2, <4>3
    <3>3. CASE p # q BY <1>2, <3>1, <3>3
    <3>. QED BY <3>2, <3>3
  <2>. QED BY <2>1 DEF QueueInv, NoDetachedWaiter, NoRemovedQueueInTable, IsEmptyAndNoImminentWaits
<1>7. ImminentWaitsAreExact'
  <2>1. \A p : {u \in Threads : pc'[u] = "wait" /\ futex_queue'[u] = p}
             = {u \in Threads : pc[u] = "wait" /\ futex_queue[u] = p}
    OBVIOUS
  <2>. QED BY <2>1 DEF QueueInv, ImminentWaitsAreExact
<1>. QED BY <1>4, <1>5, <1>6, <1>7 DEF QueueInv

\* The sleep is over, and finalize() takes the blocker off the queue if it is
\* still there.
LEMMA RelockStep ==
    ASSUME QueueInv, NEW t \in Threads, Relock(t)
    PROVE  QueueInv'
<1>1. TypeOK /\ pc[t] = "sleep"
  BY DEF QueueInv, Relock
<1>. PICK q \in Queues : q = futex_queue[t]
  BY <1>1 DEF QueueInv, HeldInv, TypeOK
<1>. DEFINE l == RemoveFirst(m_blockers[q], t)
<1>2. /\ big_lock' = [big_lock EXCEPT ![ProcessOf(t)] = t]
      /\ pc' = [pc EXCEPT ![t] = "done"] /\ timer' = timer \ {t}
      /\ m_blockers' = [m_blockers EXCEPT ![q] = l]
      /\ UNCHANGED <<word, s_global_futex_queues, m_imminent_waits, m_was_removed, args,
                     futex_queue, blocked, outcome>>
  BY DEF Relock
<1>3. /\ l \in Seq(Threads) /\ IsInjective(l)
      /\ Range(l) = Range(m_blockers[q]) \ {t}
  BY <1>1, ListRemoveFirst DEF QueueInv, BlockersInv, TypeOK
<1>. HIDE DEF l
<1>4. TypeOK'
  <2>1. m_blockers' \in [Queues -> Seq(Threads)] BY <1>1, <1>2, <1>3 DEF TypeOK
  <2>2. big_lock' \in [Processes -> Threads \cup {Nothing}] BY <1>1, <1>2 DEF TypeOK
  <2>. QED BY <1>1, <1>2, <2>1, <2>2 DEF TypeOK
<1>5. pc'[t] = "done" /\ \A u \in Threads : u # t => pc'[u] = pc[u]
  BY <1>1, <1>2 DEF TypeOK
<1>6. \A p \in Queues : p # q => t \notin Range(m_blockers[p])
  BY DEF QueueInv, BlockersInv
<1>7. LastToLeaveInv'
  BY <1>5 DEF LastToLeaveInv
<1>8. futex_queue'[t] # Nothing
  BY <1>2, FutexAssumption
<1>. QED BY <1>1, <1>2, <1>3, <1>4, <1>5, <1>6, <1>7, <1>8, QueueLoses

\* remove_futex_queue() removes the queue in the table if nobody needs it.
LEMMA RemoveQueueStep ==
    ASSUME QueueInv, NEW t \in Threads, RemoveQueue(t)
    PROVE  QueueInv'
<1>. DEFINE q == s_global_futex_queues
<1>1. TypeOK /\ pc[t] = "remove" /\ q \notin m_was_removed
  BY DEF QueueInv, RemoveQueue, NoRemovedQueueInTable
<1>2. Leave(t) /\ UNCHANGED <<word, m_blockers, m_imminent_waits, blocked, timer>>
      /\ outcome' = [outcome EXCEPT ![t] = "none"]
  BY DEF RemoveQueue, LeaveWait
<1>3. outcome' \in [Threads -> {"none", "0", "ETIMEDOUT"}]
  BY <1>1, <1>2 DEF TypeOK
<1>4. CASE q # Nothing /\ IsEmptyAndNoImminentWaits(q)
  <2>1. s_global_futex_queues' = Nothing /\ m_was_removed' = m_was_removed \cup {q}
    BY <1>1, <1>4 DEF RemoveQueue
  <2>2. q \in Queues
    BY <1>1, <1>4 DEF TypeOK
  <2>3. /\ pc'[t] = "user" /\ futex_queue'[t] = Nothing
        /\ \A u \in Threads : u # t => pc'[u] = pc[u] /\ futex_queue'[u] = futex_queue[u]
    BY <1>1, <1>2, LeaveTypes
  <2>4. TypeOK'
    <3>1. s_global_futex_queues' \in Queues \cup {Nothing} /\ m_was_removed' \subseteq Queues
      BY <1>1, <2>1, <2>2 DEF TypeOK
    <3>. QED BY <1>1, <1>2, <1>3, <3>1, LeaveTypes DEF TypeOK
  <2>5. HeldInv'
    BY <2>1, <2>3 DEF QueueInv, HeldInv
  <2>6. BlockersInv'
    <3>1. \A p \in Queues : \A u \in Range(m_blockers[p]) : u \in Threads /\ u # t
      BY <1>1, BlockersSleep
    <3>. QED BY <1>2, <2>3, <3>1 DEF QueueInv, BlockersInv
  <2>7. LastToLeaveInv'
    BY <2>1 DEF LastToLeaveInv
  <2>8. NoDetachedWaiter'
    BY <1>2, <1>4, <2>1 DEF QueueInv, NoDetachedWaiter, IsEmptyAndNoImminentWaits
  <2>9. NoRemovedQueueInTable'
    BY <2>1, <2>4, FutexAssumption DEF TypeOK, NoRemovedQueueInTable
  <2>10. ImminentWaitsAreExact'
    <3>1. \A p : {u \in Threads : pc'[u] = "wait" /\ futex_queue'[u] = p}
               = {u \in Threads : pc[u] = "wait" /\ futex_queue[u] = p}
      BY <1>1, <2>3
    <3>. QED BY <1>2, <3>1 DEF QueueInv, ImminentWaitsAreExact
  <2>. QED BY <2>4, <2>5, <2>6, <2>7, <2>8, <2>9, <2>10 DEF QueueInv
<1>5. CASE ~(q # Nothing /\ IsEmptyAndNoImminentWaits(q))
  <2>1. UNCHANGED <<s_global_futex_queues, m_was_removed>>
    BY <1>5 DEF RemoveQueue
  <2>2. CASE q = Nothing
    <3>1. /\ pc'[t] = "user" /\ futex_queue'[t] = Nothing
          /\ \A u \in Threads : u # t => pc'[u] = pc[u] /\ futex_queue'[u] = futex_queue[u]
      BY <1>1, <1>2, LeaveTypes
    <3>2. TypeOK'
      BY <1>1, <1>2, <1>3, <2>1, LeaveTypes DEF TypeOK
    <3>3. LastToLeaveInv'
      BY <2>1, <2>2 DEF LastToLeaveInv
    <3>. QED BY <1>1, <1>2, <2>1, <3>1, <3>2, <3>3, OutsideQueues
  <2>3. CASE q # Nothing
    <3>1. q \in Queues
      BY <1>1, <2>3 DEF TypeOK
    <3>2. \E u \in Threads : pc[u] \in {"wait", "sleep"}
      BY <1>5, <2>3, <3>1, NeededQueue
    <3>. QED BY <1>1, <1>2, <1>3, <2>1, <3>2, LeaveStep
  <2>. QED BY <2>2, <2>3
<1>. QED BY <1>4, <1>5

\* wake_n() takes some blockers from the queue.
LEMMA WakeNStep ==
    ASSUME QueueInv, NEW t \in Threads, WakeN(t)
    PROVE  QueueInv'
<1>1. TypeOK /\ pc[t] = "wake"
  BY DEF QueueInv, WakeN
<1>. PICK q \in Queues : q = futex_queue[t]
  BY <1>1 DEF QueueInv, HeldInv, TypeOK
<1>. DEFINE first == FirstMatching(m_blockers[q], count[t], bitset[t])
            woken == {m_blockers[q][i] : i \in first}
            rest  == Subsequence(m_blockers[q], DOMAIN m_blockers[q] \ first)
<1>2. /\ m_blockers' = [m_blockers EXCEPT ![q] = rest] /\ Unblock(woken, "0")
      /\ \/ pc' = [pc EXCEPT ![t] = "remove"] /\ UNCHANGED <<big_lock, args, futex_queue>>
         \/ Leave(t)
      /\ UNCHANGED <<word, s_global_futex_queues, m_imminent_waits, m_was_removed, timer>>
  BY DEF WakeN
<1>3. m_blockers[q] \in Seq(Threads) /\ IsInjective(m_blockers[q])
  BY <1>1 DEF TypeOK, QueueInv, BlockersInv
<1>4. rest \in Seq(Threads) /\ IsInjective(rest) /\ Range(rest) \subseteq Range(m_blockers[q])
  <2>. DEFINE I == DOMAIN m_blockers[q] \ first
  <2>1. I \in SUBSET DOMAIN m_blockers[q] OBVIOUS
  <2>. HIDE DEF I
  <2>2. /\ Subsequence(m_blockers[q], I) \in Seq(Threads)
        /\ Range(Subsequence(m_blockers[q], I)) = {m_blockers[q][i] : i \in I}
        /\ IsInjective(Subsequence(m_blockers[q], I))
    BY <1>3, <2>1, SubsequenceElements
  <2>3. {m_blockers[q][i] : i \in I} \subseteq Range(m_blockers[q])
    BY <2>1 DEF Range
  <2>. QED BY <2>2, <2>3 DEF I
<1>5. \A p \in Queues : t \notin Range(m_blockers[p])
  BY <1>1, BlockersSleep
<1>6. /\ pc'[t] \in {"remove", "user"} /\ futex_queue'[t] \in {futex_queue[t], Nothing}
      /\ \A u \in Threads : u # t => pc'[u] = pc[u] /\ futex_queue'[u] = futex_queue[u]
  <2>1. CASE Leave(t) BY <1>1, <2>1, LeaveTypes
  <2>2. CASE pc' = [pc EXCEPT ![t] = "remove"] /\ UNCHANGED <<big_lock, args, futex_queue>>
    BY <1>1, <2>2 DEF TypeOK
  <2>. QED BY <1>2, <2>1, <2>2
<1>. HIDE DEF rest, woken
<1>7. TypeOK'
  <2>1. m_blockers' \in [Queues -> Seq(Threads)]
    BY <1>1, <1>2, <1>4 DEF TypeOK
  <2>2. blocked' \subseteq Threads
    BY <1>1, <1>2 DEF TypeOK, Unblock
  <2>3. outcome' \in [Threads -> {"none", "0", "ETIMEDOUT"}]
    BY <1>1, <1>2 DEF TypeOK, Unblock
  <2>4. /\ pc' \in [Threads -> {"user", "check", "find", "imminent", "wait", "sleep", "done",
                                "remove", "wakefind", "wake"}]
        /\ big_lock' \in [Processes -> Threads \cup {Nothing}]
        /\ val' \in [Threads -> Values] /\ bitset' \in [Threads -> SUBSET Bits]
        /\ count' \in [Threads -> 0..Cardinality(Threads)]
        /\ futex_queue' \in [Threads -> Queues \cup {Nothing}]
    <3>1. CASE Leave(t) BY <1>1, <3>1, LeaveTypes
    <3>2. CASE pc' = [pc EXCEPT ![t] = "remove"] /\ UNCHANGED <<big_lock, args, futex_queue>>
      BY <1>1, <3>2 DEF TypeOK
    <3>. QED BY <1>2, <3>1, <3>2
  <2>. QED BY <1>1, <1>2, <2>1, <2>2, <2>3, <2>4 DEF TypeOK
<1>8. LastToLeaveInv'
  BY <1>1, <1>2, <1>6 DEF QueueInv, LastToLeaveInv
<1>9. Range(rest) \subseteq Range(m_blockers[q]) \ {t}
  BY <1>4, <1>5
<1>. QED BY <1>1, <1>2, <1>4, <1>5, <1>6, <1>7, <1>8, <1>9, QueueLoses

-----------------------------------------------------------------------------
\* The invariant holds in every reachable state.
THEOREM QueueInvHolds == Spec => []QueueInv
<1>1. QueueInv /\ [Next]_vars => QueueInv'
  <2>. SUFFICES ASSUME QueueInv, [Next]_vars PROVE QueueInv'
    OBVIOUS
  <2>1. CASE UNCHANGED vars
    <3>1. UNCHANGED <<word, queues, big_lock, pc, args, futex_queue, sleep>>
      BY <2>1 DEF vars
    <3>2. TypeOK'
      BY <3>1 DEF QueueInv, TypeOK
    <3>. QED BY <3>1, <3>2, OutsideCalls
  <2>2. ASSUME NEW t \in Threads, NEW q \in Queues, CreateQueue(t, q) PROVE QueueInv'
    BY <2>2, CreateQueueStep
  <2>. QED BY <2>1, <2>2, OutsideStep, EnterStep, CallStep, QueueImminentWaitStep, WaitOnStep,
              WaitOnTooLateStep, RelockStep, RemoveQueueStep, WakeNStep DEF Next
<1>. QED BY <1>1, InitialState, PTL DEF Spec

\* The imminent waits of a queue are exactly the threads on their way to sleep
\* on it, and the table never holds a queue that was removed.
THEOREM QueuesAreSoundHolds == Spec => []QueuesAreSound
<1>1. QueueInv => QueuesAreSound
  BY DEF QueueInv, QueuesAreSound
<1>. QED BY <1>1, QueueInvHolds, PTL

\* Nobody sleeps, or is about to, on a queue that wake calls do not find.
THEOREM NoDetachedWaiterHolds == Spec => []NoDetachedWaiter
<1>1. QueueInv => NoDetachedWaiter
  BY DEF QueueInv
<1>. QED BY <1>1, QueueInvHolds, PTL

\* When no call is in progress there is no queue left over.
THEOREM NoLeakedQueueHolds == Spec => []NoLeakedQueue
<1>1. QueueInv => NoLeakedQueue
  BY DEF QueueInv, LastToLeaveInv, NoLeakedQueue
<1>. QED BY <1>1, QueueInvHolds, PTL

-----------------------------------------------------------------------------
(* The threads of one process, without bitsets. *)

OneProcess == \E P : Processes = {P}

NoBitsets == \E b : Bits = {b}

Outside == {"user", "sleep"}

\* Of the threads of a process only the one with the big lock is in the call
\* and awake, so that the queue it has found stays the one in the table.
CallInv ==
    \A t \in Threads :
        /\ pc[t] \notin Outside <=> big_lock[ProcessOf(t)] = t
        /\ pc[t] = "wake" => futex_queue[t] = s_global_futex_queues
        /\ pc[t] \in {"user", "wakefind", "wake"} => val[t] = AnyValue
        /\ pc[t] \in {"wakefind", "wake"} => count[t] > 0 /\ bitset[t] = Bits

\* The threads of one process.
LEMMA SameProcess ==
    ASSUME OneProcess
    PROVE  \A t, u \in Threads : ProcessOf(t) = ProcessOf(u)
  BY ProcessOfThread DEF OneProcess

\* They are in the call one at a time.
LEMMA OneInside ==
    ASSUME OneProcess, CallInv, NEW t \in Threads, pc[t] \notin Outside
    PROVE  \A u \in Threads : u # t => pc[u] \in Outside
  BY SameProcess DEF CallInv

\* A step of t, which is then in the call if and only if it has the big lock.
LEMMA CallInvKept ==
    ASSUME OneProcess, QueueInv, QueueInv', CallInv, NEW t \in Threads,
           pc[t] \notin Outside \/ big_lock[ProcessOf(t)] = Nothing,
           \A u \in Threads : u # t => /\ pc'[u] = pc[u] /\ futex_queue'[u] = futex_queue[u]
                                       /\ val'[u] = val[u] /\ count'[u] = count[u] /\ bitset'[u] = bitset[u],
           \/ pc'[t] \in Outside /\ big_lock' = [big_lock EXCEPT ![ProcessOf(t)] = Nothing]
           \/ pc'[t] \notin Outside /\ big_lock' = [big_lock EXCEPT ![ProcessOf(t)] = t]
           \/ pc'[t] \notin Outside /\ pc[t] \notin Outside /\ big_lock' = big_lock,
           pc'[t] = "wake" => futex_queue'[t] = s_global_futex_queues',
           pc'[t] \in {"user", "wakefind", "wake"} => val'[t] = AnyValue,
           pc'[t] \in {"wakefind", "wake"} => count'[t] > 0 /\ bitset'[t] = Bits
    PROVE  CallInv'
<1>1. big_lock \in [Processes -> Threads \cup {Nothing}] /\ Nothing \notin Threads
  BY FutexAssumption DEF QueueInv, TypeOK
<1>2. \A u \in Threads : u # t => pc[u] \in Outside
  <2>1. CASE pc[t] \notin Outside BY <2>1, OneInside
  <2>2. CASE big_lock[ProcessOf(t)] = Nothing BY <1>1, <2>2, SameProcess DEF CallInv
  <2>. QED BY <2>1, <2>2
<1>3. pc'[t] \notin Outside <=> big_lock'[ProcessOf(t)] = t
  BY <1>1, ProcessOfThread DEF CallInv
<1>4. ASSUME NEW u \in Threads, u # t PROVE big_lock'[ProcessOf(u)] # u
  <2>1. ProcessOf(u) = ProcessOf(t) /\ ProcessOf(t) \in Processes BY SameProcess, ProcessOfThread
  <2>2. big_lock[ProcessOf(u)] # u BY <1>2, <1>4 DEF CallInv
  <2>. QED BY <1>1, <1>4, <2>1, <2>2
<1>5. ASSUME NEW u \in Threads, u # t
      PROVE  /\ pc'[u] \notin Outside <=> big_lock'[ProcessOf(u)] = u
             /\ pc'[u] = "wake" => futex_queue'[u] = s_global_futex_queues'
             /\ pc'[u] \in {"user", "wakefind", "wake"} => val'[u] = AnyValue
             /\ pc'[u] \in {"wakefind", "wake"} => count'[u] > 0 /\ bitset'[u] = Bits
  <2>1. pc'[u] \in Outside BY <1>2, <1>5
  <2>. QED BY <1>4, <1>5, <2>1 DEF CallInv, Outside
<1>. QED BY <1>3, <1>5 DEF CallInv

\* What the steps of Futex do with the big lock and the arguments.
LEMMA CallInvStep ==
    ASSUME OneProcess, NoBitsets, QueueInv, QueueInv', CallInv, [Next]_vars
    PROVE  CallInv'
<1>0. TypeOK /\ TypeOK'
  BY DEF QueueInv
<1>. USE DEF Outside
<1>1. ASSUME UNCHANGED <<s_global_futex_queues, big_lock, pc, args, futex_queue>> PROVE CallInv'
  BY <1>1 DEF CallInv
<1>2. CASE UNCHANGED vars
  BY <1>1, <1>2 DEF vars
<1>3. ASSUME NEW t \in Threads, (\E v \in Values : Store(t, v)) \/ TimerFires(t) \/ Interrupt(t)
      PROVE  CallInv'
  BY <1>1, <1>3 DEF Store, TimerFires, Interrupt
<1>4. ASSUME NEW t \in Threads, NEW v \in Values, NEW b \in (SUBSET Bits) \ {{}}, EnterWait(t, v, b)
      PROVE  CallInv'
  <2>1. /\ big_lock[ProcessOf(t)] = Nothing /\ big_lock' = [big_lock EXCEPT ![ProcessOf(t)] = t]
        /\ pc' = [pc EXCEPT ![t] = "check"] /\ val' = [val EXCEPT ![t] = v]
        /\ UNCHANGED <<count, futex_queue, s_global_futex_queues>>
        /\ bitset' = [bitset EXCEPT ![t] = IF b = MatchAny THEN {} ELSE b]
    BY <1>4 DEF EnterWait, Enter
  <2>2. pc'[t] = "check" /\ \A u \in Threads : u # t => /\ pc'[u] = pc[u] /\ val'[u] = val[u]
                                                        /\ bitset'[u] = bitset[u]
    BY <1>0, <2>1 DEF TypeOK
  <2>. QED BY <2>1, <2>2, CallInvKept
<1>5. ASSUME NEW t \in Threads, NEW n \in 1..Cardinality(Threads), NEW b \in (SUBSET Bits) \ {{}}, EnterWake(t, n, b)
      PROVE  CallInv'
  <2>1. /\ pc[t] = "user"
        /\ big_lock[ProcessOf(t)] = Nothing /\ big_lock' = [big_lock EXCEPT ![ProcessOf(t)] = t]
        /\ pc' = [pc EXCEPT ![t] = "wakefind"] /\ count' = [count EXCEPT ![t] = n]
        /\ UNCHANGED <<val, futex_queue, s_global_futex_queues>>
        /\ bitset' = [bitset EXCEPT ![t] = b]
    BY <1>5 DEF EnterWake, Enter
  <2>2. pc'[t] = "wakefind" /\ \A u \in Threads : u # t => /\ pc'[u] = pc[u] /\ count'[u] = count[u]
                                                           /\ bitset'[u] = bitset[u]
    BY <1>0, <2>1 DEF TypeOK
  <2>3. count'[t] = n /\ n > 0 /\ bitset'[t] = b
    <3>1. Cardinality(Threads) \in Nat BY FutexAssumption, FS_CardinalityType
    <3>2. n > 0 BY <3>1
    <3>3. count'[t] = n BY <1>0, <2>1 DEF TypeOK
    <3>4. bitset'[t] = b BY <1>0, <2>1 DEF TypeOK
    <3>. QED BY <3>2, <3>3, <3>4
  <2>4. b = Bits
    <3>1. PICK x : Bits = {x} BY DEF NoBitsets
    <3>2. b \subseteq {x} /\ b # {} BY <3>1
    <3>3. x \in b BY <3>2
    <3>. QED BY <3>1, <3>2, <3>3
  <2>5. val'[t] = AnyValue
    BY <2>1 DEF CallInv
  <2>. QED BY <2>1, <2>2, <2>3, <2>4, <2>5, CallInvKept
<1>6. ASSUME NEW t \in Threads, Leave(t), pc[t] \notin Outside PROVE CallInv'
  <2>1. /\ pc' = [pc EXCEPT ![t] = "user"] /\ big_lock' = [big_lock EXCEPT ![ProcessOf(t)] = Nothing]
        /\ val' = [val EXCEPT ![t] = AnyValue] /\ bitset' = [bitset EXCEPT ![t] = {}]
        /\ count' = [count EXCEPT ![t] = 0] /\ futex_queue' = [futex_queue EXCEPT ![t] = Nothing]
    BY <1>6 DEF Leave
  <2>2. /\ pc'[t] = "user" /\ val'[t] = AnyValue
        /\ \A u \in Threads : u # t => /\ pc'[u] = pc[u] /\ futex_queue'[u] = futex_queue[u]
                                       /\ val'[u] = val[u] /\ count'[u] = count[u] /\ bitset'[u] = bitset[u]
    BY <1>0, <2>1 DEF TypeOK
  <2>. QED BY <1>6, <2>1, <2>2, CallInvKept
<1>7. ASSUME NEW t \in Threads, NEW where \in {"check", "find", "imminent", "wait", "done", "remove"},
             pc[t] \notin Outside, pc' = [pc EXCEPT ![t] = where],
             \A u \in Threads : u # t => futex_queue'[u] = futex_queue[u],
             UNCHANGED <<big_lock, args>>
      PROVE  CallInv'
  <2>1. pc'[t] = where /\ \A u \in Threads : u # t => pc'[u] = pc[u]
    BY <1>0, <1>7 DEF TypeOK
  <2>. QED BY <1>7, <2>1, CallInvKept
<1>8. ASSUME NEW t \in Threads,
             \/ CheckValue(t) \/ FindQueue(t) \/ (\E q \in Queues : CreateQueue(t, q))
             \/ QueueImminentWait(t) \/ WaitOnTooLate(t)
      PROVE  CallInv'
  <2>1. CASE CheckValue(t)
    BY <1>6, <1>7, <1>8, <2>1 DEF CheckValue, Goto, LeaveWait
  <2>2. CASE FindQueue(t)
    <3>1. \A u \in Threads : u # t => futex_queue'[u] = futex_queue[u]
      BY <1>0, <2>2 DEF FindQueue, TypeOK
    <3>. QED BY <1>7, <2>2, <3>1 DEF FindQueue, Goto
  <2>3. CASE \E q \in Queues : CreateQueue(t, q)
    <3>1. \A u \in Threads : u # t => futex_queue'[u] = futex_queue[u]
      BY <1>0, <2>3 DEF CreateQueue, TypeOK
    <3>. QED BY <1>7, <2>3, <3>1 DEF CreateQueue, Goto
  <2>4. CASE QueueImminentWait(t)
    <3>1. \A u \in Threads : u # t => futex_queue'[u] = futex_queue[u]
      BY <1>0, <2>4 DEF QueueImminentWait, TypeOK
    <3>. QED BY <1>7, <2>4, <3>1 DEF QueueImminentWait, Goto
  <2>5. CASE WaitOnTooLate(t)
    BY <1>7, <2>5 DEF WaitOnTooLate
  <2>. QED BY <1>8, <2>1, <2>2, <2>3, <2>4, <2>5
<1>9. ASSUME NEW t \in Threads, WaitOn(t) PROVE CallInv'
  <2>1. CASE futex_queue[t] \in m_was_removed
    BY <1>7, <1>9, <2>1 DEF WaitOn, Goto
  <2>2. CASE futex_queue[t] \notin m_was_removed
    <3>1. /\ pc[t] = "wait" /\ pc' = [pc EXCEPT ![t] = "sleep"]
          /\ big_lock' = [big_lock EXCEPT ![ProcessOf(t)] = Nothing]
          /\ UNCHANGED <<args, futex_queue, s_global_futex_queues>>
      BY <1>9, <2>2 DEF WaitOn
    <3>2. pc'[t] = "sleep" /\ \A u \in Threads : u # t => pc'[u] = pc[u]
      BY <1>0, <3>1 DEF TypeOK
    <3>. QED BY <3>1, <3>2, CallInvKept
  <2>. QED BY <2>1, <2>2
<1>10. ASSUME NEW t \in Threads, Relock(t) PROVE CallInv'
  <2>1. /\ big_lock[ProcessOf(t)] = Nothing /\ big_lock' = [big_lock EXCEPT ![ProcessOf(t)] = t]
        /\ pc' = [pc EXCEPT ![t] = "done"] /\ UNCHANGED <<args, futex_queue, s_global_futex_queues>>
    BY <1>10 DEF Relock
  <2>2. pc'[t] = "done" /\ \A u \in Threads : u # t => pc'[u] = pc[u]
    BY <1>0, <2>1 DEF TypeOK
  <2>. QED BY <2>1, <2>2, CallInvKept
<1>11. ASSUME NEW t \in Threads, Done(t) \/ RemoveQueue(t) \/ WakeNobody(t) \/ WakeN(t) PROVE CallInv'
  <2>1. pc[t] \in {"done", "remove", "wakefind", "wake"}
    BY <1>11 DEF Done, RemoveQueue, WakeNobody, WakeN
  <2>2. \/ Leave(t)
        \/ pc' = [pc EXCEPT ![t] = "remove"] /\ UNCHANGED <<futex_queue, big_lock, args>>
    BY <1>11 DEF Done, RemoveQueue, WakeNobody, WakeN, Goto, LeaveWait
  <2>. QED BY <1>6, <1>7, <2>1, <2>2
<1>12. ASSUME NEW t \in Threads, WakeFind(t) PROVE CallInv'
  <2>1. /\ pc[t] = "wakefind" /\ pc' = [pc EXCEPT ![t] = "wake"]
        /\ futex_queue' = [futex_queue EXCEPT ![t] = s_global_futex_queues]
        /\ UNCHANGED <<big_lock, args, s_global_futex_queues>>
    BY <1>12 DEF WakeFind, Goto
  <2>2. /\ pc'[t] = "wake" /\ futex_queue'[t] = s_global_futex_queues
        /\ \A u \in Threads : u # t => pc'[u] = pc[u] /\ futex_queue'[u] = futex_queue[u]
    BY <1>0, <2>1 DEF TypeOK
  <2>3. val[t] = AnyValue /\ count[t] > 0 /\ bitset[t] = Bits
    BY <2>1 DEF CallInv
  <2>. QED BY <2>1, <2>2, <2>3, CallInvKept
<1>13. CASE Next
  <2>1. PICK t \in Threads :
        \/ \E v \in Values : Store(t, v)
        \/ \E v \in Values, b \in (SUBSET Bits) \ {{}} : EnterWait(t, v, b)
        \/ \E n \in 1..Cardinality(Threads), b \in (SUBSET Bits) \ {{}} : EnterWake(t, n, b)
        \/ CheckValue(t) \/ FindQueue(t)
        \/ \E q \in Queues : CreateQueue(t, q)
        \/ QueueImminentWait(t) \/ WaitOn(t) \/ WaitOnTooLate(t)
        \/ TimerFires(t) \/ Interrupt(t) \/ Relock(t) \/ Done(t) \/ RemoveQueue(t)
        \/ WakeNobody(t) \/ WakeFind(t) \/ WakeN(t)
    BY <1>13 DEF Next
  <2>. QED BY <2>1, <1>3, <1>4, <1>5, <1>8, <1>9, <1>10, <1>11, <1>12
<1>. QED BY <1>2, <1>13

-----------------------------------------------------------------------------
(* What FutexSpec sees of the system call. *)

\* The values that Futex gives to waiters and waking of FutexSpec.
Waiters ==
    {t \in Threads : pc[t] \in {"find", "imminent", "wait"}} \cup UNION {Range(m_blockers[q]) : q \in Queues}

Waking == [t \in Threads |-> IF pc[t] \in {"wakefind", "wake"} THEN count[t] ELSE 0]

AbstractStep == Abstract!Next \/ UNCHANGED Abstract!specVars

OnQueue(u) == \E q \in Queues : u \in Range(m_blockers[q])

WaitersAre ==
    \A u : u \in Waiters <=> u \in Threads /\ (pc[u] \in {"find", "imminent", "wait"} \/ OnQueue(u))

\* A thread waits from the moment it has seen the value until it is woken.
LEMMA WaiterIs == TypeOK => WaitersAre
<1>. SUFFICES ASSUME TypeOK PROVE WaitersAre
  OBVIOUS
<1>1. \A q \in Queues : Range(m_blockers[q]) \subseteq Threads
  <2>. TAKE q \in Queues
  <2>1. m_blockers[q] \in Seq(Threads) BY DEF TypeOK
  <2>. QED BY <2>1, ListElements DEF Range
<1>. QED BY <1>1 DEF WaitersAre, Waiters, OnQueue

\* The steps of FutexSpec in terms of Waiters and Waking.
LEMMA StutterOf ==
    ASSUME word' = word, Waiters' = Waiters, val' = val, Waking' = Waking
    PROVE  AbstractStep
  BY DEF AbstractStep, Abstract!specVars, Waiters, Waking

\* User code stores to the word.
LEMMA StoreOf ==
    ASSUME NEW v \in Values, word' = v, Waiters' = Waiters, val' = val, Waking' = Waking
    PROVE  AbstractStep
  BY DEF AbstractStep, Abstract!Next, Abstract!Store, Waiters, Waking

\* A call to wait begins: the expected value is known.
LEMMA CallWaitOf ==
    ASSUME NEW t \in Threads, NEW v \in Values, t \notin Waiters,
           word' = word, Waiters' = Waiters, val' = [val EXCEPT ![t] = v], Waking' = Waking
    PROVE  AbstractStep
  BY DEF AbstractStep, Abstract!Next, Abstract!CallWait, Waiters, Waking

\* The comparison succeeds and the thread waits from now on.
LEMMA WaitOf ==
    ASSUME NEW t \in Threads, word = val[t],
           word' = word, Waiters' = Waiters \cup {t}, val' = val, Waking' = Waking
    PROVE  AbstractStep
  BY DEF AbstractStep, Abstract!Next, Abstract!Wait, Waiters, Waking

\* A waiter stops waiting, or one that does not wait goes on not to.
LEMMA GiveUpOf ==
    ASSUME NEW t \in Threads,
           word' = word, Waiters' = Waiters \ {t}, val' = val, Waking' = Waking
    PROVE  AbstractStep
  BY DEF AbstractStep, Abstract!Next, Abstract!GiveUp, Waiters, Waking

\* A call to wake n threads begins.
LEMMA CallWakeOf ==
    ASSUME NEW t \in Threads, NEW n \in 1..Cardinality(Threads), Waking[t] = 0,
           word' = word, Waiters' = Waiters, val' = val, Waking' = [Waking EXCEPT ![t] = n]
    PROVE  AbstractStep
<1>1. Abstract!Cardinality(Threads) = Cardinality(Threads)
  BY Zenon DEF Abstract!Cardinality, Cardinality
<1>. QED BY <1>1 DEF AbstractStep, Abstract!Next, Abstract!CallWake, Waiters, Waking

\* The wake-up wakes as many as it was asked to, or all there are.
LEMMA WakeOf ==
    ASSUME NEW t \in Threads, Waking[t] > 0, NEW G \in SUBSET Waiters,
           Cardinality(G) = Waking[t] \/ (Cardinality(G) < Waking[t] /\ G = Waiters),
           word' = word, Waiters' = Waiters \ G, val' = val, Waking' = [Waking EXCEPT ![t] = 0]
    PROVE  AbstractStep
<1>1. Abstract!Cardinality(G) = Cardinality(G)
  BY Zenon DEF Abstract!Cardinality, Cardinality
<1>2. Abstract!Wake(t)
  BY <1>1 DEF Abstract!Wake, Waiters, Waking
<1>. QED BY <1>2 DEF AbstractStep, Abstract!Next

-----------------------------------------------------------------------------
(* The steps of Futex are steps of FutexSpec. *)

\* A step of t that leaves the queues alone, or adds or removes t at most.
LEMMA WaitersChange ==
    ASSUME TypeOK, TypeOK', NEW t \in Threads,
           \A u \in Threads : u # t => pc'[u] = pc[u] /\ (OnQueue(u)' <=> OnQueue(u))
    PROVE  /\ t \in Waiters' => Waiters' = Waiters \cup {t}
           /\ t \notin Waiters' => Waiters' = Waiters \ {t}
<1>1. WaitersAre /\ WaitersAre'
  BY WaiterIs, PTL
<1>2. \A u : u # t => (u \in Waiters' <=> u \in Waiters)
  BY <1>1 DEF WaitersAre
<1>. QED BY <1>2

\* A step of t that leaves the queues alone takes it to the place where.
LEMMA MoveOf ==
    ASSUME QueueInv, TypeOK', NEW t \in Threads, NEW where, pc[t] # "sleep", m_blockers' = m_blockers,
           pc' = [pc EXCEPT ![t] = where]
    PROVE  /\ t \in Waiters <=> pc[t] \in {"find", "imminent", "wait"}
           /\ where \in {"find", "imminent", "wait"} => Waiters' = Waiters \cup {t}
           /\ where \notin {"find", "imminent", "wait"} => Waiters' = Waiters \ {t}
<1>0. TypeOK
  BY DEF QueueInv
<1>1. \A u : OnQueue(u)' <=> OnQueue(u)
  BY DEF OnQueue
<1>2. ~OnQueue(t)
  BY BlockersSleep DEF OnQueue
<1>3. pc'[t] = where /\ \A u \in Threads : u # t => pc'[u] = pc[u]
  BY <1>0 DEF TypeOK
<1>4. WaitersAre /\ WaitersAre'
  BY <1>0, WaiterIs, PTL
<1>5. \A u \in Threads : u # t => pc'[u] = pc[u] /\ (OnQueue(u)' <=> OnQueue(u))
  BY <1>1, <1>3
<1>6. t \in Waiters' <=> where \in {"find", "imminent", "wait"}
  BY <1>1, <1>2, <1>3, <1>4 DEF WaitersAre
<1>7. t \in Waiters <=> pc[t] \in {"find", "imminent", "wait"}
  BY <1>2, <1>4 DEF WaitersAre
<1>. QED BY <1>0, <1>5, <1>6, <1>7, WaitersChange

\* Moving on inside the call, with the arguments and the queues as they are.
LEMMA GotoRefines ==
    ASSUME QueueInv, TypeOK', NEW t \in Threads, NEW where, pc' = [pc EXCEPT ![t] = where],
           UNCHANGED <<word, m_blockers, val, count>>,
           \/ /\ pc[t] \in {"find", "imminent", "wait"} /\ where \in {"find", "imminent", "wait", "check", "done"}
           \/ pc[t] = "check" /\ where = "find" /\ word = val[t]
           \/ pc[t] = "done" /\ where = "remove"
           \/ pc[t] = "wakefind" /\ where = "wake"
    PROVE  AbstractStep
<1>0. TypeOK
  BY DEF QueueInv
<1>1. Waking' = Waking
  <2>1. pc'[t] \in {"wakefind", "wake"} <=> pc[t] \in {"wakefind", "wake"}
    BY <1>0 DEF TypeOK
  <2>2. \A u \in Threads : pc'[u] \in {"wakefind", "wake"} <=> pc[u] \in {"wakefind", "wake"}
    BY <1>0, <2>1 DEF TypeOK
  <2>. QED BY <2>2 DEF Waking
<1>2. pc[t] # "sleep"
  OBVIOUS
<1>3. /\ t \in Waiters <=> pc[t] \in {"find", "imminent", "wait"}
      /\ where \in {"find", "imminent", "wait"} => Waiters' = Waiters \cup {t}
      /\ where \notin {"find", "imminent", "wait"} => Waiters' = Waiters \ {t}
  BY <1>2, MoveOf
<1>4. CASE pc[t] = "check" /\ where = "find" /\ word = val[t]
  BY <1>1, <1>3, <1>4, WaitOf
<1>5. CASE where \notin {"find", "imminent", "wait"}
  BY <1>1, <1>3, <1>5, GiveUpOf
<1>6. CASE pc[t] \in {"find", "imminent", "wait"} /\ where \in {"find", "imminent", "wait"}
  <2>1. Waiters' = Waiters BY <1>3, <1>6
  <2>. QED BY <1>1, <2>1, StutterOf
<1>. QED BY <1>4, <1>5, <1>6

\* A wait call that returns forgets the value it compared with.
LEMMA LeaveRefines ==
    ASSUME QueueInv, TypeOK', NEW t \in Threads, pc[t] \in {"check", "done", "remove"}, Leave(t),
           UNCHANGED <<word, m_blockers>>
    PROVE  AbstractStep
<1>0. TypeOK
  BY DEF QueueInv
<1>1. /\ pc' = [pc EXCEPT ![t] = "user"] /\ val' = [val EXCEPT ![t] = AnyValue]
      /\ count' = [count EXCEPT ![t] = 0]
  BY DEF Leave
<1>2. t \notin Waiters /\ Waiters' = Waiters
  <2>1. /\ t \in Waiters <=> pc[t] \in {"find", "imminent", "wait"}
        /\ "user" \notin {"find", "imminent", "wait"} => Waiters' = Waiters \ {t}
    <3>1. pc[t] # "sleep" /\ m_blockers' = m_blockers OBVIOUS
    <3>. QED BY <1>1, <3>1, MoveOf
  <2>. QED BY <2>1
<1>3. Waking' = Waking
  <2>1. \A u \in Threads : u # t => pc'[u] = pc[u] /\ count'[u] = count[u]
    BY <1>0, <1>1 DEF TypeOK
  <2>2. pc'[t] \notin {"wakefind", "wake"} /\ pc[t] \notin {"wakefind", "wake"}
    BY <1>0, <1>1 DEF TypeOK
  <2>. QED BY <2>1, <2>2 DEF Waking
<1>4. AnyValue \in Values
  BY FutexAssumption DEF AnyValue
<1>. QED BY <1>1, <1>2, <1>3, <1>4, CallWaitOf

\* The calls begin, and the user stores.
LEMMA EnterRefines ==
    ASSUME QueueInv, TypeOK', NEW t \in Threads,
           \/ \E v \in Values : Store(t, v)
           \/ \E v \in Values, b \in (SUBSET Bits) \ {{}} : EnterWait(t, v, b)
           \/ \E n \in 1..Cardinality(Threads), b \in (SUBSET Bits) \ {{}} : EnterWake(t, n, b)
    PROVE  AbstractStep
<1>0. TypeOK
  BY DEF QueueInv
<1>1. ASSUME NEW v \in Values, Store(t, v) PROVE AbstractStep
  <2>1. word' = v /\ UNCHANGED <<pc, m_blockers, val, count>>
    BY <1>1 DEF Store
  <2>2. Waiters' = Waiters /\ Waking' = Waking
    BY <2>1 DEF Waiters, Waking
  <2>. QED BY <2>1, <2>2, StoreOf
<1>2. ASSUME NEW where \in {"check", "wakefind"}, Enter(t, where), m_blockers' = m_blockers
      PROVE  /\ pc[t] = "user" /\ pc' = [pc EXCEPT ![t] = where]
             /\ t \notin Waiters /\ Waiters' = Waiters
  <2>1. pc[t] = "user" /\ pc' = [pc EXCEPT ![t] = where]
    BY <1>2 DEF Enter
  <2>2. (t \in Waiters <=> pc[t] \in {"find", "imminent", "wait"}) /\ Waiters' = Waiters \ {t}
    BY <1>2, <2>1, MoveOf
  <2>. QED BY <2>1, <2>2
<1>3. ASSUME NEW v \in Values, NEW b, EnterWait(t, v, b) PROVE AbstractStep
  <2>1. /\ Enter(t, "check") /\ val' = [val EXCEPT ![t] = v]
        /\ UNCHANGED <<word, m_blockers, count>>
    BY <1>3 DEF EnterWait
  <2>2. pc[t] = "user" /\ pc' = [pc EXCEPT ![t] = "check"] /\ t \notin Waiters /\ Waiters' = Waiters
    BY <1>2, <2>1
  <2>3. \A u \in Threads : pc'[u] \in {"wakefind", "wake"} <=> pc[u] \in {"wakefind", "wake"}
    BY <1>0, <2>2 DEF TypeOK
  <2>4. Waking' = Waking
    BY <2>1, <2>3 DEF Waking
  <2>. QED BY <2>1, <2>2, <2>4, CallWaitOf
<1>4. ASSUME NEW n \in 1..Cardinality(Threads), NEW b, EnterWake(t, n, b) PROVE AbstractStep
  <2>1. /\ Enter(t, "wakefind") /\ count' = [count EXCEPT ![t] = n]
        /\ UNCHANGED <<word, m_blockers, val>>
    BY <1>4 DEF EnterWake
  <2>2. pc[t] = "user" /\ pc' = [pc EXCEPT ![t] = "wakefind"] /\ t \notin Waiters /\ Waiters' = Waiters
    BY <1>2, <2>1
  <2>3. Waking[t] = 0
    BY <2>2 DEF Waking
  <2>4. \A u \in Threads : u # t => pc'[u] = pc[u] /\ count'[u] = count[u]
    BY <1>0, <2>1, <2>2 DEF TypeOK
  <2>5. pc'[t] = "wakefind" /\ count'[t] = n
    BY <1>0, <2>1, <2>2 DEF TypeOK
  <2>6. Waking' = [Waking EXCEPT ![t] = n]
    BY <2>4, <2>5 DEF Waking
  <2>. QED BY <2>1, <2>2, <2>3, <2>6, CallWakeOf
<1>. QED BY <1>1, <1>3, <1>4

\* Falling asleep: the thread waits as before, now as a blocker of the queue.
LEMMA SleepRefines ==
    ASSUME QueueInv, TypeOK', NEW t \in Threads, NEW q \in Queues, pc[t] = "wait",
           pc' = [pc EXCEPT ![t] = "sleep"], m_blockers' = [m_blockers EXCEPT ![q] = Append(@, t)],
           UNCHANGED <<word, val, count>>
    PROVE  AbstractStep
<1>0. TypeOK
  BY DEF QueueInv
<1>1. m_blockers[q] \in Seq(Threads)
  BY <1>0 DEF TypeOK
<1>2. Range(Append(m_blockers[q], t)) = Range(m_blockers[q]) \cup {t}
  BY <1>1, ListAppend
<1>3. /\ Range(m_blockers'[q]) = Range(m_blockers[q]) \cup {t}
      /\ \A p \in Queues : p # q => Range(m_blockers'[p]) = Range(m_blockers[p])
  BY <1>0, <1>2 DEF TypeOK
<1>4. OnQueue(t)' /\ \A u : u # t => (OnQueue(u)' <=> OnQueue(u))
  BY <1>3 DEF OnQueue
<1>5. \A u \in Threads : u # t => pc'[u] = pc[u]
  BY <1>0 DEF TypeOK
<1>6. WaitersAre /\ WaitersAre'
  BY <1>0, WaiterIs, PTL
<1>7. t \in Waiters /\ t \in Waiters'
  BY <1>4, <1>6 DEF WaitersAre
<1>8. Waiters' = Waiters
  BY <1>0, <1>4, <1>5, <1>7, WaitersChange
<1>9. Waking' = Waking
  <2>1. \A u \in Threads : pc'[u] \in {"wakefind", "wake"} <=> pc[u] \in {"wakefind", "wake"}
    BY <1>0 DEF TypeOK
  <2>. QED BY <2>1 DEF Waking
<1>. QED BY <1>8, <1>9, StutterOf

\* Waking up: a thread that was not woken by a wake call gives up.
LEMMA RelockRefines ==
    ASSUME QueueInv, TypeOK', NEW t \in Threads, Relock(t)
    PROVE  AbstractStep
<1>0. TypeOK
  BY DEF QueueInv
<1>1. PICK q \in Queues : q = futex_queue[t]
  BY <1>0 DEF QueueInv, HeldInv, TypeOK, Relock
<1>2. /\ pc[t] = "sleep" /\ pc' = [pc EXCEPT ![t] = "done"]
      /\ m_blockers' = [m_blockers EXCEPT ![q] = RemoveFirst(@, t)]
      /\ UNCHANGED <<word, val, count>>
  BY <1>1 DEF Relock
<1>3. m_blockers[q] \in Seq(Threads) /\ IsInjective(m_blockers[q])
  BY <1>0 DEF TypeOK, QueueInv, BlockersInv
<1>4. Range(RemoveFirst(m_blockers[q], t)) = Range(m_blockers[q]) \ {t}
  BY <1>3, ListRemoveFirst
<1>5. /\ Range(m_blockers'[q]) = Range(m_blockers[q]) \ {t}
      /\ \A p \in Queues : p # q => Range(m_blockers'[p]) = Range(m_blockers[p])
  BY <1>0, <1>2, <1>4 DEF TypeOK
<1>6. \A p \in Queues : p # q => t \notin Range(m_blockers[p])
  BY <1>1 DEF QueueInv, BlockersInv
<1>7. ~OnQueue(t)' /\ \A u : u # t => (OnQueue(u)' <=> OnQueue(u))
  BY <1>5, <1>6 DEF OnQueue
<1>8. pc'[t] = "done" /\ \A u \in Threads : u # t => pc'[u] = pc[u]
  BY <1>0, <1>2 DEF TypeOK
<1>9. WaitersAre'
  BY WaiterIs, PTL
<1>10. t \notin Waiters'
  BY <1>7, <1>8, <1>9 DEF WaitersAre
<1>11. Waiters' = Waiters \ {t}
  BY <1>0, <1>7, <1>8, <1>10, WaitersChange
<1>12. Waking' = Waking
  <2>1. \A u \in Threads : pc'[u] \in {"wakefind", "wake"} <=> pc[u] \in {"wakefind", "wake"}
    BY <1>0, <1>2 DEF TypeOK
  <2>. QED BY <1>2, <2>1 DEF Waking
<1>. QED BY <1>2, <1>11, <1>12, GiveUpOf

\* Leaving or going on to the removal ends a wake call.
LEMMA WakeEnds ==
    ASSUME QueueInv, CallInv, NEW t \in Threads, pc[t] \in {"wakefind", "wake"},
           \/ Leave(t)
           \/ pc' = [pc EXCEPT ![t] = "remove"] /\ UNCHANGED args
    PROVE  /\ val' = val /\ Waking[t] = count[t] /\ count[t] > 0
           /\ Waking' = [Waking EXCEPT ![t] = 0]
           /\ pc'[t] \in {"user", "remove"} /\ \A u \in Threads : u # t => pc'[u] = pc[u]
<1>0. TypeOK /\ val[t] = AnyValue /\ count[t] > 0
  BY DEF QueueInv, CallInv
<1>1. val' = val
  BY <1>0 DEF TypeOK, Leave
<1>2. pc'[t] \in {"user", "remove"} /\ \A u \in Threads : u # t => pc'[u] = pc[u]
  BY <1>0 DEF TypeOK, Leave
<1>3. \A u \in Threads : u # t => count'[u] = count[u]
  BY <1>0 DEF TypeOK, Leave
<1>4. Waking' = [Waking EXCEPT ![t] = 0]
  BY <1>2, <1>3 DEF Waking
<1>5. Waking[t] = count[t]
  BY DEF Waking
<1>. QED BY <1>0, <1>1, <1>2, <1>4, <1>5

\* A thread in do_wake() is alone in the call, so whoever waits is on a queue.
LEMMA WaitersAreBlockers ==
    ASSUME OneProcess, QueueInv, CallInv, NEW t \in Threads, pc[t] \in {"wakefind", "wake"}
    PROVE  /\ s_global_futex_queues = Nothing => Waiters = {}
           /\ s_global_futex_queues \in Queues => Waiters = Range(m_blockers[s_global_futex_queues])
<1>1. WaitersAre
  BY WaiterIs DEF QueueInv
<1>2. \A u \in Threads : pc[u] \notin {"find", "imminent", "wait"}
  <2>1. pc[t] \notin Outside BY DEF Outside
  <2>2. \A u \in Threads : u # t => pc[u] \in Outside BY <2>1, OneInside
  <2>. QED BY <2>2 DEF Outside
<1>3. \A q \in Queues : q # s_global_futex_queues => m_blockers[q] = <<>>
  BY DEF QueueInv, NoDetachedWaiter, IsEmptyAndNoImminentWaits
<1>4. \A q \in Queues : q # s_global_futex_queues => Range(m_blockers[q]) = {}
  BY <1>3 DEF Range
<1>5. \A q \in Queues : \A u \in Range(m_blockers[q]) : u \in Threads
  <2>. TAKE q \in Queues
  <2>1. m_blockers[q] \in Seq(Threads) BY DEF QueueInv, TypeOK
  <2>. QED BY <2>1, ListElements DEF Range
<1>6. ASSUME s_global_futex_queues = Nothing PROVE Waiters = {}
  <2>1. \A q \in Queues : q # s_global_futex_queues BY <1>6, FutexAssumption
  <2>. QED BY <1>1, <1>2, <1>4, <2>1 DEF WaitersAre, OnQueue
<1>7. ASSUME s_global_futex_queues \in Queues PROVE Waiters = Range(m_blockers[s_global_futex_queues])
  BY <1>1, <1>2, <1>4, <1>5, <1>7 DEF WaitersAre, OnQueue
<1>. QED BY <1>6, <1>7

\* The cardinality of an interval that starts at 1.
LEMMA UpTo == ASSUME NEW n \in Nat PROVE IsFiniteSet(1..n) /\ Cardinality(1..n) = n
<1>1. 1 \in Int /\ n \in Int OBVIOUS
<1>2. IsFiniteSet(1..n) /\ Cardinality(1..n) = IF 1 > n THEN 0 ELSE n-1+1
  BY <1>1, FS_Interval
<1>. QED BY <1>2

\* The first n elements of a list are n elements.
LEMMA FirstElements ==
    ASSUME NEW S, NEW s \in Seq(S), IsInjective(s), NEW n \in Nat, n <= Len(s)
    PROVE  Cardinality({s[i] : i \in 1..n}) = n
<1>. DEFINE T == {s[i] : i \in 1..n}
            f == [i \in 1..n |-> s[i]]
<1>1. Len(s) \in Nat /\ DOMAIN s = 1..Len(s)
  BY ListElements
<1>2. f \in [1..n -> T] /\ \A i \in 1..n : f[i] = s[i]
  OBVIOUS
<1>3. \A x \in T : \E i \in 1..n : f[i] = x
  BY <1>2
<1>4. \A i, j \in 1..n : s[i] = s[j] => i = j
  BY <1>1 DEF IsInjective
<1>. HIDE DEF f, T
<1>5. f \in Surjection(1..n, T)
  BY <1>2, <1>3 DEF Surjection
<1>6. f \in Injection(1..n, T)
  BY <1>2, <1>4 DEF Injection, IsInjective
<1>7. IsFiniteSet(1..n) /\ Cardinality(1..n) = n
  BY UpTo
<1>8. Cardinality(T) = Cardinality(1..n)
  BY <1>5, <1>6, <1>7, FS_Surjection
<1>. QED BY <1>7, <1>8 DEF T

\* A wake call with all bits takes the first n blockers, or all of them.
LEMMA FirstMatchingAll ==
    ASSUME NEW S, NEW s \in Seq(S), NEW n \in Nat
    PROVE  FirstMatching(s, n, Bits) = {i \in DOMAIN s : i <= n}
<1>1. Len(s) \in Nat /\ DOMAIN s = 1..Len(s)
  BY ListElements
<1>2. \A x : Matches(x, Bits)
  BY DEF Matches, MatchAny
<1>3. ASSUME NEW i \in DOMAIN s PROVE Cardinality({j \in 1..i : Matches(s[j], Bits)}) = i
  <2>1. {j \in 1..i : Matches(s[j], Bits)} = 1..i BY <1>2
  <2>2. i \in Nat BY <1>1
  <2>. QED BY <2>1, <2>2, UpTo
<1>. QED BY <1>2, <1>3 DEF FirstMatching

\* wake_n() wakes as many as it was asked to, or everybody.
LEMMA WakeNRefines ==
    ASSUME OneProcess, QueueInv, TypeOK', CallInv, NEW t \in Threads, WakeN(t)
    PROVE  AbstractStep
<1>0. TypeOK /\ pc[t] = "wake"
  BY DEF QueueInv, WakeN
<1>. PICK q \in Queues : q = futex_queue[t]
  BY <1>0 DEF QueueInv, HeldInv, TypeOK
<1>. DEFINE s     == m_blockers[q]
            n     == count[t]
            first == FirstMatching(s, n, bitset[t])
            woken == {s[i] : i \in first}
            rest  == Subsequence(s, DOMAIN s \ first)
<1>1. /\ m_blockers' = [m_blockers EXCEPT ![q] = rest]
      /\ \/ pc' = [pc EXCEPT ![t] = "remove"] /\ UNCHANGED args
         \/ Leave(t)
      /\ word' = word
  BY DEF WakeN
<1>2. s_global_futex_queues = q /\ bitset[t] = Bits
  BY <1>0 DEF CallInv
<1>3. s \in Seq(Threads) /\ IsInjective(s) /\ n \in Nat
  <2>1. Cardinality(Threads) \in Nat BY FutexAssumption, FS_CardinalityType
  <2>2. n \in Nat BY <1>0, <2>1 DEF TypeOK
  <2>. QED BY <1>0, <2>2 DEF TypeOK, QueueInv, BlockersInv
<1>4. Len(s) \in Nat /\ DOMAIN s = 1..Len(s)
  BY <1>3, ListElements
<1>5. Waiters = Range(s)
  BY <1>0, <1>2, WaitersAreBlockers
<1>6. /\ val' = val /\ Waking[t] = n /\ n > 0
      /\ Waking' = [Waking EXCEPT ![t] = 0]
      /\ pc'[t] \in {"user", "remove"} /\ \A u \in Threads : u # t => pc'[u] = pc[u]
  <2>1. pc[t] \in {"wakefind", "wake"} BY <1>0
  <2>. QED BY <1>1, <2>1, WakeEnds
<1>7. first = {i \in DOMAIN s : i <= n}
  BY <1>2, <1>3, FirstMatchingAll
<1>8. Range(rest) = Range(s) \ woken
  <2>. DEFINE I == DOMAIN s \ first
  <2>1. I \in SUBSET DOMAIN s OBVIOUS
  <2>. HIDE DEF I, s
  <2>2. Range(Subsequence(s, I)) = {s[i] : i \in I}
    BY <1>3, <2>1, SubsequenceElements
  <2>3. first \subseteq DOMAIN s /\ I = DOMAIN s \ first
    BY <1>7 DEF I
  <2>. HIDE DEF first
  <2>4. {s[i] : i \in I} = Range(s) \ {s[i] : i \in first}
    BY <1>3, <2>3 DEF IsInjective, Range
  <2>. QED BY <2>2, <2>4 DEF I
<1>9. woken \in SUBSET Waiters /\ (Cardinality(woken) = n \/ (Cardinality(woken) < n /\ woken = Waiters))
  <2>. HIDE DEF s, n
  <2>1. CASE n <= Len(s)
    <3>1. first = 1..n BY <1>3, <1>4, <1>7, <2>1
    <3>2. Cardinality({s[i] : i \in 1..n}) = n BY <1>3, <2>1, FirstElements
    <3>3. {s[i] : i \in 1..n} \subseteq Range(s) BY <1>3, <1>4, <2>1 DEF Range
    <3>. HIDE DEF first
    <3>. QED BY <1>5, <3>1, <3>2, <3>3
  <2>2. CASE n > Len(s)
    <3>1. first = DOMAIN s BY <1>3, <1>4, <1>7, <2>2
    <3>2. Cardinality({s[i] : i \in 1..Len(s)}) = Len(s)
      <4>1. Len(s) <= Len(s) BY <1>4
      <4>. QED BY <1>3, <1>4, <4>1, FirstElements
    <3>3. {s[i] : i \in 1..Len(s)} = Range(s) BY <1>4 DEF Range
    <3>. HIDE DEF first
    <3>. QED BY <1>4, <1>5, <2>2, <3>1, <3>2, <3>3
  <2>. QED BY <1>3, <1>4, <2>1, <2>2
<1>10. Waiters' = Waiters \ woken
  <2>. HIDE DEF rest, woken
  <2>1. /\ Range(m_blockers'[q]) = Range(rest)
        /\ \A p \in Queues : p # q => m_blockers'[p] = m_blockers[p]
    BY <1>0, <1>1 DEF TypeOK
  <2>2. \A p \in Queues : p # q => Range(m_blockers'[p]) = {}
    BY <1>2, <2>1 DEF QueueInv, NoDetachedWaiter, IsEmptyAndNoImminentWaits, Range
  <2>3. \A u \in Threads : pc'[u] \notin {"find", "imminent", "wait"}
    <3>1. pc[t] \notin Outside BY <1>0 DEF Outside
    <3>2. \A u \in Threads : u # t => pc[u] \in Outside BY <3>1, OneInside
    <3>. QED BY <1>6, <3>2 DEF Outside
  <2>4. WaitersAre'
    BY WaiterIs, PTL
  <2>5. \A u : u \in Waiters' <=> u \in Threads /\ u \in Range(rest)
    BY <2>1, <2>2, <2>3, <2>4 DEF WaitersAre, OnQueue
  <2>6. Range(s) \subseteq Threads
    BY <1>3, <1>4 DEF Range
  <2>. HIDE DEF s
  <2>. QED BY <1>5, <1>8, <2>5, <2>6
<1>. HIDE DEF woken
<1>. QED BY <1>1, <1>6, <1>9, <1>10, WakeOf

\* A wake call that finds no queue in the table wakes nobody: nobody waits.
LEMMA WakeNobodyRefines ==
    ASSUME OneProcess, QueueInv, TypeOK', CallInv, NEW t \in Threads, WakeNobody(t)
    PROVE  AbstractStep
<1>0. /\ pc[t] = "wakefind" /\ s_global_futex_queues = Nothing /\ Leave(t)
      /\ UNCHANGED <<word, m_blockers>>
  BY DEF WakeNobody
<1>1. pc[t] \in {"wakefind", "wake"} /\ pc[t] # "sleep"
  BY <1>0
<1>2. Waiters = {}
  BY <1>0, <1>1, WaitersAreBlockers
<1>3. /\ val' = val /\ Waking[t] = count[t] /\ count[t] > 0
      /\ Waking' = [Waking EXCEPT ![t] = 0]
  BY <1>0, <1>1, WakeEnds
<1>4. "user" \notin {"find", "imminent", "wait"} => Waiters' = Waiters \ {t}
  <2>1. pc' = [pc EXCEPT ![t] = "user"] BY <1>0 DEF Leave
  <2>. QED BY <1>0, <1>1, <2>1, MoveOf
<1>5. Waiters' = Waiters \ {}
  BY <1>2, <1>4
<1>6. Cardinality({}) = 0 /\ {} \in SUBSET Waiters
  BY FS_EmptySet
<1>7. Cardinality({}) < Waking[t] /\ Waking[t] > 0
  BY <1>3, <1>6
<1>. QED BY <1>0, <1>2, <1>3, <1>5, <1>6, <1>7, WakeOf

\* Every step of Futex is a step of FutexSpec, or changes nothing that it sees.
LEMMA StepRefines ==
    ASSUME OneProcess, QueueInv, QueueInv', CallInv, [Next]_vars
    PROVE  AbstractStep
<1>0. TypeOK /\ TypeOK'
  BY DEF QueueInv
<1>1. CASE UNCHANGED vars
  <2>1. UNCHANGED <<word, pc, m_blockers, val, count>> BY <1>1 DEF vars
  <2>2. Waiters' = Waiters /\ Waking' = Waking BY <2>1 DEF Waiters, Waking
  <2>. QED BY <2>1, <2>2, StutterOf
<1>2. ASSUME NEW t \in Threads, TimerFires(t) \/ Interrupt(t) PROVE AbstractStep
  <2>1. UNCHANGED <<word, pc, m_blockers, val, count>> BY <1>2 DEF TimerFires, Interrupt
  <2>2. Waiters' = Waiters /\ Waking' = Waking BY <2>1 DEF Waiters, Waking
  <2>. QED BY <2>1, <2>2, StutterOf
<1>3. ASSUME NEW t \in Threads, CheckValue(t) PROVE AbstractStep
  <2>1. CASE word = val[t]
    <3>1. /\ pc[t] = "check" /\ pc' = [pc EXCEPT ![t] = "find"]
          /\ UNCHANGED <<word, m_blockers, val, count>>
      BY <1>3, <2>1 DEF CheckValue, Goto
    <3>. QED BY <1>0, <2>1, <3>1, GotoRefines
  <2>2. CASE word # val[t]
    <3>1. pc[t] = "check" /\ Leave(t) /\ UNCHANGED <<word, m_blockers>>
      BY <1>3, <2>2 DEF CheckValue, LeaveWait
    <3>. QED BY <1>0, <3>1, LeaveRefines
  <2>. QED BY <2>1, <2>2
<1>4. ASSUME NEW t \in Threads, FindQueue(t) \/ WakeFind(t) \/ QueueImminentWait(t) \/ WaitOnTooLate(t)
      PROVE  AbstractStep
  <2>1. UNCHANGED <<word, m_blockers, val, count>>
    BY <1>4 DEF FindQueue, WakeFind, QueueImminentWait, WaitOnTooLate, Goto
  <2>2. \/ pc[t] = "find" /\ pc' = [pc EXCEPT ![t] = "imminent"]
        \/ pc[t] = "wakefind" /\ pc' = [pc EXCEPT ![t] = "wake"]
        \/ pc[t] = "imminent" /\ pc' = [pc EXCEPT ![t] = "check"]
        \/ pc[t] = "imminent" /\ pc' = [pc EXCEPT ![t] = "wait"]
        \/ pc[t] = "wait" /\ pc' = [pc EXCEPT ![t] = "done"]
    BY <1>4 DEF FindQueue, WakeFind, QueueImminentWait, WaitOnTooLate, Goto
  <2>. QED BY <1>0, <2>1, <2>2, GotoRefines
<1>5. ASSUME NEW t \in Threads, NEW q \in Queues, CreateQueue(t, q) PROVE AbstractStep
  <2>1. /\ pc[t] = "find" /\ pc' = [pc EXCEPT ![t] = "wait"] /\ s_global_futex_queues = Nothing
        /\ m_blockers' = [m_blockers EXCEPT ![q] = <<>>]
        /\ UNCHANGED <<word, val, count>>
    BY <1>5 DEF CreateQueue, Goto
  <2>2. m_blockers[q] = <<>>
    BY <2>1, FutexAssumption DEF QueueInv, NoDetachedWaiter, IsEmptyAndNoImminentWaits
  <2>3. m_blockers' = m_blockers
    BY <1>0, <2>1, <2>2 DEF TypeOK
  <2>. QED BY <1>0, <2>1, <2>3, GotoRefines
<1>6. ASSUME NEW t \in Threads, WaitOn(t) PROVE AbstractStep
  <2>1. pc[t] = "wait" BY <1>6 DEF WaitOn
  <2>2. PICK q \in Queues : q = futex_queue[t]
    BY <1>0, <2>1 DEF QueueInv, HeldInv, TypeOK
  <2>3. CASE q \in m_was_removed
    <3>1. pc' = [pc EXCEPT ![t] = "done"] /\ UNCHANGED <<word, m_blockers, val, count>>
      BY <1>6, <2>2, <2>3 DEF WaitOn, Goto
    <3>. QED BY <1>0, <2>1, <3>1, GotoRefines
  <2>4. CASE q \notin m_was_removed
    <3>1. /\ pc' = [pc EXCEPT ![t] = "sleep"] /\ m_blockers' = [m_blockers EXCEPT ![q] = Append(@, t)]
          /\ UNCHANGED <<word, val, count>>
      BY <1>6, <2>2, <2>4 DEF WaitOn
    <3>. QED BY <1>0, <2>1, <3>1, SleepRefines
  <2>. QED BY <2>3, <2>4
<1>7. ASSUME NEW t \in Threads, Done(t) \/ RemoveQueue(t) PROVE AbstractStep
  <2>1. UNCHANGED <<word, m_blockers>> BY <1>7 DEF Done, RemoveQueue
  <2>2. CASE Leave(t)
    <3>1. pc[t] \in {"check", "done", "remove"} BY <1>7 DEF Done, RemoveQueue
    <3>. QED BY <1>0, <2>1, <2>2, <3>1, LeaveRefines
  <2>3. CASE pc[t] = "done" /\ pc' = [pc EXCEPT ![t] = "remove"] /\ UNCHANGED <<val, count>>
    BY <1>0, <2>1, <2>3, GotoRefines
  <2>. QED BY <1>7, <2>2, <2>3 DEF Done, RemoveQueue, Goto, LeaveWait
<1>8. CASE Next
  <2>1. PICK t \in Threads :
        \/ \E v \in Values : Store(t, v)
        \/ \E v \in Values, b \in (SUBSET Bits) \ {{}} : EnterWait(t, v, b)
        \/ \E n \in 1..Cardinality(Threads), b \in (SUBSET Bits) \ {{}} : EnterWake(t, n, b)
        \/ CheckValue(t) \/ FindQueue(t)
        \/ \E q \in Queues : CreateQueue(t, q)
        \/ QueueImminentWait(t) \/ WaitOn(t) \/ WaitOnTooLate(t)
        \/ TimerFires(t) \/ Interrupt(t) \/ Relock(t) \/ Done(t) \/ RemoveQueue(t)
        \/ WakeNobody(t) \/ WakeFind(t) \/ WakeN(t)
    BY <1>8 DEF Next
  <2>. QED BY <1>0, <1>2, <1>3, <1>4, <1>5, <1>6, <1>7, <2>1,
              EnterRefines, RelockRefines, WakeNobodyRefines, WakeNRefines
<1>. QED BY <1>1, <1>8

\* The initial state of Futex is one of FutexSpec, and nobody is in the call.
LEMMA InitRefines == Init => Abstract!Init /\ CallInv
<1>. SUFFICES ASSUME Init PROVE Abstract!Init /\ CallInv
  OBVIOUS
<1>1. AnyValue \in Values
  BY FutexAssumption DEF AnyValue
<1>2. \A q \in Queues : Range(m_blockers[q]) = {}
  BY DEF Init, Range
<1>3. Waiters = {}
  BY <1>2 DEF Init, Waiters
<1>4. Waking = [t \in Threads |-> 0]
  BY DEF Init, Waking
<1>5. Abstract!Init
  BY <1>1, <1>3, <1>4 DEF Init, Abstract!Init, Waiters, Waking
<1>6. CallInv
  BY ProcessOfThread, FutexAssumption DEF Init, CallInv, Outside
<1>. QED BY <1>5, <1>6

\* For the threads of one process that use no bitsets, the system call is the
\* futex of FutexSpec: comparing the word and starting to wait is one step
\* although the kernel looks the queue up, creates it and sleeps later, and a
\* wake-up of n finds everybody who waits, or n of them, although queues come
\* and go and those who timed out are still in them.
THEOREM FutexRefinesFutexSpec ==
    ASSUME OneProcess, NoBitsets
    PROVE  Spec => ImplementsFutexSpec
<1>1. Init => Abstract!Init /\ CallInv
  BY InitRefines
<1>2. QueueInv /\ QueueInv' /\ CallInv /\ [Next]_vars => CallInv'
  BY CallInvStep
<1>3. QueueInv /\ QueueInv' /\ CallInv /\ [Next]_vars => [Abstract!Next]_(Abstract!specVars)
  BY StepRefines DEF AbstractStep
<1>. QED BY <1>1, <1>2, <1>3, QueueInvHolds, PTL DEF Spec, ImplementsFutexSpec, Abstract!Spec
=============================================================================
