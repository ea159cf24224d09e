--------------------------- MODULE TimerQueueProofs ---------------------------
(***************************************************************************)
(* Proofs about TimerQueue, for any number of timers and any deadlines, on *)
(* one processor and on several: as long as no timer is armed again on     *)
(* several processors (RearmOnSMP, see the README) the queue is sound,     *)
(* cancel_timer() tells the truth and no reference is lost.                *)
(***************************************************************************)
EXTENDS TimerQueue, ListTheorems, FiniteSetTheorems

\* Where deferred calls are.
Stages == {"queued", "callback", "clear", "finish"}

\* A deferred call of the timer has got that far.
Has(t, where) == \E i \in DOMAIN calls : calls[i].timer = t /\ calls[i].at = where

HasCall(t) == Has(t, "queued") \/ Has(t, "callback") \/ Has(t, "clear") \/ Has(t, "finish")

\* There is one deferred call per timer, and a timer is in the queue once.
OneCall ==
    /\ \A i, j \in DOMAIN calls : calls[i].timer = calls[j].timer => i = j
    /\ IsInjective(list)

\* The callback has not begun: who sets m_cancelled first decides.
Untouched(t) ==
    /\ ran[t] = 0
    /\ pc[t] \in {"armed", "set_cancelled"} => t \notin m_cancelled /\ t \in m_in_use
    /\ pc[t] \in {"remove", "cancelled"} => t \in m_cancelled /\ t \notin m_in_use

\* The deferred call came first ...
RanOut(t) == ran[t] = 1 /\ t \notin m_timers_executing /\ t \in m_cancelled

\* ... or its owner did.
CancelledInTime(t) ==
    /\ ran[t] = 0 /\ t \in m_cancelled /\ t \notin m_in_use
    /\ pc[t] \in {"remove", "cancelled"}
    /\ t \in m_timers_executing <=> pc[t] = "remove"

\* The life of a timer, from one arming to the next.
NewInv(t) ==
    pc[t] = "new" => t \notin ToSet(list) /\ ~HasCall(t) /\ t \notin m_timers_executing /\ ran[t] = 0

ListedInv(t) ==
    t \in ToSet(list) =>
        /\ ~HasCall(t) /\ t \notin m_timers_executing
        /\ pc[t] \in {"armed", "set_cancelled", "remove"} /\ Untouched(t)

QueuedInv(t) ==
    Has(t, "queued") =>
        /\ Untouched(t) /\ pc[t] \in {"armed", "set_cancelled", "remove", "cancelled"}
        /\ t \in m_timers_executing <=> pc[t] # "cancelled"

CallbackInv(t) ==
    Has(t, "callback") =>
        /\ ran[t] = 1 /\ t \in m_cancelled /\ t \in m_in_use /\ t \in m_timers_executing
        /\ pc[t] \in {"armed", "set_cancelled", "spin"}

ClearInv(t) ==
    Has(t, "clear") =>
        \/ RanOut(t) /\ t \in m_in_use /\ pc[t] \in {"armed", "set_cancelled", "spin"}
        \/ CancelledInTime(t)

OverInv(t) ==
    Has(t, "finish") \/ (pc[t] # "new" /\ t \notin ToSet(list) /\ ~HasCall(t)) =>
        \/ RanOut(t) /\ t \notin m_in_use /\ pc[t] \in {"armed", "set_cancelled", "spin", "cancelled"}
        \/ CancelledInTime(t)

\* At most one stage at a time.
StageInv(t) ==
    /\ Has(t, "queued") => ~Has(t, "callback") /\ ~Has(t, "clear") /\ ~Has(t, "finish")
    /\ Has(t, "callback") => ~Has(t, "clear") /\ ~Has(t, "finish")
    /\ Has(t, "clear") => ~Has(t, "finish")

\* What the owner and the others see of it.
AnswerInv(t) ==
    /\ result[t] <=> pc[t] = "cancelled" /\ ran[t] = 0
    /\ t \in m_callback_finished => t \notin ToSet(list) /\ ~HasCall(t)
    /\ HasCall(t) => m_expires[t] = 0
    /\ refs[t] = 1 + (IF t \in ToSet(list) THEN 1 ELSE 0) + (IF HasCall(t) THEN 1 ELSE 0)

TimerInv(t) ==
    /\ NewInv(t) /\ ListedInv(t) /\ QueuedInv(t) /\ CallbackInv(t) /\ ClearInv(t) /\ OverInv(t)
    /\ StageInv(t) /\ AnswerInv(t)

AllTimersInv == \A t \in Timers : TimerInv(t)

TimerQueueInv == TypeOK /\ NextTimerIsFirst /\ OneCall /\ AllTimersInv

-----------------------------------------------------------------------------
\* The loop of add_timer_locked() finds the place that keeps the queue ordered.
LEMMA InsertPlace ==
    ASSUME NEW l \in Seq(Timers), NEW expires \in [Timers -> 0..MaxDelay], NEW t \in Timers,
           \A i, j \in DOMAIN l : i < j => expires[l[i]] <= expires[l[j]]
    PROVE  \E p \in 1..Len(l)+1 :
              /\ Insert(t, l, expires) = InsertAt(l, p, t)
              /\ \A i \in DOMAIN l : expires[l[i]] <= expires[t] <=> i < p
<1>. DEFINE before == {i \in DOMAIN l : expires[l[i]] <= expires[t]}
            n == Len(l)
            c == Cardinality(before)
<1>1. n \in Nat /\ DOMAIN l = 1..n /\ before \subseteq 1..n
  OBVIOUS
<1>2. \A i \in 1..n : expires[l[i]] \in Int
  BY TimerQueueAssumption
<1>3. ASSUME NEW i \in before PROVE 1..i \subseteq before
  <2>1. SUFFICES ASSUME NEW k \in 1..i PROVE k \in before
    OBVIOUS
  <2>2. i \in 1..n /\ k \in 1..n /\ (k < i \/ k = i)
    BY <1>1, <1>3
  <2>3. expires[l[i]] <= expires[t] /\ expires[l[k]] <= expires[l[i]]
    BY <1>1, <1>2, <1>3, <2>2
  <2>4. expires[t] \in Int
    BY TimerQueueAssumption
  <2>5. expires[l[k]] <= expires[t]
    BY <1>2, <2>2, <2>3, <2>4
  <2>. QED BY <1>1, <2>2, <2>5
<1>. HIDE DEF before, n
<1>4. IsFiniteSet(1..n) /\ Cardinality(1..n) = n
  <2>1. /\ IsFiniteSet(1..n)
        /\ Cardinality(1..n) = IF 1 > n THEN 0 ELSE n-1+1
    BY <1>1, FS_Interval
  <2>. QED BY <1>1, <2>1
<1>5. IsFiniteSet(before) /\ c \in Nat /\ c <= n
  BY <1>1, <1>4, FS_Subset, FS_CardinalityType
<1>6. \A i \in before : i \in 1..c
  <2>. TAKE i \in before
  <2>1. i \in Nat /\ i >= 1 BY <1>1
  <2>2. Cardinality(1..i) = IF 1 > i THEN 0 ELSE i-1+1
    BY <2>1, FS_Interval
  <2>3. Cardinality(1..i) <= c
    BY <1>3, <1>5, FS_Subset
  <2>. QED BY <1>5, <2>1, <2>2, <2>3
<1>7. before = 1..c
  <2>1. /\ IsFiniteSet(1..c)
        /\ Cardinality(1..c) = IF 1 > c THEN 0 ELSE c-1+1
    <3>. HIDE DEF c
    <3>1. 1 \in Int /\ c \in Int BY <1>5
    <3>. QED BY <3>1, FS_Interval
  <2>2. Cardinality(1..c) = c BY <1>5, <2>1
  <2>. QED BY <1>6, <2>1, <2>2, FS_Subset
<1>8. c+1 \in 1..n+1
  BY <1>1, <1>5
<1>9. Insert(t, l, expires) = InsertAt(l, c+1, t)
  BY DEF Insert, before
<1>10. \A i \in DOMAIN l : expires[l[i]] <= expires[t] <=> i < c+1
  <2>1. \A i \in 1..n : i \in before <=> i < c+1 BY <1>1, <1>5, <1>7
  <2>. QED BY <1>1, <2>1 DEF before
<1>. HIDE DEF c
<1>. QED BY <1>8, <1>9, <1>10 DEF n

-----------------------------------------------------------------------------
\* A timer that fires gets a deferred call.
LEMMA CallAppended ==
    ASSUME TypeOK, OneCall, NEW t \in Timers, ~HasCall(t),
           calls' = Append(calls, Deferred(t, "queued"))
    PROVE  /\ \A u \in Timers, w \in Stages :
                 Has(u, w)' <=> Has(u, w) \/ (u = t /\ w = "queued")
           /\ \A i, j \in DOMAIN calls' : calls'[i].timer = calls'[j].timer => i = j
           /\ calls' \in Seq([timer : Timers, at : Stages])
<1>. DEFINE n == Len(calls)
<1>1. calls \in Seq([timer : Timers, at : Stages])
  BY DEF TypeOK, Stages
<1>2. Deferred(t, "queued") \in [timer : Timers, at : Stages]
      /\ Deferred(t, "queued").timer = t /\ Deferred(t, "queued").at = "queued"
  BY DEF Deferred, Stages
<1>3. n \in Nat /\ DOMAIN calls = 1..n /\ \A i \in 1..n : calls[i].timer \in Timers /\ calls[i].at \in Stages
  <2>1. n \in Nat /\ DOMAIN calls = 1..n /\ \A i \in 1..n : calls[i] \in [timer : Timers, at : Stages]
    BY <1>1, ListElements
  <2>. QED BY <2>1
<1>4. /\ calls' \in Seq([timer : Timers, at : Stages])
      /\ DOMAIN calls' = 1..n+1
      /\ \A i \in 1..n : calls'[i] = calls[i]
      /\ calls'[n+1] = Deferred(t, "queued")
  BY <1>1, <1>2
<1>. HIDE DEF n
<1>5. \A i \in 1..n : calls[i].timer # t
  BY <1>3 DEF HasCall, Has, Stages
<1>6. \A i, j \in DOMAIN calls' : calls'[i].timer = calls'[j].timer => i = j
  <2>. TAKE i, j \in DOMAIN calls'
  <2>. HAVE calls'[i].timer = calls'[j].timer
  <2>1. CASE i = n+1 /\ j \in 1..n BY <1>2, <1>3, <1>4, <1>5, <2>1
  <2>2. CASE j = n+1 /\ i \in 1..n BY <1>2, <1>3, <1>4, <1>5, <2>2
  <2>3. CASE i \in 1..n /\ j \in 1..n BY <1>3, <1>4, <2>3 DEF OneCall
  <2>. QED BY <1>3, <1>4, <2>1, <2>2, <2>3
<1>7. ASSUME NEW u \in Timers, NEW w \in Stages
      PROVE  Has(u, w)' <=> Has(u, w) \/ (u = t /\ w = "queued")
  <2>1. Has(u, w)' <=> \E i \in 1..n+1 : calls'[i].timer = u /\ calls'[i].at = w
    BY <1>4 DEF Has
  <2>2. Has(u, w) <=> \E i \in 1..n : calls[i].timer = u /\ calls[i].at = w
    BY <1>3 DEF Has
  <2>3. 1..n+1 = 1..n \cup {n+1} BY <1>3
  <2>. QED BY <1>2, <1>4, <2>1, <2>2, <2>3
<1>. QED BY <1>4, <1>6, <1>7

\* A deferred call goes on.
LEMMA CallMoved ==
    ASSUME TypeOK, OneCall, NEW i \in DOMAIN calls, NEW t \in Timers, t = calls[i].timer,
           NEW where \in Stages,
           calls' = [calls EXCEPT ![i] = Deferred(t, where)]
    PROVE  /\ \A u \in Timers, w \in Stages :
                 Has(u, w)' <=> IF u = t THEN w = where ELSE Has(u, w)
           /\ \A w \in Stages : Has(t, w) <=> w = calls[i].at
           /\ \A j, k \in DOMAIN calls' : calls'[j].timer = calls'[k].timer => j = k
           /\ calls' \in Seq([timer : Timers, at : Stages])
<1>. DEFINE n == Len(calls)
<1>1. calls \in Seq([timer : Timers, at : Stages])
  BY DEF TypeOK, Stages
<1>2. Deferred(t, where) \in [timer : Timers, at : Stages]
      /\ Deferred(t, where).timer = t /\ Deferred(t, where).at = where
  BY DEF Deferred, Stages
<1>3. n \in Nat /\ DOMAIN calls = 1..n /\ \A j \in 1..n : calls[j].timer \in Timers /\ calls[j].at \in Stages
  <2>1. n \in Nat /\ DOMAIN calls = 1..n /\ \A j \in 1..n : calls[j] \in [timer : Timers, at : Stages]
    BY <1>1, ListElements
  <2>. QED BY <2>1
<1>4. /\ calls' \in Seq([timer : Timers, at : Stages])
      /\ DOMAIN calls' = 1..n
      /\ \A j \in 1..n : j # i => calls'[j] = calls[j]
      /\ calls'[i] = Deferred(t, where)
  BY <1>1, <1>2
<1>. HIDE DEF n
<1>5. \A j \in 1..n : j # i => calls[j].timer # t
  BY <1>3 DEF OneCall
<1>6. \A j, k \in DOMAIN calls' : calls'[j].timer = calls'[k].timer => j = k
  BY <1>2, <1>3, <1>4, <1>5 DEF OneCall
<1>7. ASSUME NEW u \in Timers, NEW w \in Stages
      PROVE  Has(u, w)' <=> IF u = t THEN w = where ELSE Has(u, w)
  <2>1. Has(u, w)' <=> \E j \in 1..n : calls'[j].timer = u /\ calls'[j].at = w
    BY <1>4 DEF Has
  <2>2. Has(u, w) <=> \E j \in 1..n : calls[j].timer = u /\ calls[j].at = w
    BY <1>3 DEF Has
  <2>3. \A j \in 1..n : calls'[j].timer = calls[j].timer
    BY <1>2, <1>4
  <2>4. CASE u = t BY <1>2, <1>3, <1>4, <1>5, <2>1, <2>3, <2>4
  <2>5. CASE u # t
    <3>1. \A j \in 1..n : calls[j].timer = u => calls'[j] = calls[j] BY <1>4, <2>5
    <3>. QED BY <2>1, <2>2, <2>3, <2>5, <3>1
  <2>. QED BY <2>4, <2>5
<1>8. \A w \in Stages : Has(t, w) <=> w = calls[i].at
  BY <1>3, <1>5 DEF Has
<1>. QED BY <1>4, <1>6, <1>7, <1>8

\* A deferred call is over.
LEMMA CallRemoved ==
    ASSUME TypeOK, OneCall, NEW i \in DOMAIN calls, NEW t \in Timers, t = calls[i].timer,
           calls' = RemoveAt(calls, i)
    PROVE  /\ \A u \in Timers, w \in Stages :
                 Has(u, w)' <=> u # t /\ Has(u, w)
           /\ \A w \in Stages : Has(t, w) <=> w = calls[i].at
           /\ \A j, k \in DOMAIN calls' : calls'[j].timer = calls'[k].timer => j = k
           /\ calls' \in Seq([timer : Timers, at : Stages])
<1>. DEFINE n == Len(calls)
<1>1. calls \in Seq([timer : Timers, at : Stages])
  BY DEF TypeOK, Stages
<1>3. n \in Nat /\ DOMAIN calls = 1..n /\ \A j \in 1..n : calls[j].timer \in Timers /\ calls[j].at \in Stages
  <2>1. n \in Nat /\ DOMAIN calls = 1..n /\ \A j \in 1..n : calls[j] \in [timer : Timers, at : Stages]
    BY <1>1, ListElements
  <2>. QED BY <2>1
<1>4. /\ calls' \in Seq([timer : Timers, at : Stages])
      /\ DOMAIN calls' = 1..n-1
      /\ \A k \in 1..n-1 : calls'[k] = IF k < i THEN calls[k] ELSE calls[k+1]
  BY <1>1, ListRemoveAt
<1>. HIDE DEF n
<1>5. \A j \in 1..n : j # i => calls[j].timer # t
  BY <1>3 DEF OneCall
<1>. DEFINE from(k) == IF k < i THEN k ELSE k+1
<1>6. /\ \A k \in 1..n-1 : from(k) \in 1..n /\ from(k) # i /\ calls'[k] = calls[from(k)]
      /\ \A j, k \in 1..n-1 : from(j) = from(k) => j = k
  BY <1>3, <1>4
<1>7. \A j \in 1..n : j # i => \E k \in 1..n-1 : from(k) = j
  <2>. TAKE j \in 1..n
  <2>. HAVE j # i
  <2>1. CASE j < i BY <1>3, <2>1
  <2>2. CASE j > i
    <3>1. j-1 \in 1..n-1 /\ from(j-1) = j BY <1>3, <2>2
    <3>. QED BY <3>1
  <2>. QED BY <1>3, <2>1, <2>2
<1>. HIDE DEF from
<1>8. \A j, k \in DOMAIN calls' : calls'[j].timer = calls'[k].timer => j = k
  BY <1>3, <1>4, <1>6 DEF OneCall
<1>9. ASSUME NEW u \in Timers, NEW w \in Stages
      PROVE  Has(u, w)' <=> u # t /\ Has(u, w)
  <2>1. Has(u, w)' <=> \E k \in 1..n-1 : calls'[k].timer = u /\ calls'[k].at = w
    BY <1>4 DEF Has
  <2>2. Has(u, w) <=> \E j \in 1..n : calls[j].timer = u /\ calls[j].at = w
    BY <1>3 DEF Has
  <2>3. ASSUME Has(u, w)' PROVE u # t /\ Has(u, w)
    BY <1>5, <1>6, <2>1, <2>2, <2>3
  <2>4. ASSUME u # t, Has(u, w) PROVE Has(u, w)'
    <3>1. PICK j \in 1..n : calls[j].timer = u /\ calls[j].at = w BY <2>2, <2>4
    <3>2. j # i BY <2>4, <3>1
    <3>. QED BY <1>6, <1>7, <2>1, <3>1, <3>2
  <2>. QED BY <2>3, <2>4
<1>10. \A w \in Stages : Has(t, w) <=> w = calls[i].at
  BY <1>3, <1>5 DEF Has
<1>. QED BY <1>4, <1>8, <1>9, <1>10

-----------------------------------------------------------------------------
\* Nothing that a timer's invariant speaks of has changed.
Same(u) ==
    /\ \A w \in Stages : Has(u, w)' <=> Has(u, w)
    /\ u \in ToSet(list') <=> u \in ToSet(list)
    /\ u \in m_timers_executing' <=> u \in m_timers_executing
    /\ u \in m_cancelled' <=> u \in m_cancelled
    /\ u \in m_in_use' <=> u \in m_in_use
    /\ u \in m_callback_finished' <=> u \in m_callback_finished
    /\ pc'[u] = pc[u] /\ result'[u] = result[u] /\ ran'[u] = ran[u] /\ refs'[u] = refs[u]
    /\ HasCall(u) => m_expires'[u] = m_expires[u]

\* A step that leaves a timer alone keeps its invariant.
LEMMA Unaffected ==
    ASSUME NEW u, TimerInv(u), Same(u)
    PROVE  TimerInv(u)'
<1>1. HasCall(u)' <=> HasCall(u)
  BY DEF Same, Stages, HasCall
<1>2. NewInv(u)' /\ ListedInv(u)' /\ QueuedInv(u)' /\ CallbackInv(u)'
  BY <1>1 DEF Same, Stages, TimerInv, NewInv, ListedInv, QueuedInv, CallbackInv, Untouched
<1>3. ClearInv(u)' /\ OverInv(u)'
  BY <1>1 DEF Same, Stages, TimerInv, ClearInv, OverInv, RanOut, CancelledInTime
<1>4. StageInv(u)' /\ AnswerInv(u)'
  BY <1>1 DEF Same, Stages, TimerInv, StageInv, AnswerInv
<1>. QED BY <1>2, <1>3, <1>4 DEF TimerInv

\* A step that leaves the deferred calls alone.
LEMMA CallsKept ==
    ASSUME UNCHANGED calls
    PROVE  \A u, w : Has(u, w)' <=> Has(u, w)
  BY DEF Has

\* The elements of the queue.
LEMMA ToSetIsRange == \A s : ToSet(s) = Range(s)
  BY DEF ToSet, Range

\* The initial state satisfies the invariant.
LEMMA InitialState == Init => TimerQueueInv
<1>. SUFFICES ASSUME Init PROVE TimerQueueInv
  OBVIOUS
<1>. USE TimerQueueAssumption DEF Init
<1>1. ToSet(list) = {} /\ IsInjective(list) /\ DOMAIN calls = {} /\ DOMAIN list = {}
  BY DEF ToSet, IsInjective
<1>2. TypeOK
  <2>1. calls \in Seq([timer : Timers, at : {"queued", "callback", "clear", "finish"}])
    OBVIOUS
  <2>2. list \in Seq(Timers)
    OBVIOUS
  <2>3. 0 \in 0..MaxDelay
    OBVIOUS
  <2>. QED BY <2>1, <2>2, <2>3 DEF TypeOK
<1>3. NextTimerIsFirst /\ OneCall
  BY <1>1 DEF NextTimerIsFirst, OneCall
<1>4. \A u, w : ~Has(u, w)
  BY <1>1 DEF Has
<1>5. ASSUME NEW u \in Timers PROVE TimerInv(u)
  <2>1. ~HasCall(u) BY <1>4 DEF HasCall
  <2>2. NewInv(u) /\ ListedInv(u) /\ QueuedInv(u) /\ CallbackInv(u)
    BY <1>1, <1>4, <2>1 DEF NewInv, ListedInv, QueuedInv, CallbackInv
  <2>3. ClearInv(u) /\ OverInv(u) /\ StageInv(u)
    BY <1>1, <1>4, <2>1 DEF ClearInv, OverInv, StageInv
  <2>4. AnswerInv(u)
    BY <1>1, <2>1 DEF AnswerInv
  <2>. QED BY <2>2, <2>3, <2>4 DEF TimerInv
<1>. QED BY <1>2, <1>3, <1>5 DEF TimerQueueInv, AllTimersInv

-----------------------------------------------------------------------------
USE DEF queue, flags, Goto

\* What may be armed is in no list and has no deferred call.
LEMMA MayBeArmed ==
    ASSUME TimerQueueInv, ~RearmOnSMP, NEW t \in Timers, NEW delay, AddTimer(t, delay)
    PROVE  t \notin ToSet(list) /\ ~HasCall(t) /\ t \notin m_timers_executing
<1>1. TimerInv(t)
  BY DEF TimerQueueInv, AllTimersInv
<1>2. CASE pc[t] = "new"
  BY <1>1, <1>2 DEF TimerInv, NewInv
<1>3. CASE pc[t] # "new"
  <2>1. ~smp /\ calls = <<>>
    BY <1>3 DEF AddTimer, MayRun
  <2>2. ~HasCall(t)
    <3>1. DOMAIN calls = {} BY <2>1
    <3>. QED BY <3>1 DEF HasCall, Has
  <2>3. pc[t] = "cancelled" \/ (pc[t] = "armed" /\ ran[t] > 0)
    BY <1>3 DEF AddTimer
  <2>4. t \notin ToSet(list)
    BY <1>1, <2>3 DEF TimerInv, ListedInv, Untouched
  <2>5. t \notin m_timers_executing
    BY <1>1, <1>3, <2>2, <2>3, <2>4 DEF TimerInv, OverInv, RanOut, CancelledInTime
  <2>. QED BY <2>2, <2>4, <2>5
<1>. QED BY <1>2, <1>3

\* Arming a timer.
LEMMA AddTimerStep ==
    ASSUME TimerQueueInv, ~RearmOnSMP, NEW t \in Timers, NEW delay \in 1..MaxDelay,
           AddTimer(t, delay)
    PROVE  TimerQueueInv'
<1>0. /\ m_expires' = [m_expires EXCEPT ![t] = delay] /\ m_cancelled' = m_cancelled \ {t}
      /\ m_callback_finished' = m_callback_finished \ {t} /\ m_in_use' = m_in_use \cup {t}
      /\ next_timer_due' = IF list'[1] = t THEN delay ELSE next_timer_due
      /\ refs' = [refs EXCEPT ![t] = @ + 1] /\ ran' = [ran EXCEPT ![t] = 0]
      /\ result' = [result EXCEPT ![t] = FALSE] /\ pc' = [pc EXCEPT ![t] = "armed"]
      /\ UNCHANGED <<smp, m_timers_executing, calls>>
  BY DEF AddTimer, CancelledAfterAdd
<1>1. TypeOK /\ NextTimerIsFirst /\ OneCall /\ \A u \in Timers : TimerInv(u)
  BY DEF TimerQueueInv, AllTimersInv
<1>2. t \notin ToSet(list) /\ ~HasCall(t) /\ t \notin m_timers_executing
  BY MayBeArmed
<1>3. list \in Seq(Timers) /\ Len(list) \in Nat /\ DOMAIN list = 1..Len(list)
      /\ \A i \in 1..Len(list) : list[i] \in Timers /\ list[i] # t
  <2>1. list \in Seq(Timers) BY <1>1 DEF TypeOK
  <2>2. \A i \in DOMAIN list : list[i] # t BY <1>2 DEF ToSet
  <2>. QED BY <2>1, <2>2, ListElements
<1>4. /\ m_expires \in [Timers -> 0..MaxDelay] /\ m_expires' \in [Timers -> 0..MaxDelay]
      /\ m_expires'[t] = delay /\ \A u \in Timers : u # t => m_expires'[u] = m_expires[u]
      /\ MaxDelay \in Nat
  BY <1>0, <1>1, TimerQueueAssumption DEF TypeOK
<1>5. \A i, j \in DOMAIN list : i < j => m_expires'[list[i]] <= m_expires'[list[j]]
  BY <1>1, <1>3, <1>4 DEF NextTimerIsFirst
<1>6. PICK p \in 1..Len(list)+1 :
              /\ list' = InsertAt(list, p, t)
              /\ \A i \in DOMAIN list : m_expires'[list[i]] <= m_expires'[t] <=> i < p
  <2>1. \E p \in 1..Len(list)+1 :
              /\ Insert(t, list, m_expires') = InsertAt(list, p, t)
              /\ \A i \in DOMAIN list : m_expires'[list[i]] <= m_expires'[t] <=> i < p
    <3>. DEFINE ex == m_expires'
    <3>1. ex \in [Timers -> 0..MaxDelay] BY <1>4
    <3>2. \A i, j \in DOMAIN list : i < j => ex[list[i]] <= ex[list[j]] BY <1>5
    <3>. HIDE DEF ex
    <3>3. \E p \in 1..Len(list)+1 :
              /\ Insert(t, list, ex) = InsertAt(list, p, t)
              /\ \A i \in DOMAIN list : ex[list[i]] <= ex[t] <=> i < p
      BY <1>3, <3>1, <3>2, InsertPlace
    <3>. QED BY <3>3 DEF ex
  <2>. QED BY <2>1 DEF AddTimer
<1>7. /\ list' \in Seq(Timers) /\ DOMAIN list' = 1..Len(list)+1
      /\ \A k \in 1..Len(list)+1 :
            list'[k] = IF k < p THEN list[k] ELSE IF k = p THEN t ELSE list[k-1]
  <2>. DEFINE r == InsertAt(list, p, t)
  <2>1. list \in Seq(Timers) /\ p \in 1..Len(list)+1
    BY <1>3, <1>6
  <2>2. /\ r \in Seq(Timers) /\ DOMAIN r = 1..Len(list)+1
        /\ \A k \in 1..Len(list)+1 :
              r[k] = IF k < p THEN list[k] ELSE IF k = p THEN t ELSE list[k-1]
    <3>1. r \in Seq(Timers) /\ DOMAIN r = 1..Len(list)+1
      BY <2>1, ListInsertAt
    <3>2. \A k \in 1..Len(list)+1 :
              r[k] = IF k < p THEN list[k] ELSE IF k = p THEN t ELSE list[k-1]
      BY <2>1, ListInsertAt
    <3>. QED BY <3>1, <3>2
  <2>3. list' = r
    BY <1>6
  <2>. HIDE DEF r
  <2>. QED BY <2>2, <2>3
<1>8. IsInjective(list') /\ ToSet(list') = ToSet(list) \cup {t}
  BY <1>1, <1>2, <1>3, <1>6, ListInsert, ToSetIsRange DEF OneCall
<1>9. TypeOK'
  <2>1. calls' \in Seq([timer : Timers, at : {"queued", "callback", "clear", "finish"}])
    BY <1>0, <1>1 DEF TypeOK
  <2>2. next_timer_due' \in 0..MaxDelay BY <1>0, <1>1, <1>4 DEF TypeOK
  <2>3. refs' \in [Timers -> Nat] /\ ran' \in [Timers -> Nat] BY <1>0, <1>1 DEF TypeOK
  <2>4. result' \in [Timers -> BOOLEAN] BY <1>0, <1>1 DEF TypeOK
  <2>5. pc' \in [Timers -> {"new", "armed", "set_cancelled", "remove", "spin", "cancelled"}]
    BY <1>0, <1>1 DEF TypeOK
  <2>6. smp' \in BOOLEAN BY <1>0, <1>1 DEF TypeOK
  <2>7. /\ m_timers_executing' \subseteq Timers /\ m_cancelled' \subseteq Timers
        /\ m_in_use' \subseteq Timers /\ m_callback_finished' \subseteq Timers
    BY <1>0, <1>1 DEF TypeOK
  <2>. QED BY <1>4, <1>7, <2>1, <2>2, <2>3, <2>4, <2>5, <2>6, <2>7 DEF TypeOK
<1>10. NextTimerIsFirst'
  <2>1. \A i, j \in DOMAIN list' : i < j => m_expires'[list'[i]] <= m_expires'[list'[j]]
    <3>. TAKE i, j \in DOMAIN list'
    <3>. HAVE i < j
    <3>0. i \in 1..Len(list)+1 /\ j \in 1..Len(list)+1 BY <1>7
    <3>. DEFINE i2 == IF i < p THEN i ELSE i-1
                j2 == IF j < p THEN j ELSE j-1
    <3>1. i # p => i2 \in 1..Len(list) /\ list'[i] = list[i2] BY <1>3, <1>6, <1>7, <3>0
    <3>2. j # p => j2 \in 1..Len(list) /\ list'[j] = list[j2] BY <1>3, <1>6, <1>7, <3>0
    <3>3. CASE i # p /\ j # p
      <4>1. i2 < j2 BY <1>3, <1>6, <3>0, <3>3
      <4>. QED BY <1>3, <1>5, <3>1, <3>2, <3>3, <4>1
    <3>4. CASE i = p
      <4>1. list'[i] = t /\ j2 \in 1..Len(list) /\ ~(j2 < p) BY <1>3, <1>6, <1>7, <3>0, <3>2, <3>4
      <4>2. ~(m_expires'[list[j2]] <= m_expires'[t]) BY <1>3, <1>6, <4>1
      <4>3. m_expires'[list[j2]] \in Int /\ m_expires'[t] \in Int BY <1>3, <1>4, <4>1
      <4>4. list'[j] = list[j2] BY <3>0, <3>2, <3>4
      <4>. QED BY <4>1, <4>2, <4>3, <4>4
    <3>5. CASE j = p
      <4>1. list'[j] = t /\ i2 \in 1..Len(list) /\ i2 < p BY <1>3, <1>6, <1>7, <3>0, <3>1, <3>5
      <4>2. m_expires'[list[i2]] <= m_expires'[t] BY <1>3, <1>6, <4>1
      <4>4. list'[i] = list[i2] BY <3>0, <3>1, <3>5
      <4>. QED BY <4>1, <4>2, <4>4
    <3>. QED BY <3>3, <3>4, <3>5
  <2>2. Head(list') = list'[1]
    BY <1>3, <1>7
  <2>3. CASE p = 1
    <3>1. list'[1] = t BY <1>3, <1>7, <2>3
    <3>. QED BY <1>0, <1>4, <2>1, <2>2, <3>1 DEF NextTimerIsFirst
  <2>4. CASE p # 1
    <3>1. list'[1] = list[1] /\ 1 \in 1..Len(list) BY <1>3, <1>6, <1>7, <2>4
    <3>2. list[1] # t /\ list[1] \in Timers /\ list # <<>> /\ Head(list) = list[1] BY <1>3, <3>1
    <3>3. next_timer_due' = m_expires'[list'[1]]
      BY <1>0, <1>1, <1>4, <3>1, <3>2 DEF NextTimerIsFirst
    <3>. QED BY <2>1, <2>2, <3>3 DEF NextTimerIsFirst
  <2>. QED BY <2>3, <2>4
<1>11. OneCall'
  BY <1>0, <1>1, <1>8 DEF OneCall
<1>12. \A u, w : Has(u, w)' <=> Has(u, w)
  BY <1>0, CallsKept
<1>13. ASSUME NEW u \in Timers, u # t PROVE TimerInv(u)'
  <2>1. Same(u)
    BY <1>0, <1>1, <1>4, <1>8, <1>12, <1>13 DEF Same, TypeOK
  <2>. QED BY <1>1, <2>1, Unaffected
<1>14. TimerInv(t)'
  <2>1. ~HasCall(t)' /\ ~Has(t, "queued")' /\ ~Has(t, "callback")' /\ ~Has(t, "clear")' /\ ~Has(t, "finish")'
    BY <1>2, <1>12 DEF HasCall
  <2>2. /\ pc'[t] = "armed" /\ ran'[t] = 0 /\ t \notin m_cancelled' /\ t \in m_in_use'
        /\ t \in ToSet(list') /\ t \notin m_timers_executing' /\ t \notin m_callback_finished'
    BY <1>0, <1>1, <1>2, <1>8 DEF TypeOK
  <2>3. ~result'[t]
    BY <1>0, <1>1 DEF TypeOK
  <2>4. refs'[t] = 2
    BY <1>0, <1>1, <1>2 DEF TypeOK, TimerInv, AnswerInv
  <2>5. NewInv(t)' /\ ListedInv(t)' /\ QueuedInv(t)' /\ CallbackInv(t)'
    BY <2>1, <2>2 DEF NewInv, ListedInv, QueuedInv, CallbackInv, Untouched
  <2>6. ClearInv(t)' /\ OverInv(t)' /\ StageInv(t)'
    BY <2>1, <2>2 DEF ClearInv, OverInv, StageInv
  <2>7. AnswerInv(t)'
    BY <2>1, <2>2, <2>3, <2>4 DEF AnswerInv
  <2>. QED BY <2>5, <2>6, <2>7 DEF TimerInv
<1>. QED BY <1>9, <1>10, <1>11, <1>13, <1>14 DEF TimerQueueInv, AllTimersInv

\* A step that leaves the queue, the deferred calls and the deadlines alone
\* needs to be looked at only for the timer it is about.
LEMMA OneTimerStep ==
    ASSUME TimerQueueInv, NEW t \in Timers, UNCHANGED <<list, next_timer_due, m_expires, calls>>,
           TypeOK', \A u \in Timers : u # t => Same(u), TimerInv(t)'
    PROVE  TimerQueueInv'
<1>1. NextTimerIsFirst' /\ OneCall'
  BY DEF TimerQueueInv, NextTimerIsFirst, OneCall
<1>2. \A u \in Timers : TimerInv(u)'
  BY Unaffected DEF TimerQueueInv, AllTimersInv
<1>. QED BY <1>1, <1>2 DEF TimerQueueInv, AllTimersInv

\* cancel_timer() begins.
LEMMA CancelTimerStep ==
    ASSUME TimerQueueInv, NEW t \in Timers, CancelTimer(t)
    PROVE  TimerQueueInv'
<1>0. /\ pc[t] = "armed"
      /\ pc' = [pc EXCEPT ![t] = IF t \in m_in_use THEN "set_cancelled" ELSE "cancelled"]
      /\ UNCHANGED <<smp, queue, m_expires, flags, refs, calls, result, ran>>
  BY DEF CancelTimer
<1>1. TypeOK /\ TimerInv(t)
  BY DEF TimerQueueInv, AllTimersInv
<1>2. TypeOK'
  BY <1>0, <1>1 DEF TypeOK
<1>3. \A u, w : Has(u, w)' <=> Has(u, w)
  BY <1>0, CallsKept
<1>4. \A u \in Timers : u # t => Same(u)
  BY <1>0, <1>1, <1>3 DEF Same, TypeOK
<1>5. TimerInv(t)'
  <2>1. HasCall(t)' <=> HasCall(t)
    BY <1>3 DEF HasCall
  <2>2. pc'[t] = IF t \in m_in_use THEN "set_cancelled" ELSE "cancelled"
    BY <1>0, <1>1 DEF TypeOK
  <2>3. NewInv(t)' /\ ListedInv(t)' /\ QueuedInv(t)' /\ CallbackInv(t)'
    BY <1>0, <1>1, <1>3, <2>1, <2>2 DEF TimerInv, NewInv, ListedInv, QueuedInv, CallbackInv, Untouched
  <2>4. ClearInv(t)' /\ OverInv(t)' /\ StageInv(t)'
    BY <1>0, <1>1, <1>3, <2>1, <2>2 DEF TimerInv, ClearInv, OverInv, StageInv, RanOut, CancelledInTime
  <2>5. t \notin m_in_use => ran[t] = 1
    BY <1>0, <1>1 DEF TimerInv, HasCall, ListedInv, QueuedInv, CallbackInv, ClearInv, OverInv,
                      Untouched, RanOut, CancelledInTime
  <2>6. AnswerInv(t)'
    BY <1>0, <1>1, <2>1, <2>2, <2>5 DEF TimerInv, AnswerInv
  <2>. QED BY <2>3, <2>4, <2>6 DEF TimerInv
<1>. QED BY <1>0, <1>2, <1>4, <1>5, OneTimerStep

\* The owner marks the timer cancelled, unless its deferred call has.
LEMMA SetCancelledStep ==
    ASSUME TimerQueueInv, NEW t \in Timers, SetCancelled(t)
    PROVE  TimerQueueInv'
<1>0. /\ pc[t] = "set_cancelled" /\ m_cancelled' = m_cancelled \cup {t}
      /\ pc' = [pc EXCEPT ![t] = IF t \in m_cancelled THEN "spin" ELSE "remove"]
      /\ m_in_use' = IF t \in m_cancelled THEN m_in_use ELSE m_in_use \ {t}
      /\ UNCHANGED <<smp, queue, m_expires, m_callback_finished, refs, calls, result, ran>>
  BY DEF SetCancelled
<1>1. TypeOK /\ TimerInv(t)
  BY DEF TimerQueueInv, AllTimersInv
<1>2. TypeOK'
  BY <1>0, <1>1 DEF TypeOK
<1>3. \A u, w : Has(u, w)' <=> Has(u, w)
  BY <1>0, CallsKept
<1>4. \A u \in Timers : u # t => Same(u)
  BY <1>0, <1>1, <1>3 DEF Same, TypeOK
<1>5. TimerInv(t)'
  <2>1. HasCall(t)' <=> HasCall(t)
    BY <1>3 DEF HasCall
  <2>2. pc'[t] = IF t \in m_cancelled THEN "spin" ELSE "remove"
    BY <1>0, <1>1 DEF TypeOK
  <2>3. NewInv(t)' /\ ListedInv(t)' /\ QueuedInv(t)' /\ CallbackInv(t)'
    BY <1>0, <1>1, <1>3, <2>1, <2>2 DEF TimerInv, NewInv, ListedInv, QueuedInv, CallbackInv, Untouched
  <2>4. ClearInv(t)' /\ OverInv(t)' /\ StageInv(t)'
    BY <1>0, <1>1, <1>3, <2>1, <2>2 DEF TimerInv, ClearInv, OverInv, StageInv, RanOut, CancelledInTime
  <2>5. AnswerInv(t)'
    BY <1>0, <1>1, <2>1, <2>2 DEF TimerInv, AnswerInv
  <2>. QED BY <2>3, <2>4, <2>5 DEF TimerInv
<1>. QED BY <1>0, <1>2, <1>4, <1>5, OneTimerStep

\* The timer has fired and its deferred call will find it cancelled.
LEMMA RemoveExecutingStep ==
    ASSUME TimerQueueInv, NEW t \in Timers, RemoveExecuting(t)
    PROVE  TimerQueueInv'
<1>0. /\ pc[t] = "remove" /\ t \notin ToSet(list) /\ m_timers_executing' = m_timers_executing \ {t}
      /\ pc' = [pc EXCEPT ![t] = "cancelled"] /\ result' = [result EXCEPT ![t] = TRUE]
      /\ UNCHANGED <<smp, list, next_timer_due, m_expires, flags, calls, ran, refs>>
  BY DEF RemoveExecuting, RefsAfterRemoval
<1>1. TypeOK /\ TimerInv(t)
  BY DEF TimerQueueInv, AllTimersInv
<1>2. TypeOK'
  BY <1>0, <1>1 DEF TypeOK
<1>3. \A u, w : Has(u, w)' <=> Has(u, w)
  BY <1>0, CallsKept
<1>4. \A u \in Timers : u # t => Same(u)
  BY <1>0, <1>1, <1>3 DEF Same, TypeOK
<1>5. TimerInv(t)'
  <2>1. HasCall(t)' <=> HasCall(t)
    BY <1>3 DEF HasCall
  <2>2. pc'[t] = "cancelled" /\ result'[t]
    BY <1>0, <1>1 DEF TypeOK
  <2>3. NewInv(t)' /\ ListedInv(t)' /\ QueuedInv(t)' /\ CallbackInv(t)'
    BY <1>0, <1>1, <1>3, <2>1, <2>2 DEF TimerInv, NewInv, ListedInv, QueuedInv, CallbackInv, Untouched
  <2>4. ClearInv(t)' /\ OverInv(t)' /\ StageInv(t)'
    BY <1>0, <1>1, <1>3, <2>1, <2>2 DEF TimerInv, ClearInv, OverInv, StageInv, RanOut, CancelledInTime
  <2>5. ran[t] = 0
    BY <1>0, <1>1 DEF TimerInv, HasCall, QueuedInv, CallbackInv, ClearInv, OverInv,
                      Untouched, RanOut, CancelledInTime
  <2>6. AnswerInv(t)'
    BY <1>0, <1>1, <2>1, <2>2, <2>5 DEF TimerInv, AnswerInv
  <2>. QED BY <2>3, <2>4, <2>6 DEF TimerInv
<1>. QED BY <1>0, <1>2, <1>4, <1>5, OneTimerStep

\* The callback that cancel_timer() came too late for has finished.
LEMMA SpinEndsStep ==
    ASSUME TimerQueueInv, NEW t \in Timers, SpinEnds(t)
    PROVE  TimerQueueInv'
<1>0. /\ pc[t] = "spin" /\ t \in m_callback_finished /\ pc' = [pc EXCEPT ![t] = "cancelled"]
      /\ UNCHANGED <<smp, queue, m_expires, flags, refs, calls, result, ran>>
  BY DEF SpinEnds
<1>1. TypeOK /\ TimerInv(t)
  BY DEF TimerQueueInv, AllTimersInv
<1>2. TypeOK'
  BY <1>0, <1>1 DEF TypeOK
<1>3. \A u, w : Has(u, w)' <=> Has(u, w)
  BY <1>0, CallsKept
<1>4. \A u \in Timers : u # t => Same(u)
  BY <1>0, <1>1, <1>3 DEF Same, TypeOK
<1>5. TimerInv(t)'
  <2>1. t \notin ToSet(list) /\ ~HasCall(t)
    BY <1>0, <1>1 DEF TimerInv, AnswerInv
  <2>2. ~HasCall(t)' /\ \A w \in Stages : ~Has(t, w)'
    BY <1>3, <2>1 DEF HasCall, Stages
  <2>3. pc'[t] = "cancelled"
    BY <1>0, <1>1 DEF TypeOK
  <2>4. RanOut(t) /\ t \notin m_in_use
    BY <1>0, <1>1, <2>1 DEF TimerInv, OverInv, CancelledInTime
  <2>5. NewInv(t)' /\ ListedInv(t)' /\ QueuedInv(t)' /\ CallbackInv(t)' /\ ClearInv(t)'
    BY <1>0, <2>1, <2>2, <2>3 DEF Stages, NewInv, ListedInv, QueuedInv, CallbackInv, ClearInv
  <2>6. OverInv(t)' /\ StageInv(t)'
    BY <1>0, <2>2, <2>3, <2>4 DEF Stages, OverInv, StageInv, RanOut
  <2>7. AnswerInv(t)'
    BY <1>0, <1>1, <2>1, <2>2, <2>3, <2>4 DEF TimerInv, AnswerInv, RanOut
  <2>. QED BY <2>5, <2>6, <2>7 DEF TimerInv
<1>. QED BY <1>0, <1>2, <1>4, <1>5, OneTimerStep

-----------------------------------------------------------------------------
\* A timer leaves the queue.
LEMMA QueueShrinks ==
    ASSUME TimerQueueInv, NEW i \in DOMAIN list, list' = RemoveAt(list, i), UNCHANGED m_expires
    PROVE  /\ list' \in Seq(Timers) /\ IsInjective(list')
           /\ ToSet(list') = ToSet(list) \ {list[i]}
           /\ \A j, k \in DOMAIN list' : j < k => m_expires'[list'[j]] <= m_expires'[list'[k]]
           /\ i # 1 => Head(list') = Head(list) /\ list # <<>>
           /\ NextDue(list', m_expires) \in 0..MaxDelay
<1>1. TypeOK /\ NextTimerIsFirst /\ OneCall
  BY DEF TimerQueueInv
<1>2. list \in Seq(Timers) /\ Len(list) \in Nat /\ DOMAIN list = 1..Len(list)
  BY <1>1, ListElements DEF TypeOK
<1>3. list' \in Seq(Timers) /\ DOMAIN list' = 1..Len(list)-1
  BY <1>2, ListRemoveAt
<1>4. \A k \in 1..Len(list)-1 : list'[k] = IF k < i THEN list[k] ELSE list[k+1]
  BY <1>2, ListRemoveAt
<1>5. IsInjective(list') /\ ToSet(list') = ToSet(list) \ {list[i]}
  BY <1>1, <1>2, ListRemove, ToSetIsRange DEF OneCall
<1>6. ASSUME NEW j \in DOMAIN list', NEW k \in DOMAIN list', j < k
      PROVE  m_expires'[list'[j]] <= m_expires'[list'[k]]
  <2>. DEFINE from(m) == IF m < i THEN m ELSE m+1
  <2>1. /\ from(j) \in 1..Len(list) /\ from(k) \in 1..Len(list) /\ from(j) < from(k)
        /\ list'[j] = list[from(j)] /\ list'[k] = list[from(k)]
    BY <1>2, <1>3, <1>4, <1>6
  <2>. HIDE DEF from
  <2>. QED BY <1>1, <1>2, <2>1 DEF NextTimerIsFirst
<1>7. ASSUME i # 1 PROVE Head(list') = Head(list) /\ list # <<>>
  <2>1. 1 \in 1..Len(list)-1 /\ 1 < i
    BY <1>2, <1>7
  <2>2. list'[1] = list[1]
    BY <1>4, <2>1
  <2>3. Head(list') = list'[1] /\ Head(list) = list[1] /\ list # <<>>
    BY <1>2, <1>3, <2>1
  <2>. QED BY <2>2, <2>3
<1>8. NextDue(list', m_expires) \in 0..MaxDelay
  <2>1. CASE list' = <<>>
    BY <2>1, TimerQueueAssumption DEF NextDue
  <2>2. CASE list' # <<>>
    <3>1. Head(list') \in Timers BY <1>3, <2>2
    <3>. QED BY <1>1, <2>2, <3>1 DEF NextDue, TypeOK
  <2>. QED BY <2>1, <2>2
<1>. QED BY <1>3, <1>5, <1>6, <1>7, <1>8

\* The timer is taken from the queue before it fires.
LEMMA RemoveTimerStep ==
    ASSUME TimerQueueInv, NEW t \in Timers, RemoveTimer(t)
    PROVE  TimerQueueInv'
<1>0. /\ pc[t] = "remove" /\ t \in ToSet(list) /\ list' = RemoveFirst(list, t)
      /\ next_timer_due' = IF Head(list) = t THEN NextDue(RemoveFirst(list, t), m_expires) ELSE next_timer_due
      /\ refs' = [refs EXCEPT ![t] = @ - 1]
      /\ pc' = [pc EXCEPT ![t] = "cancelled"] /\ result' = [result EXCEPT ![t] = TRUE]
      /\ UNCHANGED <<smp, m_timers_executing, m_expires, flags, calls, ran>>
  BY DEF RemoveTimer, DueAfterRemoval
<1>1. TypeOK /\ NextTimerIsFirst /\ OneCall /\ \A u \in Timers : TimerInv(u)
  BY DEF TimerQueueInv, AllTimersInv
<1>2. PICK i \in DOMAIN list : list[i] = t
  BY <1>0 DEF ToSet
<1>3. list' = RemoveAt(list, i)
  BY <1>0, <1>1, <1>2, ListRemoveFirstAt DEF TypeOK, OneCall
<1>4. /\ list' \in Seq(Timers) /\ IsInjective(list')
      /\ ToSet(list') = ToSet(list) \ {t}
      /\ \A j, k \in DOMAIN list' : j < k => m_expires'[list'[j]] <= m_expires'[list'[k]]
      /\ i # 1 => Head(list') = Head(list) /\ list # <<>>
      /\ NextDue(list', m_expires) \in 0..MaxDelay
  BY <1>0, <1>2, <1>3, QueueShrinks
<1>5. refs[t] = 2 /\ ran[t] = 0 /\ ~HasCall(t) /\ t \notin m_timers_executing
      /\ t \in m_cancelled /\ t \notin m_in_use
  BY <1>0, <1>1 DEF TimerInv, ListedInv, AnswerInv, Untouched
<1>6. TypeOK'
  <2>1. next_timer_due' \in 0..MaxDelay
    BY <1>0, <1>1, <1>4 DEF TypeOK
  <2>2. refs' \in [Timers -> Nat]
    <3>1. refs[t] - 1 \in Nat BY <1>5
    <3>. QED BY <1>0, <1>1, <3>1 DEF TypeOK
  <2>. QED BY <1>0, <1>1, <1>4, <2>1, <2>2 DEF TypeOK
<1>7. NextTimerIsFirst'
  <2>1. CASE i = 1
    <3>1. Head(list) = t
      <4>1. list \in Seq(Timers) /\ list # <<>> BY <1>1, <1>2 DEF TypeOK
      <4>. QED BY <1>2, <2>1, <4>1
    <3>2. next_timer_due' = NextDue(list', m_expires)
      BY <1>0, <3>1
    <3>3. list' # <<>> => next_timer_due' = m_expires'[Head(list')]
      BY <1>0, <3>2 DEF NextDue
    <3>. QED BY <1>4, <3>3 DEF NextTimerIsFirst
  <2>2. CASE i # 1
    <3>1. Head(list) # t
      <4>1. list \in Seq(Timers) /\ list # <<>> BY <1>1, <1>4, <2>2 DEF TypeOK
      <4>2. 1 \in DOMAIN list /\ Head(list) = list[1] BY <4>1
      <4>. QED BY <1>1, <1>2, <2>2, <4>2 DEF OneCall, IsInjective
    <3>2. next_timer_due' = m_expires'[Head(list')]
      BY <1>0, <1>1, <1>4, <2>2, <3>1 DEF NextTimerIsFirst
    <3>. QED BY <1>4, <3>2 DEF NextTimerIsFirst
  <2>. QED BY <2>1, <2>2
<1>8. OneCall'
  BY <1>0, <1>1, <1>4 DEF OneCall
<1>9. \A u, w : Has(u, w)' <=> Has(u, w)
  BY <1>0, CallsKept
<1>10. ASSUME NEW u \in Timers, u # t PROVE TimerInv(u)'
  <2>1. Same(u)
    BY <1>0, <1>1, <1>4, <1>9, <1>10 DEF Same, TypeOK
  <2>. QED BY <1>1, <2>1, Unaffected
<1>11. TimerInv(t)'
  <2>1. ~HasCall(t)' /\ \A w \in Stages : ~Has(t, w)'
    BY <1>5, <1>9 DEF HasCall, Stages
  <2>2. pc'[t] = "cancelled" /\ result'[t] /\ refs'[t] = 1
    BY <1>0, <1>1, <1>5 DEF TypeOK
  <2>3. NewInv(t)' /\ ListedInv(t)' /\ QueuedInv(t)' /\ CallbackInv(t)' /\ ClearInv(t)'
    BY <1>4, <2>1, <2>2 DEF Stages, NewInv, ListedInv, QueuedInv, CallbackInv, ClearInv
  <2>4. OverInv(t)' /\ StageInv(t)'
    BY <1>0, <1>5, <2>1, <2>2 DEF Stages, OverInv, StageInv, CancelledInTime
  <2>5. AnswerInv(t)'
    BY <1>0, <1>4, <1>5, <2>1, <2>2 DEF AnswerInv
  <2>. QED BY <2>3, <2>4, <2>5 DEF TimerInv
<1>. QED BY <1>6, <1>7, <1>8, <1>10, <1>11 DEF TimerQueueInv, AllTimersInv

\* Time goes on: the deadlines in the queue come closer together.
LEMMA TickStep ==
    ASSUME TimerQueueInv, Tick
    PROVE  TimerQueueInv'
<1>0. /\ list # <<>> /\ \A t \in ToSet(list) : m_expires[t] > 0
      /\ m_expires' = [t \in Timers |-> IF t \in ToSet(list) THEN m_expires[t] - 1 ELSE m_expires[t]]
      /\ next_timer_due' = next_timer_due - 1
      /\ UNCHANGED <<smp, list, m_timers_executing, flags, refs, calls, pc, result, ran>>
  BY DEF Tick
<1>1. TypeOK /\ NextTimerIsFirst /\ OneCall /\ \A u \in Timers : TimerInv(u)
  BY DEF TimerQueueInv, AllTimersInv
<1>2. list \in Seq(Timers) /\ m_expires \in [Timers -> 0..MaxDelay] /\ MaxDelay \in Nat
  BY <1>1, TimerQueueAssumption DEF TypeOK
<1>3. \A i \in DOMAIN list : /\ list[i] \in Timers /\ list[i] \in ToSet(list)
                             /\ m_expires'[list[i]] = m_expires[list[i]] - 1
                             /\ m_expires[list[i]] \in 1..MaxDelay
  <2>1. \A i \in DOMAIN list : list[i] \in Timers /\ list[i] \in ToSet(list)
    BY <1>2 DEF ToSet
  <2>. QED BY <1>0, <1>2, <2>1
<1>4. 1 \in DOMAIN list /\ Head(list) = list[1]
  BY <1>0, <1>2
<1>5. next_timer_due = m_expires[list[1]]
  BY <1>0, <1>1, <1>4 DEF NextTimerIsFirst
<1>6. TypeOK'
  <2>1. m_expires' \in [Timers -> 0..MaxDelay]
    BY <1>0, <1>2
  <2>2. next_timer_due' \in 0..MaxDelay
    <3>1. next_timer_due \in 1..MaxDelay BY <1>3, <1>4, <1>5
    <3>. QED BY <1>0, <1>2, <3>1
  <2>. QED BY <1>0, <1>1, <2>1, <2>2 DEF TypeOK
<1>7. NextTimerIsFirst'
  <2>1. \A i, j \in DOMAIN list : i < j => m_expires'[list[i]] <= m_expires'[list[j]]
    BY <1>1, <1>2, <1>3 DEF NextTimerIsFirst
  <2>2. next_timer_due' = m_expires'[list[1]]
    BY <1>0, <1>3, <1>4, <1>5
  <2>. QED BY <1>0, <1>4, <2>1, <2>2 DEF NextTimerIsFirst
<1>8. OneCall'
  BY <1>0, <1>1 DEF OneCall
<1>9. \A u, w : Has(u, w)' <=> Has(u, w)
  BY <1>0, CallsKept
<1>10. ASSUME NEW u \in Timers PROVE TimerInv(u)'
  <2>1. HasCall(u) => m_expires'[u] = m_expires[u]
    BY <1>0, <1>1 DEF TimerInv, ListedInv
  <2>2. Same(u)
    BY <1>0, <1>9, <2>1 DEF Same
  <2>. QED BY <1>1, <2>2, Unaffected
<1>. QED BY <1>6, <1>7, <1>8, <1>10 DEF TimerQueueInv, AllTimersInv

\* The first timer fires.
LEMMA FireStep ==
    ASSUME TimerQueueInv, Fire
    PROVE  TimerQueueInv'
<1>. PICK t \in Timers : t = Head(list)
  <2>1. list \in Seq(Timers) /\ list # <<>> BY DEF TimerQueueInv, TypeOK, Fire
  <2>. QED BY <2>1
<1>0. /\ list # <<>> /\ m_expires[t] = 0 /\ m_timers_executing' = m_timers_executing \cup {t}
      /\ list' = Tail(list) /\ next_timer_due' = NextDue(Tail(list), m_expires)
      /\ calls' = Append(calls, Deferred(t, "queued"))
      /\ UNCHANGED <<smp, m_expires, flags, refs, pc, result, ran>>
  BY DEF Fire, IsDue
<1>1. TypeOK /\ NextTimerIsFirst /\ OneCall /\ \A u \in Timers : TimerInv(u)
  BY DEF TimerQueueInv, AllTimersInv
<1>2. list \in Seq(Timers) /\ 1 \in DOMAIN list /\ t = list[1] /\ list' = RemoveAt(list, 1)
  BY <1>0, <1>1, ListTail DEF TypeOK
<1>3. t \in ToSet(list)
  BY <1>2 DEF ToSet
<1>4. /\ list' \in Seq(Timers) /\ IsInjective(list')
      /\ ToSet(list') = ToSet(list) \ {t}
      /\ \A j, k \in DOMAIN list' : j < k => m_expires'[list'[j]] <= m_expires'[list'[k]]
      /\ NextDue(list', m_expires) \in 0..MaxDelay
  BY <1>0, <1>2, QueueShrinks
<1>5. /\ refs[t] = 2 /\ ~HasCall(t) /\ t \notin m_timers_executing
      /\ pc[t] \in {"armed", "set_cancelled", "remove"} /\ Untouched(t)
      /\ t \notin m_callback_finished
  BY <1>1, <1>3 DEF TimerInv, ListedInv, AnswerInv
<1>6. /\ \A u \in Timers, w \in Stages : Has(u, w)' <=> Has(u, w) \/ (u = t /\ w = "queued")
      /\ \A i, j \in DOMAIN calls' : calls'[i].timer = calls'[j].timer => i = j
      /\ calls' \in Seq([timer : Timers, at : Stages])
  BY <1>0, <1>1, <1>3, <1>5, CallAppended
<1>7. TypeOK'
  BY <1>0, <1>1, <1>3, <1>4, <1>6 DEF TypeOK, Stages
<1>8. NextTimerIsFirst' /\ OneCall'
  BY <1>0, <1>4, <1>6 DEF NextTimerIsFirst, OneCall, NextDue
<1>9. ASSUME NEW u \in Timers, u # t PROVE TimerInv(u)'
  <2>1. Same(u)
    BY <1>0, <1>4, <1>6, <1>9 DEF Same
  <2>. QED BY <1>1, <2>1, Unaffected
<1>10. TimerInv(t)'
  <2>1. HasCall(t)' /\ Has(t, "queued")' /\ ~Has(t, "callback")' /\ ~Has(t, "clear")' /\ ~Has(t, "finish")'
    BY <1>3, <1>5, <1>6 DEF HasCall, Stages
  <2>2. t \notin ToSet(list') /\ t \in m_timers_executing'
    BY <1>0, <1>4
  <2>3. Untouched(t)'
    BY <1>0, <1>5 DEF Untouched
  <2>4. NewInv(t)' /\ ListedInv(t)' /\ QueuedInv(t)' /\ CallbackInv(t)'
    BY <1>0, <1>5, <2>1, <2>2, <2>3 DEF NewInv, ListedInv, QueuedInv, CallbackInv
  <2>5. ClearInv(t)' /\ OverInv(t)' /\ StageInv(t)'
    BY <2>1 DEF ClearInv, OverInv, StageInv
  <2>6. AnswerInv(t)'
    BY <1>0, <1>1, <1>3, <1>5, <2>1, <2>2 DEF TimerInv, AnswerInv
  <2>. QED BY <2>4, <2>5, <2>6 DEF TimerInv
<1>. QED BY <1>7, <1>8, <1>9, <1>10 DEF TimerQueueInv, AllTimersInv

-----------------------------------------------------------------------------
\* The timer of a deferred call: it is in no queue.
LEMMA CallTimer ==
    ASSUME TimerQueueInv, NEW i \in DOMAIN calls
    PROVE  \E t \in Timers :
              /\ t = calls[i].timer /\ calls[i].at \in Stages
              /\ \A w \in Stages : Has(t, w) <=> w = calls[i].at
              /\ HasCall(t) /\ t \notin ToSet(list) /\ TimerInv(t)
              /\ pc[t] # "new" /\ t \notin m_callback_finished
<1>1. TypeOK /\ OneCall
  BY DEF TimerQueueInv
<1>2. calls[i] \in [timer : Timers, at : Stages]
  <2>1. calls \in Seq([timer : Timers, at : Stages])
    BY <1>1 DEF TypeOK, Stages
  <2>. QED BY <2>1, ListElements
<1>3. calls[i].timer \in Timers /\ calls[i].at \in Stages
  BY <1>2
<1>4. PICK t \in Timers : t = calls[i].timer
  BY <1>3
<1>5. \A w \in Stages : Has(t, w) <=> w = calls[i].at
  BY <1>1, <1>4 DEF Has, OneCall
<1>6. HasCall(t) /\ TimerInv(t)
  BY <1>3, <1>5 DEF HasCall, Stages, TimerQueueInv, AllTimersInv
<1>7. t \notin ToSet(list) /\ pc[t] # "new" /\ t \notin m_callback_finished
  BY <1>6 DEF TimerInv, ListedInv, NewInv, AnswerInv
<1>. QED BY <1>3, <1>4, <1>5, <1>6, <1>7

\* The deferred call and the owner race for m_cancelled: the callback runs if
\* the call wins.
LEMMA CallBeginsStep ==
    ASSUME TimerQueueInv, NEW i \in DOMAIN calls, CallBegins(i)
    PROVE  TimerQueueInv'
<1>1. TypeOK /\ NextTimerIsFirst /\ OneCall /\ \A u \in Timers : TimerInv(u)
  BY DEF TimerQueueInv, AllTimersInv
<1>2. PICK t \in Timers :
              /\ t = calls[i].timer /\ calls[i].at \in Stages
              /\ \A w \in Stages : Has(t, w) <=> w = calls[i].at
              /\ HasCall(t) /\ t \notin ToSet(list) /\ TimerInv(t)
              /\ pc[t] # "new" /\ t \notin m_callback_finished
  BY CallTimer
<1>. DEFINE where == IF t \in m_cancelled THEN "clear" ELSE "callback"
<1>3. /\ calls[i].at = "queued" /\ m_cancelled' = m_cancelled \cup {t}
      /\ calls' = [calls EXCEPT ![i] = Deferred(t, where)]
      /\ ran' = IF t \in m_cancelled THEN ran ELSE [ran EXCEPT ![t] = @ + 1]
      /\ UNCHANGED <<smp, queue, m_expires, m_in_use, m_callback_finished, refs, pc, result>>
  BY <1>2 DEF CallBegins, IsCancelled
<1>4. where \in Stages /\ (where = "clear" <=> t \in m_cancelled) /\ where \in {"clear", "callback"}
  BY DEF Stages
<1>. HIDE DEF where
<1>5. /\ \A u \in Timers, w \in Stages : Has(u, w)' <=> IF u = t THEN w = where ELSE Has(u, w)
      /\ \A j, k \in DOMAIN calls' : calls'[j].timer = calls'[k].timer => j = k
      /\ calls' \in Seq([timer : Timers, at : Stages])
  BY <1>1, <1>2, <1>3, <1>4, CallMoved
<1>6. TypeOK'
  <2>1. ran' \in [Timers -> Nat]
    BY <1>1, <1>3 DEF TypeOK
  <2>. QED BY <1>1, <1>3, <1>5, <2>1 DEF TypeOK, Stages
<1>7. NextTimerIsFirst' /\ OneCall'
  BY <1>1, <1>3, <1>5 DEF NextTimerIsFirst, OneCall
<1>8. ASSUME NEW u \in Timers, u # t PROVE TimerInv(u)'
  <2>1. Same(u)
    BY <1>1, <1>3, <1>5, <1>8 DEF Same, TypeOK
  <2>. QED BY <1>1, <2>1, Unaffected
<1>9. TimerInv(t)'
  <2>1. /\ HasCall(t)' /\ ~Has(t, "queued")' /\ ~Has(t, "finish")'
        /\ Has(t, "callback")' <=> t \notin m_cancelled
        /\ Has(t, "clear")' <=> t \in m_cancelled
    BY <1>4, <1>5 DEF HasCall, Stages
  <2>2. /\ Untouched(t) /\ pc[t] \in {"armed", "set_cancelled", "remove", "cancelled"}
        /\ t \in m_timers_executing <=> pc[t] # "cancelled"
    BY <1>2, <1>3 DEF Stages, TimerInv, QueuedInv
  <2>3. ran'[t] = IF t \in m_cancelled THEN 0 ELSE 1
    BY <1>1, <1>3, <2>2 DEF TypeOK, Untouched
  <2>4. NewInv(t)' /\ ListedInv(t)' /\ QueuedInv(t)' /\ CallbackInv(t)'
    BY <1>2, <1>3, <2>1, <2>2, <2>3 DEF NewInv, ListedInv, QueuedInv, CallbackInv, Untouched
  <2>5. ClearInv(t)' /\ OverInv(t)' /\ StageInv(t)'
    BY <1>3, <2>1, <2>2, <2>3 DEF ClearInv, OverInv, StageInv, Untouched, CancelledInTime
  <2>6. t \notin m_cancelled => pc[t] # "cancelled"
    BY <2>2 DEF Untouched
  <2>7. AnswerInv(t)'
    BY <1>2, <1>3, <2>1, <2>2, <2>3, <2>6 DEF TimerInv, AnswerInv, Untouched
  <2>. QED BY <2>4, <2>5, <2>7 DEF TimerInv
<1>. QED BY <1>6, <1>7, <1>8, <1>9 DEF TimerQueueInv, AllTimersInv

\* The callback returns: the timer it leaves is in no queue, so remove() takes
\* nothing from the queue.
LEMMA CallReturnsStep ==
    ASSUME TimerQueueInv, NEW i \in DOMAIN calls, CallReturns(i)
    PROVE  TimerQueueInv'
<1>1. TypeOK /\ NextTimerIsFirst /\ OneCall /\ \A u \in Timers : TimerInv(u)
  BY DEF TimerQueueInv, AllTimersInv
<1>2. PICK t \in Timers :
              /\ t = calls[i].timer /\ calls[i].at \in Stages
              /\ \A w \in Stages : Has(t, w) <=> w = calls[i].at
              /\ HasCall(t) /\ t \notin ToSet(list) /\ TimerInv(t)
              /\ pc[t] # "new" /\ t \notin m_callback_finished
  BY CallTimer
<1>3. /\ calls[i].at = "callback" /\ m_timers_executing' = m_timers_executing \ {t}
      /\ calls' = [calls EXCEPT ![i] = Deferred(t, "clear")]
      /\ UNCHANGED <<smp, next_timer_due, m_expires, flags, refs, pc, result, ran>>
  BY <1>2 DEF CallReturns, ExecutingAfter
<1>4. list' = list
  BY <1>2 DEF CallReturns, RemoveFirst, ToSet
<1>10. "clear" \in Stages
  BY DEF Stages
<1>5. /\ \A u \in Timers, w \in Stages : Has(u, w)' <=> IF u = t THEN w = "clear" ELSE Has(u, w)
      /\ \A j, k \in DOMAIN calls' : calls'[j].timer = calls'[k].timer => j = k
      /\ calls' \in Seq([timer : Timers, at : Stages])
  BY <1>1, <1>2, <1>3, <1>10, CallMoved
<1>6. TypeOK'
  BY <1>1, <1>3, <1>4, <1>5 DEF TypeOK, Stages
<1>7. NextTimerIsFirst' /\ OneCall'
  BY <1>1, <1>3, <1>4, <1>5 DEF NextTimerIsFirst, OneCall
<1>8. ASSUME NEW u \in Timers, u # t PROVE TimerInv(u)'
  <2>1. Same(u)
    BY <1>1, <1>3, <1>4, <1>5, <1>8 DEF Same, TypeOK
  <2>. QED BY <1>1, <2>1, Unaffected
<1>9. TimerInv(t)'
  <2>1. HasCall(t)' /\ ~Has(t, "queued")' /\ ~Has(t, "callback")' /\ Has(t, "clear")' /\ ~Has(t, "finish")'
    BY <1>5 DEF HasCall, Stages
  <2>2. /\ ran[t] = 1 /\ t \in m_cancelled /\ t \in m_in_use
        /\ pc[t] \in {"armed", "set_cancelled", "spin"}
    BY <1>2, <1>3 DEF Stages, TimerInv, CallbackInv
  <2>3. NewInv(t)' /\ ListedInv(t)' /\ QueuedInv(t)' /\ CallbackInv(t)'
    BY <1>2, <1>3, <1>4, <2>1, <2>2 DEF NewInv, ListedInv, QueuedInv, CallbackInv
  <2>4. ClearInv(t)' /\ OverInv(t)' /\ StageInv(t)'
    BY <1>3, <2>1, <2>2 DEF ClearInv, OverInv, StageInv, RanOut
  <2>5. AnswerInv(t)'
    BY <1>2, <1>3, <1>4, <2>1, <2>2 DEF TimerInv, AnswerInv
  <2>. QED BY <2>3, <2>4, <2>5 DEF TimerInv
<1>. QED BY <1>6, <1>7, <1>8, <1>9 DEF TimerQueueInv, AllTimersInv

\* The timer is no longer in use.
LEMMA CallClearsInUseStep ==
    ASSUME TimerQueueInv, NEW i \in DOMAIN calls, CallClearsInUse(i)
    PROVE  TimerQueueInv'
<1>1. TypeOK /\ NextTimerIsFirst /\ OneCall /\ \A u \in Timers : TimerInv(u)
  BY DEF TimerQueueInv, AllTimersInv
<1>2. PICK t \in Timers :
              /\ t = calls[i].timer /\ calls[i].at \in Stages
              /\ \A w \in Stages : Has(t, w) <=> w = calls[i].at
              /\ HasCall(t) /\ t \notin ToSet(list) /\ TimerInv(t)
              /\ pc[t] # "new" /\ t \notin m_callback_finished
  BY CallTimer
<1>3. /\ calls[i].at = "clear" /\ m_in_use' = m_in_use \ {t}
      /\ calls' = [calls EXCEPT ![i] = Deferred(t, "finish")]
      /\ UNCHANGED <<smp, queue, m_expires, m_cancelled, m_callback_finished, refs, pc, result, ran>>
  BY <1>2 DEF CallClearsInUse
<1>10. "finish" \in Stages
  BY DEF Stages
<1>5. /\ \A u \in Timers, w \in Stages : Has(u, w)' <=> IF u = t THEN w = "finish" ELSE Has(u, w)
      /\ \A j, k \in DOMAIN calls' : calls'[j].timer = calls'[k].timer => j = k
      /\ calls' \in Seq([timer : Timers, at : Stages])
  BY <1>1, <1>2, <1>3, <1>10, CallMoved
<1>6. TypeOK'
  BY <1>1, <1>3, <1>5 DEF TypeOK, Stages
<1>7. NextTimerIsFirst' /\ OneCall'
  BY <1>1, <1>3, <1>5 DEF NextTimerIsFirst, OneCall
<1>8. ASSUME NEW u \in Timers, u # t PROVE TimerInv(u)'
  <2>1. Same(u)
    BY <1>1, <1>3, <1>5, <1>8 DEF Same, TypeOK
  <2>. QED BY <1>1, <2>1, Unaffected
<1>9. TimerInv(t)'
  <2>1. HasCall(t)' /\ ~Has(t, "queued")' /\ ~Has(t, "callback")' /\ ~Has(t, "clear")' /\ Has(t, "finish")'
    BY <1>5 DEF HasCall, Stages
  <2>2. \/ RanOut(t) /\ t \in m_in_use /\ pc[t] \in {"armed", "set_cancelled", "spin"}
        \/ CancelledInTime(t)
    BY <1>2, <1>3 DEF Stages, TimerInv, ClearInv
  <2>3. NewInv(t)' /\ ListedInv(t)' /\ QueuedInv(t)' /\ CallbackInv(t)'
    BY <1>2, <1>3, <2>1 DEF NewInv, ListedInv, QueuedInv, CallbackInv
  <2>4. ClearInv(t)' /\ OverInv(t)' /\ StageInv(t)'
    BY <1>3, <2>1, <2>2 DEF ClearInv, OverInv, StageInv, RanOut, CancelledInTime
  <2>5. AnswerInv(t)'
    BY <1>2, <1>3, <2>1 DEF TimerInv, AnswerInv
  <2>. QED BY <2>3, <2>4, <2>5 DEF TimerInv
<1>. QED BY <1>6, <1>7, <1>8, <1>9 DEF TimerQueueInv, AllTimersInv

\* The deferred call ends and drops its reference.
LEMMA CallFinishesStep ==
    ASSUME TimerQueueInv, NEW i \in DOMAIN calls, CallFinishes(i)
    PROVE  TimerQueueInv'
<1>1. TypeOK /\ NextTimerIsFirst /\ OneCall /\ \A u \in Timers : TimerInv(u)
  BY DEF TimerQueueInv, AllTimersInv
<1>2. PICK t \in Timers :
              /\ t = calls[i].timer /\ calls[i].at \in Stages
              /\ \A w \in Stages : Has(t, w) <=> w = calls[i].at
              /\ HasCall(t) /\ t \notin ToSet(list) /\ TimerInv(t)
              /\ pc[t] # "new" /\ t \notin m_callback_finished
  BY CallTimer
<1>3. /\ calls[i].at = "finish" /\ m_callback_finished' = m_callback_finished \cup {t}
      /\ refs' = [refs EXCEPT ![t] = @ - 1] /\ calls' = RemoveAt(calls, i)
      /\ UNCHANGED <<smp, queue, m_expires, m_cancelled, m_in_use, pc, result, ran>>
  BY <1>2 DEF CallFinishes, Finished
<1>4. refs[t] = 2
  BY <1>2 DEF TimerInv, AnswerInv
<1>5. /\ \A u \in Timers, w \in Stages : Has(u, w)' <=> u # t /\ Has(u, w)
      /\ \A j, k \in DOMAIN calls' : calls'[j].timer = calls'[k].timer => j = k
      /\ calls' \in Seq([timer : Timers, at : Stages])
  BY <1>1, <1>2, <1>3, CallRemoved
<1>6. TypeOK'
  <2>1. refs' \in [Timers -> Nat]
    <3>1. refs[t] - 1 \in Nat BY <1>4
    <3>. QED BY <1>1, <1>3, <3>1 DEF TypeOK
  <2>. QED BY <1>1, <1>3, <1>5, <2>1 DEF TypeOK, Stages
<1>7. NextTimerIsFirst' /\ OneCall'
  BY <1>1, <1>3, <1>5 DEF NextTimerIsFirst, OneCall
<1>8. ASSUME NEW u \in Timers, u # t PROVE TimerInv(u)'
  <2>1. Same(u)
    BY <1>1, <1>3, <1>5, <1>8 DEF Same, TypeOK
  <2>. QED BY <1>1, <2>1, Unaffected
<1>9. TimerInv(t)'
  <2>1. ~HasCall(t)' /\ ~Has(t, "queued")' /\ ~Has(t, "callback")' /\ ~Has(t, "clear")' /\ ~Has(t, "finish")'
    BY <1>5 DEF HasCall, Stages
  <2>2. refs'[t] = 1
    BY <1>1, <1>3, <1>4 DEF TypeOK
  <2>3. \/ RanOut(t) /\ t \notin m_in_use /\ pc[t] \in {"armed", "set_cancelled", "spin", "cancelled"}
        \/ CancelledInTime(t)
    BY <1>2, <1>3 DEF Stages, TimerInv, OverInv
  <2>4. NewInv(t)' /\ ListedInv(t)' /\ QueuedInv(t)' /\ CallbackInv(t)'
    BY <1>2, <1>3, <2>1 DEF NewInv, ListedInv, QueuedInv, CallbackInv
  <2>5. ClearInv(t)' /\ OverInv(t)' /\ StageInv(t)'
    BY <1>3, <2>1, <2>3 DEF ClearInv, OverInv, StageInv, RanOut, CancelledInTime
  <2>6. AnswerInv(t)'
    BY <1>2, <1>3, <2>1, <2>2 DEF TimerInv, AnswerInv
  <2>. QED BY <2>4, <2>5, <2>6 DEF TimerInv
<1>. QED BY <1>6, <1>7, <1>8, <1>9 DEF TimerQueueInv, AllTimersInv

-----------------------------------------------------------------------------
\* The invariant holds in every reachable state, if no timer is armed again
\* on several processors.
THEOREM TimerQueueInvHolds == ASSUME ~RearmOnSMP PROVE Spec => []TimerQueueInv
<1>1. TimerQueueInv /\ [Next]_vars => TimerQueueInv'
  <2>. SUFFICES ASSUME TimerQueueInv, [Next]_vars PROVE TimerQueueInv'
    OBVIOUS
  <2>1. CASE Next
    <3>1. ASSUME NEW t \in Timers, NEW delay \in 1..MaxDelay, AddTimer(t, delay) PROVE TimerQueueInv'
      BY <3>1, AddTimerStep
    <3>2. ASSUME NEW t \in Timers, CancelTimer(t) PROVE TimerQueueInv'
      BY <3>2, CancelTimerStep
    <3>3. ASSUME NEW t \in Timers, Cancel(t) PROVE TimerQueueInv'
      BY <3>3, SetCancelledStep, RemoveTimerStep, RemoveExecutingStep, SpinEndsStep DEF Cancel
    <3>4. CASE Tick
      BY <3>4, TickStep
    <3>5. CASE Fire
      BY <3>5, FireStep
    <3>6. ASSUME NEW i \in DOMAIN calls, Call(i) PROVE TimerQueueInv'
      BY <3>6, CallBeginsStep, CallReturnsStep, CallClearsInUseStep, CallFinishesStep DEF Call
    <3>. QED BY <2>1, <3>1, <3>2, <3>3, <3>4, <3>5, <3>6 DEF Next
  <2>2. CASE UNCHANGED vars
    <3>0. UNCHANGED <<smp, queue, m_expires, flags, refs, calls, pc, result, ran>>
      BY <2>2 DEF vars
    <3>1. TypeOK' /\ NextTimerIsFirst' /\ OneCall'
      BY <3>0 DEF TimerQueueInv, TypeOK, NextTimerIsFirst, OneCall
    <3>2. \A u, w : Has(u, w)' <=> Has(u, w)
      BY <3>0, CallsKept
    <3>3. \A u \in Timers : Same(u)
      BY <3>0, <3>2 DEF Same
    <3>4. \A u \in Timers : TimerInv(u)'
      BY <3>3, Unaffected DEF TimerQueueInv, AllTimersInv
    <3>. QED BY <3>1, <3>4 DEF TimerQueueInv, AllTimersInv
  <2>. QED BY <2>1, <2>2
<1>. QED BY <1>1, InitialState, PTL DEF Spec

\* The queue is ordered, next_timer_due is that of its first timer, and what
\* setup() and cancel_timer() VERIFY of the lists is true, whoever arms, fires
\* and cancels meanwhile.
THEOREM QueueIsSoundHolds == ASSUME ~RearmOnSMP PROVE Spec => []QueueIsSound
<1>1. TimerQueueInv => QueueIsSound
  <2>. SUFFICES ASSUME TimerQueueInv PROVE QueueIsSound
    OBVIOUS
  <2>1. ASSUME NEW t \in Timers
        PROVE  /\ (pc[t] \in {"new", "cancelled"} \/ t \notin m_in_use) /\ pc[t] # "remove" => ~Queued(t)
               /\ pc[t] = "remove" => Queued(t)
    <3>1. TimerInv(t)
      BY DEF TimerQueueInv, AllTimersInv
    <3>2. ASSUME Queued(t), pc[t] # "remove"
          PROVE  pc[t] \notin {"new", "cancelled"} /\ t \in m_in_use
      BY <3>1, <3>2 DEF Queued, HasCall, TimerInv, NewInv, ListedInv, QueuedInv, CallbackInv, ClearInv,
                        OverInv, Untouched, RanOut, CancelledInTime
    <3>3. ASSUME pc[t] = "remove" PROVE Queued(t)
      BY <3>1, <3>3 DEF Queued, HasCall, TimerInv, QueuedInv, CallbackInv, ClearInv,
                        OverInv, Untouched, RanOut, CancelledInTime
    <3>. QED BY <3>2, <3>3
  <2>2. OnTheRightList
    BY <2>1 DEF OnTheRightList
  <2>. QED BY <2>2 DEF TimerQueueInv, QueueIsSound
<1>. QED BY <1>1, TimerQueueInvHolds, PTL

\* A callback runs at most once per arming and when it is due, and what
\* cancel_timer() answers is final, although the owner and the deferred call
\* run at the same time.
THEOREM CallbacksAreExactHold == ASSUME ~RearmOnSMP PROVE Spec => []CallbacksAreExact
<1>1. TimerQueueInv => CallbacksAreExact
  <2>. SUFFICES ASSUME TimerQueueInv PROVE CallbacksAreExact
    OBVIOUS
  <2>1. ASSUME NEW t \in Timers PROVE ran[t] <= 1
    <3>1. TimerInv(t)
      BY DEF TimerQueueInv, AllTimersInv
    <3>2. ran[t] = 0 \/ ran[t] = 1
      BY <3>1 DEF HasCall, TimerInv, NewInv, ListedInv, QueuedInv, CallbackInv, ClearInv,
                  OverInv, Untouched, RanOut, CancelledInTime
    <3>. QED BY <3>2
  <2>2. ASSUME NEW i \in DOMAIN calls
        PROVE  /\ m_expires[calls[i].timer] = 0
               /\ calls[i].at = "callback" => pc[calls[i].timer] # "cancelled"
    <3>1. PICK t \in Timers :
              /\ t = calls[i].timer /\ calls[i].at \in Stages
              /\ \A w \in Stages : Has(t, w) <=> w = calls[i].at
              /\ HasCall(t) /\ TimerInv(t)
      BY CallTimer
    <3>2. m_expires[t] = 0
      BY <3>1 DEF TimerInv, AnswerInv
    <3>3. Has(t, "callback") => pc[t] # "cancelled"
      BY <3>1 DEF TimerInv, CallbackInv
    <3>. QED BY <3>1, <3>2, <3>3
  <2>3. RunsOnceWhenDue
    BY <2>1, <2>2 DEF RunsOnceWhenDue
  <2>4. ASSUME NEW t \in Timers, pc[t] = "cancelled" PROVE result[t] <=> ran[t] = 0
    BY <2>4 DEF TimerQueueInv, AllTimersInv, TimerInv, AnswerInv
  <2>5. CancelIsFinal
    BY <2>2, <2>4 DEF CancelIsFinal, CallsOf
  <2>. QED BY <2>3, <2>5 DEF CallbacksAreExact
<1>. QED BY <1>1, TimerQueueInvHolds, PTL

\* Every reference to a timer is the owner's, the queue's or a deferred
\* call's, so no timer is freed under its deferred call.
THEOREM ReferencesAreExactHold == ASSUME ~RearmOnSMP PROVE Spec => []ReferencesAreExact
<1>1. TimerQueueInv => ReferencesAreExact
  <2>. SUFFICES ASSUME TimerQueueInv, NEW t \in Timers
                PROVE  refs[t] = 1 + (IF t \in ToSet(list) THEN 1 ELSE 0) + Cardinality(CallsOf(t))
    BY DEF ReferencesAreExact
  <2>1. Cardinality(CallsOf(t)) = IF HasCall(t) THEN 1 ELSE 0
    <3>1. CASE HasCall(t)
      <4>1. PICK i \in DOMAIN calls : calls[i].timer = t
        BY <3>1 DEF HasCall, Has
      <4>2. CallsOf(t) = {i}
        BY <4>1 DEF CallsOf, TimerQueueInv, OneCall
      <4>3. Cardinality({i}) = 1
        BY FS_Singleton
      <4>. QED BY <3>1, <4>2, <4>3
    <3>2. CASE ~HasCall(t)
      <4>1. \A i \in DOMAIN calls : calls[i].timer # t
        <5>. TAKE i \in DOMAIN calls
        <5>. QED BY <3>2, CallTimer
      <4>2. CallsOf(t) = {}
        BY <4>1 DEF CallsOf
      <4>. QED BY <3>2, <4>2, FS_EmptySet
    <3>. QED BY <3>1, <3>2
  <2>2. refs[t] = 1 + (IF t \in ToSet(list) THEN 1 ELSE 0) + (IF HasCall(t) THEN 1 ELSE 0)
    BY DEF TimerQueueInv, AllTimersInv, TimerInv, AnswerInv
  <2>. QED BY <2>1, <2>2
<1>. QED BY <1>1, TimerQueueInvHolds, PTL
=============================================================================
