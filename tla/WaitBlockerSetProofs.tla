------------------------ MODULE WaitBlockerSetProofs ------------------------
(***************************************************************************)
(* Proofs about WaitBlockerSet, for any number of threads and children and *)
(* any set of waits: the list of the parent has every zombie until a wait  *)
(* takes it, no sleeper overlooks one, and a death is consumed once.       *)
(***************************************************************************)
EXTENDS WaitBlockerSet, ListTheorems, FiniteSetTheorems, WellFoundedInduction

Entries == [process : Children, flags : UnblockFlags, was_waited : BOOLEAN]

\* A list with one entry for a child, and deaths that nobody has waited for.
IsList(l) ==
    /\ l \in Seq(Entries)
    /\ \A i, j \in 1..Len(l) : l[i].process = l[j].process => i = j
    /\ \A i \in 1..Len(l) : l[i].flags = "Terminated" => l[i].was_waited = FALSE

\* The children whose death the list has.
Deaths(l) == {c \in Children : \E i \in 1..Len(l) : l[i].process = c /\ l[i].flags = "Terminated"}

\* Deaths are those of dead children, not yet consumed by a wait; the deaths
\* that the parent was told of are there unless a wait has consumed them.
DeathsInv ==
    /\ IsList(m_processes)
    /\ \A c \in Deaths(m_processes) : phase[c] = "dead" /\ c \notin reaped
    /\ \A c \in Children : phase[c] = "dead" /\ c \in owned /\ c \notin reaped => c \in Deaths(m_processes)
    /\ \A c \in Children : c \in reaped => phase[c] = "dead"

\* Who sleeps without a result is in the set, and has overlooked no death.
SleepersInv ==
    \A t \in Threads : pc[t] = "asleep" /\ m_result[t] = NoInfo =>
        /\ t \in m_blockers
        /\ \A c \in Deaths(m_processes) : ~Unblocks(t, c, "Terminated")

StateOK ==
    /\ phase \in [Children -> {"running", "stopped", "dead"}] /\ owned \subseteq Children
    /\ pc \in [Threads -> {"outside", "calling", "asleep", "returning", "interrupted"}]
    /\ wait \in [Threads -> Waits \cup {NoWait}]
    /\ m_result \in [Threads -> [process : Children, flags : UnblockFlags] \cup {NoInfo}]
    /\ signal \in [Threads -> {None, "SIGCHLD", "other"}]

WaitInv == StateOK /\ DeathsInv /\ SleepersInv

-----------------------------------------------------------------------------
(* Lists *)

\* The entries of a list.
LEMMA EntryFields ==
    ASSUME NEW l, IsList(l), NEW i \in 1..Len(l)
    PROVE  /\ l[i] \in Entries /\ l[i].process \in Children /\ l[i].flags \in UnblockFlags
           /\ l[i].was_waited \in BOOLEAN
           /\ l[i] = Entry(l[i].process, l[i].flags, l[i].was_waited)
<1>1. l[i] \in Entries
  BY DEF IsList
<1>2. \A e \in Entries : /\ e.process \in Children /\ e.flags \in UnblockFlags /\ e.was_waited \in BOOLEAN
                         /\ e = Entry(e.process, e.flags, e.was_waited)
  BY DEF Entries, Entry
<1>. QED BY <1>1, <1>2

\* What Entry makes.
LEMMA EntryOf ==
    ASSUME NEW c \in Children, NEW flags \in UnblockFlags, NEW w \in BOOLEAN
    PROVE  /\ Entry(c, flags, w) \in Entries
           /\ Entry(c, flags, w).process = c /\ Entry(c, flags, w).flags = flags
           /\ Entry(c, flags, w).was_waited = w
  BY DEF Entry, Entries

\* The death of a child is pending when the list has it.
LEMMA PendingIsInList ==
    ASSUME IsList(m_processes), NEW c \in Children
    PROVE  Pending(c) <=> c \in Deaths(m_processes)
<1>1. ASSUME Pending(c) PROVE c \in Deaths(m_processes)
  <2>1. PICK i \in 1..Len(m_processes) : m_processes[i] = Entry(c, "Terminated", FALSE)
    BY <1>1 DEF Pending
  <2>2. m_processes[i].process = c /\ m_processes[i].flags = "Terminated"
    BY <2>1 DEF Entry
  <2>. QED BY <2>2 DEF Deaths
<1>2. ASSUME c \in Deaths(m_processes) PROVE Pending(c)
  <2>1. PICK i \in 1..Len(m_processes) :
            m_processes[i].process = c /\ m_processes[i].flags = "Terminated"
    BY <1>2 DEF Deaths
  <2>2. m_processes[i].was_waited = FALSE
    BY <2>1 DEF IsList
  <2>3. m_processes[i] = Entry(m_processes[i].process, m_processes[i].flags, m_processes[i].was_waited)
    BY EntryFields
  <2>4. m_processes[i] = Entry(c, "Terminated", FALSE)
    BY <2>1, <2>2, <2>3
  <2>. QED BY <2>4 DEF Pending
<1>. QED BY <1>1, <1>2

\* A list has at most as many entries as there are children.
LEMMA ListFits ==
    ASSUME NEW l, IsList(l)
    PROVE  l \in SeqOf(Entries, Cardinality(Children))
<1>. DEFINE f == [i \in 1..Len(l) |-> l[i].process]
<1>1. l \in Seq(Entries) /\ Len(l) \in Nat
  BY ListElements DEF IsList
<1>2. f \in [1..Len(l) -> Children] /\ \A i \in 1..Len(l) : f[i] = l[i].process
  BY EntryFields
<1>3. \A i, j \in 1..Len(l) : l[i].process = l[j].process => i = j
  BY DEF IsList
<1>. HIDE DEF f
<1>4. f \in Injection(1..Len(l), Children)
  BY <1>2, <1>3 DEF Injection, IsInjective
<1>5. Cardinality(1..Len(l)) <= Cardinality(Children) /\ Cardinality(Children) \in Nat
  BY <1>4, WaitAssumption, FS_Injection, FS_CardinalityType
<1>6. Cardinality(1..Len(l)) = Len(l)
  <2>1. 1 \in Int /\ Len(l) \in Int BY <1>1
  <2>2. Cardinality(1..Len(l)) = IF 1 > Len(l) THEN 0 ELSE Len(l)-1+1
    BY <2>1, FS_Interval
  <2>. QED BY <1>1, <2>2
<1>7. Len(l) \in 0..Cardinality(Children) /\ l \in [1..Len(l) -> Entries]
  BY <1>1, <1>5, <1>6
<1>. QED BY <1>7 DEF SeqOf

\* Taking an entry out of a list takes the death it tells of out of it.
LEMMA RemoveEntry ==
    ASSUME NEW l, IsList(l), NEW i \in 1..Len(l), l[i].flags = "Terminated"
    PROVE  /\ IsList(RemoveAt(l, i))
           /\ Deaths(RemoveAt(l, i)) = Deaths(l) \ {l[i].process}
<1>. DEFINE r == RemoveAt(l, i)
            n == Len(l)
<1>1. l \in Seq(Entries) /\ n \in Nat /\ DOMAIN l = 1..n
  BY ListElements DEF IsList
<1>2. r \in Seq(Entries) /\ DOMAIN r = 1..n-1
  BY <1>1, ListRemoveAt
<1>3. \A k \in 1..n-1 : r[k] = IF k < i THEN l[k] ELSE l[k+1]
  BY <1>1, ListRemoveAt
<1>. HIDE DEF r
<1>4. Len(r) = n-1
  <2>1. Len(r) \in Nat /\ DOMAIN r = 1..Len(r) BY <1>2, ListElements
  <2>2. n-1 \in Nat BY <1>1
  <2>. HIDE DEF n
  <2>. QED BY <1>2, <2>1, <2>2
<1>. DEFINE at(k) == IF k < i THEN k ELSE k+1
<1>5. \A k \in 1..n-1 : at(k) \in 1..n /\ at(k) # i /\ r[k] = l[at(k)]
  BY <1>1, <1>3
<1>6. \A k, m \in 1..n-1 : at(k) = at(m) => k = m
  BY <1>1
<1>7. \A m \in 1..n : m # i => \E k \in 1..n-1 : at(k) = m
  <2>. TAKE m \in 1..n
  <2>. HAVE m # i
  <2>1. CASE m < i
    <3>1. m \in 1..n-1 /\ at(m) = m BY <1>1, <2>1
    <3>. QED BY <3>1
  <2>2. CASE m > i
    <3>1. m-1 \in 1..n-1 /\ at(m-1) = m BY <1>1, <2>2
    <3>. QED BY <3>1
  <2>. QED BY <1>1, <2>1, <2>2
<1>. HIDE DEF at, n
<1>8. IsList(r)
  <2>1. \A k, m \in 1..Len(r) : r[k].process = r[m].process => k = m
    BY <1>4, <1>5, <1>6 DEF IsList, n
  <2>2. \A k \in 1..Len(r) : r[k].flags = "Terminated" => r[k].was_waited = FALSE
    BY <1>4, <1>5 DEF IsList, n
  <2>. QED BY <1>2, <2>1, <2>2 DEF IsList
<1>9. \A m \in 1..n : m # i => l[m].process # l[i].process
  BY DEF IsList, n
<1>10. Deaths(r) = Deaths(l) \ {l[i].process}
  <2>1. ASSUME NEW c \in Deaths(r) PROVE c \in Deaths(l) \ {l[i].process}
    <3>1. PICK k \in 1..n-1 : r[k].process = c /\ r[k].flags = "Terminated"
      BY <1>4, <2>1 DEF Deaths
    <3>2. at(k) \in 1..n /\ at(k) # i /\ r[k] = l[at(k)] BY <1>5
    <3>3. c # l[i].process BY <1>9, <3>1, <3>2
    <3>4. c \in Deaths(l) BY <2>1, <3>1, <3>2 DEF Deaths, n
    <3>. QED BY <3>3, <3>4
  <2>2. ASSUME NEW c \in Deaths(l) \ {l[i].process} PROVE c \in Deaths(r)
    <3>1. PICK m \in 1..n : l[m].process = c /\ l[m].flags = "Terminated"
      BY <2>2 DEF Deaths, n
    <3>2. PICK k \in 1..n-1 : at(k) = m BY <1>7, <2>2, <3>1
    <3>3. r[k] = l[m] BY <1>5, <3>2
    <3>. QED BY <1>4, <2>2, <3>1, <3>3 DEF Deaths
  <2>. QED BY <2>1, <2>2
<1>. QED BY <1>8, <1>10 DEF r

\* Putting an entry for the same child in the place of another.
LEMMA ReplaceEntry ==
    ASSUME NEW l, IsList(l), NEW i \in 1..Len(l), NEW flags \in UnblockFlags, NEW w \in BOOLEAN,
           flags = "Terminated" => w = FALSE
    PROVE  LET r == [l EXCEPT ![i] = Entry(l[i].process, flags, w)]
           IN  /\ IsList(r)
               /\ Deaths(r) = IF flags = "Terminated" THEN Deaths(l) \cup {l[i].process}
                                                      ELSE Deaths(l) \ {l[i].process}
<1>. DEFINE c == l[i].process
            e == Entry(c, flags, w)
            r == [l EXCEPT ![i] = e]
<1>1. l \in Seq(Entries) /\ Len(l) \in Nat /\ DOMAIN l = 1..Len(l)
  BY ListElements DEF IsList
<1>2. c \in Children
  BY EntryFields
<1>3. e \in Entries /\ e.process = c /\ e.flags = flags /\ e.was_waited = w
  BY <1>2, EntryOf
<1>. HIDE DEF e
<1>4. r \in Seq(Entries) /\ Len(r) = Len(l) /\ r[i] = e /\ \A k \in 1..Len(l) : k # i => r[k] = l[k]
  BY <1>1, <1>3
<1>5. \A k \in 1..Len(l) : r[k].process = l[k].process
  BY <1>3, <1>4
<1>. HIDE DEF r
<1>6. IsList(r)
  <2>1. \A k, m \in 1..Len(r) : r[k].process = r[m].process => k = m
    BY <1>4, <1>5 DEF IsList
  <2>2. \A k \in 1..Len(r) : r[k].flags = "Terminated" => r[k].was_waited = FALSE
    BY <1>3, <1>4 DEF IsList
  <2>. QED BY <1>4, <2>1, <2>2 DEF IsList
<1>7. \A k \in 1..Len(l) : k # i => l[k].process # c
  BY DEF IsList
<1>8. \A d : d # c => (d \in Deaths(r) <=> d \in Deaths(l))
  BY <1>3, <1>4, <1>7 DEF Deaths
<1>9. c \in Deaths(r) <=> flags = "Terminated"
  <2>1. \A k \in 1..Len(l) : k # i => r[k].process # c BY <1>5, <1>7
  <2>. QED BY <1>2, <1>3, <1>4, <2>1 DEF Deaths
<1>10. Deaths(r) = IF flags = "Terminated" THEN Deaths(l) \cup {c} ELSE Deaths(l) \ {c}
  BY <1>8, <1>9
<1>. QED BY <1>6, <1>10 DEF r, e

\* The new state of a child in the list.
LEMMA UpdateList ==
    ASSUME IsList(m_processes), NEW c \in Children, NEW flags \in UnblockFlags, NEW w \in BOOLEAN,
           flags = "Terminated" => w = FALSE
    PROVE  /\ IsList(Update(c, flags, w))
           /\ Deaths(Update(c, flags, w)) =
                 IF flags = "Terminated" THEN Deaths(m_processes) \cup {c} ELSE Deaths(m_processes) \ {c}
<1>. DEFINE l == m_processes
            r == Update(c, flags, w)
<1>1. l \in Seq(Entries) /\ Len(l) \in Nat /\ DOMAIN l = 1..Len(l)
  BY ListElements DEF IsList
<1>2. CASE \E i \in 1..Len(l) : l[i].process = c
  <2>1. PICK i \in 1..Len(l) : l[i].process = c
    BY <1>2
  <2>2. \A k \in 1..Len(l) : l[k].process = c <=> k = i
    BY <2>1 DEF IsList
  <2>3. r = [k \in 1..Len(l) |-> IF l[k].process = c THEN Entry(c, flags, w) ELSE l[k]]
    BY <1>2 DEF Update
  <2>. HIDE DEF r
  <2>4. r = [l EXCEPT ![i] = Entry(l[i].process, flags, w)]
    BY <1>1, <2>1, <2>2, <2>3
  <2>. HIDE DEF l
  <2>5. IsList(l) BY DEF l
  <2>6. /\ IsList(r)
        /\ Deaths(r) = IF flags = "Terminated" THEN Deaths(l) \cup {l[i].process}
                                               ELSE Deaths(l) \ {l[i].process}
    BY <2>4, <2>5, ReplaceEntry
  <2>. QED BY <2>1, <2>6 DEF r, l
<1>3. CASE \A i \in 1..Len(l) : l[i].process # c
  <2>. DEFINE e == Entry(c, flags, FALSE)
  <2>1. e \in Entries /\ e.process = c /\ e.flags = flags /\ e.was_waited = FALSE
    BY EntryOf
  <2>2. r = Append(l, e)
    BY <1>3 DEF Update
  <2>. HIDE DEF e, r
  <2>3. /\ r \in Seq(Entries) /\ Len(r) = Len(l)+1 /\ r[Len(l)+1] = e
        /\ \A k \in 1..Len(l) : r[k] = l[k]
    BY <1>1, <2>1, <2>2
  <2>. HIDE DEF l
  <2>4. IsList(l) BY DEF l
  <2>5. \A k \in 1..Len(r) : k \in 1..Len(l) \/ k = Len(l)+1
    BY <1>1, <2>3
  <2>6. IsList(r)
    <3>1. ASSUME NEW k \in 1..Len(r), NEW m \in 1..Len(r), r[k].process = r[m].process PROVE k = m
      BY <1>3, <2>1, <2>3, <2>4, <2>5, <3>1 DEF IsList
    <3>2. \A k \in 1..Len(r) : r[k].flags = "Terminated" => r[k].was_waited = FALSE
      BY <2>1, <2>3, <2>4, <2>5 DEF IsList
    <3>. QED BY <2>3, <3>1, <3>2 DEF IsList
  <2>7. Len(l)+1 \in 1..Len(r) /\ \A k \in 1..Len(l) : k \in 1..Len(r)
    BY <1>1, <2>3
  <2>8. \A d : d # c => (d \in Deaths(r) <=> d \in Deaths(l))
    BY <2>1, <2>3, <2>5, <2>7 DEF Deaths
  <2>9. c \in Deaths(r) <=> flags = "Terminated"
    <3>1. c \in Deaths(r) <=> \E k \in 1..Len(r) : r[k].process = c /\ r[k].flags = "Terminated"
      BY DEF Deaths
    <3>. QED BY <1>3, <2>1, <2>3, <2>5, <2>7, <3>1
  <2>10. Deaths(r) = IF flags = "Terminated" THEN Deaths(l) \cup {c} ELSE Deaths(l) \ {c}
    BY <2>8, <2>9
  <2>. QED BY <2>6, <2>10 DEF r, l
<1>. QED BY <1>2, <1>3

\* The first of some places is one of them.
LEMMA FirstIsOne ==
    ASSUME NEW S \in SUBSET Nat, S # {}
    PROVE  First(S) \in S
<1>1. PICK x \in S : \A y \in S : ~(<<y, x>> \in OpToRel(<, Nat))
  BY NatLessThanWellFounded, WFMin
<1>2. \A y \in S : ~(y < x)
  BY <1>1 DEF OpToRel
<1>3. \A y \in S : x <= y
  BY <1>2
<1>. QED BY <1>3 DEF First

-----------------------------------------------------------------------------
(* The invariant, and what it is for *)

\* A result is not the absence of one.
LEMMA InfoOf ==
    ASSUME NEW c, NEW flags \in UnblockFlags
    PROVE  /\ Info(c, flags) # NoInfo
           /\ Info(c, flags).process = c /\ Info(c, flags).flags = flags
           /\ c \in Children => Info(c, flags) \in [process : Children, flags : UnblockFlags]
<1>1. Info(c, flags).process = c /\ Info(c, flags).flags = flags
  BY DEF Info
<1>2. NoInfo.flags = "none"
  BY DEF NoInfo, Info, None
<1>3. flags # "none"
  BY DEF UnblockFlags
<1>4. c \in Children => Info(c, flags) \in [process : Children, flags : UnblockFlags]
  BY DEF Info
<1>. QED BY <1>1, <1>2, <1>3, <1>4

\* The initial state satisfies the invariant.
LEMMA InitialState == Init => WaitInv
<1>. SUFFICES ASSUME Init PROVE WaitInv
  OBVIOUS
<1>1. StateOK
  BY DEF Init, StateOK
<1>2. m_processes = <<>> /\ Len(m_processes) = 0
  BY DEF Init
<1>3. IsList(m_processes) /\ Deaths(m_processes) = {}
  BY <1>2 DEF IsList, Deaths
<1>4. DeathsInv
  BY <1>3 DEF Init, DeathsInv
<1>5. SleepersInv
  BY DEF Init, SleepersInv
<1>. QED BY <1>1, <1>4, <1>5 DEF WaitInv

\* The invariant implies what it was made for.
LEMMA InvariantSuffices == WaitInv => ListIsSound /\ NoDeathOverlooked
<1>. SUFFICES ASSUME WaitInv PROVE ListIsSound /\ NoDeathOverlooked
  OBVIOUS
<1>1. IsList(m_processes)
  BY DEF WaitInv, DeathsInv
<1>2. \A c \in Children : Pending(c) <=> c \in Deaths(m_processes)
  BY <1>1, PendingIsInList
<1>3. TypeOK
  <2>1. m_processes \in SeqOf(Entries, Cardinality(Children))
    BY <1>1, ListFits
  <2>2. \A i, j \in 1..Len(m_processes) : m_processes[i].process = m_processes[j].process => i = j
    BY <1>1 DEF IsList
  <2>3. \A c \in Children : Pending(c) => phase[c] = "dead"
    BY <1>2 DEF WaitInv, DeathsInv
  <2>4. \A t \in Threads : pc[t] = "asleep" /\ m_result[t] = NoInfo => t \in m_blockers
    BY DEF WaitInv, SleepersInv
  <2>. QED BY <2>1, <2>2, <2>3, <2>4 DEF WaitInv, StateOK, TypeOK, Entries
<1>4. DeathIsPendingOrReaped
  BY <1>2 DEF WaitInv, DeathsInv, DeathIsPendingOrReaped
<1>5. NoDeathOverlooked
  <2>. SUFFICES ASSUME NEW t \in Threads, NEW c \in Children,
                       pc[t] = "asleep", Unblocks(t, c, "Terminated"), Pending(c)
                PROVE  FALSE
    BY DEF NoDeathOverlooked
  <2>1. m_result[t] = NoInfo BY DEF Unblocks
  <2>. QED BY <1>2, <2>1 DEF WaitInv, SleepersInv
<1>. QED BY <1>3, <1>4, <1>5 DEF ListIsSound

-----------------------------------------------------------------------------
(* Steps of the waiting threads *)

\* Thread t may take an entry: the list has lost at most the death it took.
Takes(t) ==
    /\ DeathsInv' /\ Deaths(m_processes') \subseteq Deaths(m_processes)
    /\ m_result' \in [Threads -> [process : Children, flags : UnblockFlags] \cup {NoInfo}]
    /\ \A u \in Threads : u # t => m_result'[u] = m_result[u]
    /\ m_result'[t] # m_result[t] =>
          /\ m_result[t] = NoInfo /\ m_result'[t] # NoInfo
          /\ m_result'[t].flags = "Terminated" => m_result'[t].process \notin reaped

\* Taking an entry consumes the death that it tells of, if it is one.
LEMMA TakeEntryStep ==
    ASSUME WaitInv, NEW t \in Threads, NEW ignore_waited, NEW i \in TakenBy(t, ignore_waited), NEW marks,
           TakeEntry(t, i, marks), UNCHANGED <<phase, owned>>
    PROVE  Takes(t) /\ m_result'[t] # NoInfo
<1>. DEFINE l == m_processes
            c == l[i].process
            flags == l[i].flags
<1>1. IsList(l) /\ i \in 1..Len(l) /\ m_result[t] = NoInfo
  BY DEF WaitInv, DeathsInv, TakenBy, Unblocks
<1>2. c \in Children /\ flags \in UnblockFlags
  BY <1>1, EntryFields
<1>3. /\ m_result' = [m_result EXCEPT ![t] = Info(c, flags)]
      /\ m_processes' = ListAfter(t, i, marks)
      /\ reaped' = ReapedAfter({t}, c, flags)
  BY DEF TakeEntry
<1>4. flags = "Terminated" => c \in Deaths(l)
  BY <1>1, <1>2 DEF Deaths
<1>5. ASSUME flags = "Terminated" /\ wait[t].is_wait
      PROVE  DeathsInv' /\ Deaths(m_processes') \subseteq Deaths(m_processes)
  <2>1. m_processes' = RemoveAt(l, i) /\ reaped' = reaped \cup {c}
    BY <1>3, <1>5 DEF ListAfter, ReapedAfter
  <2>2. IsList(RemoveAt(l, i)) /\ Deaths(RemoveAt(l, i)) = Deaths(l) \ {c}
    BY <1>1, <1>5, RemoveEntry
  <2>3. IsList(m_processes') /\ Deaths(m_processes') = Deaths(l) \ {c}
    BY <2>1, <2>2
  <2>. HIDE DEF l, c, flags
  <2>4. DeathsInv'
    BY <1>4, <1>5, <2>1, <2>3 DEF WaitInv, DeathsInv, l
  <2>. QED BY <2>3, <2>4 DEF l
<1>6. ASSUME ~(flags = "Terminated" /\ wait[t].is_wait)
      PROVE  DeathsInv' /\ Deaths(m_processes') \subseteq Deaths(m_processes)
  <2>1. reaped' = reaped
    BY <1>3, <1>6 DEF ReapedAfter
  <2>2. IsList(m_processes') /\ Deaths(m_processes') = Deaths(l)
    <3>1. CASE m_processes' = l
      BY <1>1, <3>1
    <3>2. CASE flags # "Terminated" /\ m_processes' = [l EXCEPT ![i] = Entry(c, flags, TRUE)]
      <4>. DEFINE r == [l EXCEPT ![i] = Entry(l[i].process, flags, TRUE)]
      <4>1. /\ IsList(r)
            /\ Deaths(r) = IF flags = "Terminated" THEN Deaths(l) \cup {l[i].process}
                                                   ELSE Deaths(l) \ {l[i].process}
        BY <1>1, <1>2, <3>2, ReplaceEntry
      <4>2. c \notin Deaths(l)
        BY <1>1, <3>2 DEF Deaths, IsList
      <4>. HIDE DEF l
      <4>. QED BY <3>2, <4>1, <4>2
    <3>. QED BY <1>3, <1>6, <3>1, <3>2 DEF ListAfter
  <2>. HIDE DEF l, c, flags
  <2>3. DeathsInv'
    BY <2>1, <2>2 DEF WaitInv, DeathsInv, l
  <2>. QED BY <2>2, <2>3 DEF l
<1>7. m_result \in [Threads -> [process : Children, flags : UnblockFlags] \cup {NoInfo}]
  BY DEF WaitInv, StateOK
<1>8. Info(c, flags) # NoInfo /\ Info(c, flags).process = c /\ Info(c, flags).flags = flags
  BY <1>2, InfoOf
<1>9. Info(c, flags) \in [process : Children, flags : UnblockFlags]
  BY <1>2, InfoOf
<1>10. flags = "Terminated" => c \notin reaped
  BY <1>4 DEF WaitInv, DeathsInv
<1>11. DeathsInv' /\ Deaths(m_processes') \subseteq Deaths(m_processes)
  BY <1>5, <1>6
<1>. HIDE DEF c, flags
<1>12. /\ m_result' \in [Threads -> [process : Children, flags : UnblockFlags] \cup {NoInfo}]
       /\ m_result'[t] = Info(c, flags) /\ \A u \in Threads : u # t => m_result'[u] = m_result[u]
  BY <1>3, <1>7, <1>9
<1>. QED BY <1>1, <1>8, <1>10, <1>11, <1>12 DEF Takes

\* So does looking at the list.
LEMMA TryUnblockStep ==
    ASSUME WaitInv, NEW t \in Threads, TryUnblock(t), UNCHANGED <<phase, owned>>
    PROVE  Takes(t)
<1>. DEFINE S == TakenBy(t, TRUE)
<1>1. CASE S # {}
  <2>1. S \in SUBSET Nat
    BY DEF TakenBy
  <2>2. First(S) \in S
    BY <1>1, <2>1, FirstIsOne
  <2>3. TakeEntry(t, First(S), TRUE)
    BY <1>1 DEF TryUnblock
  <2>. QED BY <2>2, <2>3, TakeEntryStep
<1>2. CASE S = {}
  <2>1. UNCHANGED <<m_result, m_processes, reaped>>
    BY <1>2 DEF TryUnblock
  <2>2. DeathsInv'
    BY <2>1 DEF WaitInv, DeathsInv
  <2>. QED BY <2>1, <2>2 DEF WaitInv, StateOK, Takes
<1>. QED BY <1>1, <1>2

\* A thread that still sleeps without a result has overlooked nothing new.
LEMMA SleepersKept ==
    ASSUME WaitInv, Deaths(m_processes') \subseteq Deaths(m_processes),
           \A u \in Threads : pc'[u] = "asleep" /\ m_result'[u] = NoInfo =>
               /\ pc[u] = "asleep" /\ m_result[u] = NoInfo /\ wait'[u] = wait[u]
               /\ u \in m_blockers => u \in m_blockers'
    PROVE  SleepersInv'
<1>. SUFFICES ASSUME NEW u \in Threads, pc'[u] = "asleep", m_result'[u] = NoInfo
              PROVE  u \in m_blockers' /\ \A c \in Deaths(m_processes') : ~Unblocks(u, c, "Terminated")'
  BY DEF SleepersInv
<1>1. /\ pc[u] = "asleep" /\ m_result[u] = NoInfo /\ wait'[u] = wait[u]
      /\ u \in m_blockers => u \in m_blockers'
  OBVIOUS
<1>2. u \in m_blockers /\ \A c \in Deaths(m_processes) : ~Unblocks(u, c, "Terminated")
  BY <1>1 DEF WaitInv, SleepersInv
<1>. QED BY <1>1, <1>2 DEF Unblocks

\* The call begins, or ends, or is interrupted: the list stays as it is.
LEMMA CallStep ==
    ASSUME WaitInv, NEW t \in Threads,
           Waitid(t) \/ Return(t) \/ \E sig \in {"SIGCHLD", "other"} : Interrupt(t, sig)
    PROVE  WaitInv'
<1>0. StateOK
  BY DEF WaitInv
<1>1. UNCHANGED <<phase, owned, m_processes, reaped>>
  BY DEF Waitid, Return, Interrupt
<1>2. DeathsInv'
  BY <1>1 DEF WaitInv, DeathsInv
<1>3. Deaths(m_processes') \subseteq Deaths(m_processes)
  BY <1>1
<1>4. CASE Waitid(t)
  <2>1. PICK w \in Waits : wait' = [wait EXCEPT ![t] = w]
    BY <1>4 DEF Waitid
  <2>2. pc[t] = "outside" /\ pc' = [pc EXCEPT ![t] = "calling"] /\ UNCHANGED <<m_blockers, m_result, signal>>
    BY <1>4 DEF Waitid
  <2>3. /\ pc'[t] = "calling" /\ \A u \in Threads : u # t => pc'[u] = pc[u] /\ wait'[u] = wait[u]
    BY <1>0, <2>1, <2>2 DEF StateOK
  <2>4. StateOK'
    BY <1>0, <1>1, <2>1, <2>2 DEF StateOK
  <2>5. SleepersInv'
    BY <1>3, <2>2, <2>3, SleepersKept
  <2>. QED BY <1>2, <2>4, <2>5 DEF WaitInv
<1>5. CASE Return(t)
  <2>1. /\ m_blockers' = m_blockers \ {t}
        /\ pc' = [pc EXCEPT ![t] = "outside"] /\ wait' = [wait EXCEPT ![t] = NoWait]
        /\ m_result' = [m_result EXCEPT ![t] = NoInfo] /\ signal' = [signal EXCEPT ![t] = None]
    BY <1>5 DEF Return
  <2>2. /\ pc'[t] = "outside"
        /\ \A u \in Threads : u # t => pc'[u] = pc[u] /\ wait'[u] = wait[u] /\ m_result'[u] = m_result[u]
    BY <1>0, <2>1 DEF StateOK
  <2>3. StateOK'
    BY <1>0, <1>1, <2>1 DEF StateOK
  <2>4. SleepersInv'
    BY <1>3, <2>1, <2>2, SleepersKept
  <2>. QED BY <1>2, <2>3, <2>4 DEF WaitInv
<1>6. ASSUME NEW sig \in {"SIGCHLD", "other"}, Interrupt(t, sig) PROVE WaitInv'
  <2>1. /\ pc[t] = "asleep" /\ m_result[t] = NoInfo /\ signal' = [signal EXCEPT ![t] = sig]
        /\ UNCHANGED <<m_blockers, pc, wait, m_result>>
    BY <1>6 DEF Interrupt
  <2>2. StateOK'
    BY <1>0, <1>1, <2>1 DEF StateOK
  <2>3. SleepersInv'
    BY <1>3, <2>1, SleepersKept
  <2>. QED BY <1>2, <2>2, <2>3 DEF WaitInv
<1>. QED BY <1>4, <1>5, <1>6

\* A thread that takes an entry, or looks at the list once more, goes on.
LEMMA TakesStep ==
    ASSUME WaitInv, NEW t \in Threads, Takes(t),
           NEW where \in {"returning", "interrupted"}, pc' = [pc EXCEPT ![t] = where],
           signal' \in [Threads -> {None, "SIGCHLD", "other"}],
           UNCHANGED <<phase, owned, m_blockers, wait>>
    PROVE  WaitInv'
<1>0. StateOK
  BY DEF WaitInv
<1>1. pc'[t] = where /\ \A u \in Threads : u # t => pc'[u] = pc[u]
  BY <1>0 DEF StateOK
<1>2. StateOK'
  BY <1>0 DEF StateOK, Takes
<1>3. SleepersInv'
  <2>1. Deaths(m_processes') \subseteq Deaths(m_processes)
    BY DEF Takes
  <2>2. \A u \in Threads : u # t => pc'[u] = pc[u] /\ m_result'[u] = m_result[u]
    BY <1>1 DEF Takes
  <2>. QED BY <1>1, <2>1, <2>2, SleepersKept
<1>. QED BY <1>2, <1>3 DEF WaitInv, Takes

\* WNOHANG.
LEMMA WaitNoHangStep ==
    ASSUME WaitInv, NEW t \in Threads, WaitNoHang(t)
    PROVE  WaitInv' /\ Takes(t)
<1>1. /\ pc[t] = "calling" /\ TryUnblock(t) /\ pc' = [pc EXCEPT ![t] = "returning"]
      /\ UNCHANGED <<phase, owned, m_blockers, wait, signal>>
  BY DEF WaitNoHang
<1>2. Takes(t)
  BY <1>1, TryUnblockStep
<1>3. signal \in [Threads -> {None, "SIGCHLD", "other"}]
  BY DEF WaitInv, StateOK
<1>. QED BY <1>1, <1>2, <1>3, TakesStep

\* Going to sleep, after a look at the list that found nothing.
LEMMA BlockStep ==
    ASSUME WaitInv, NEW t \in Threads, Block(t)
    PROVE  WaitInv' /\ Takes(t)
<1>0. StateOK
  BY DEF WaitInv
<1>1. /\ pc[t] = "calling"
      /\ UNCHANGED <<phase, owned, wait, signal>>
  BY DEF Block
<1>2. CASE Matches(t) # {}
  <2>1. /\ TakeEntry(t, First(Matches(t)), FALSE) /\ pc' = [pc EXCEPT ![t] = "returning"]
        /\ UNCHANGED m_blockers
    BY <1>2 DEF Block
  <2>2. Matches(t) \in SUBSET Nat
    BY DEF Matches, TakenBy
  <2>3. First(Matches(t)) \in TakenBy(t, FALSE)
    BY <1>2, <2>2, FirstIsOne DEF Matches
  <2>4. Takes(t)
    BY <1>1, <2>1, <2>3, TakeEntryStep
  <2>. QED BY <1>0, <1>1, <2>1, <2>4, TakesStep DEF StateOK
<1>3. CASE Matches(t) = {}
  <2>1. /\ m_blockers' = m_blockers \cup {t} /\ pc' = [pc EXCEPT ![t] = "asleep"]
        /\ UNCHANGED <<m_result, m_processes, reaped>>
    BY <1>3 DEF Block
  <2>2. pc'[t] = "asleep" /\ \A u \in Threads : u # t => pc'[u] = pc[u]
    BY <1>0, <2>1 DEF StateOK
  <2>3. StateOK'
    BY <1>0, <1>1, <2>1 DEF StateOK
  <2>4. DeathsInv'
    BY <1>1, <2>1 DEF WaitInv, DeathsInv
  <2>5. \A c \in Deaths(m_processes) : ~Unblocks(t, c, "Terminated")
    BY <1>3 DEF Matches, TakenBy, Deaths
  <2>6. SleepersInv'
    <3>1. ASSUME NEW u \in Threads, pc'[u] = "asleep", m_result'[u] = NoInfo
          PROVE  u \in m_blockers' /\ \A c \in Deaths(m_processes') : ~Unblocks(u, c, "Terminated")'
      <4>1. \A c : Unblocks(u, c, "Terminated")' <=> Unblocks(u, c, "Terminated")
        BY <1>1, <2>1 DEF Unblocks
      <4>2. CASE u = t
        BY <2>1, <2>5, <4>1, <4>2
      <4>3. CASE u # t
        BY <2>1, <2>2, <3>1, <4>1, <4>3 DEF WaitInv, SleepersInv
      <4>. QED BY <4>2, <4>3
    <3>. QED BY <3>1 DEF SleepersInv
  <2>7. Takes(t)
    BY <1>0, <2>1, <2>4 DEF StateOK, Takes
  <2>. QED BY <2>3, <2>4, <2>6, <2>7 DEF WaitInv
<1>. QED BY <1>2, <1>3

\* Waking up.
LEMMA EndBlockingStep ==
    ASSUME WaitInv, NEW t \in Threads, EndBlocking(t)
    PROVE  WaitInv' /\ Takes(t)
<1>0. StateOK
  BY DEF WaitInv
<1>1. /\ TryUnblock(t)
      /\ signal' = [signal EXCEPT ![t] = SignalAfter(t, m_result[t] = NoInfo /\ m_result'[t] # NoInfo)]
      /\ pc' = [pc EXCEPT ![t] = IF signal'[t] = None THEN "returning" ELSE "interrupted"]
      /\ UNCHANGED <<phase, owned, m_blockers, wait>>
  BY DEF EndBlocking
<1>2. Takes(t)
  BY <1>1, TryUnblockStep
<1>3. SignalAfter(t, m_result[t] = NoInfo /\ m_result'[t] # NoInfo) \in {signal[t], None}
  BY DEF SignalAfter
<1>4. signal' \in [Threads -> {None, "SIGCHLD", "other"}]
  BY <1>0, <1>1, <1>3 DEF StateOK
<1>5. PICK where \in {"returning", "interrupted"} :
          where = IF signal'[t] = None THEN "returning" ELSE "interrupted"
  OBVIOUS
<1>6. pc' = [pc EXCEPT ![t] = where]
  BY <1>1, <1>5
<1>. QED BY <1>1, <1>2, <1>4, <1>6, TakesStep

-----------------------------------------------------------------------------
(* Steps of the children *)

\* What a step may do to the results: the body of ReapedForGood.
ResultsAreNew ==
    \A t \in Threads : m_result'[t] # m_result[t] /\ m_result'[t] # NoInfo =>
        /\ m_result[t] = NoInfo
        /\ m_result'[t].flags = "Terminated" => m_result'[t].process \notin reaped

\* A child changes its state: a death goes into the list or is consumed.
LEMMA UnblockStep ==
    ASSUME WaitInv, NEW c \in Children, NEW flags \in UnblockFlags, Unblock(c, flags),
           phase[c] # "dead", phase' \in [Children -> {"running", "stopped", "dead"}],
           phase'[c] = "dead" <=> flags = "Terminated",
           \A d \in Children : d # c => phase'[d] = phase[d],
           UNCHANGED <<owned, pc, wait>>
    PROVE  WaitInv' /\ ResultsAreNew
<1>. DEFINE told     == Told(c, flags)
            did_wait == \E t \in told : wait[t].is_wait
<1>0. /\ StateOK /\ IsList(m_processes)
      /\ c \notin reaped /\ c \notin Deaths(m_processes)
  BY DEF WaitInv, DeathsInv
<1>1. /\ m_result' = [t \in Threads |-> IF t \in told THEN Info(c, flags) ELSE m_result[t]]
      /\ signal' = [t \in Threads |-> SignalAfter(t, t \in told)]
      /\ m_blockers' = m_blockers \ told
      /\ m_processes' = IF Remembered(flags, told) THEN Update(c, flags, did_wait) ELSE m_processes
      /\ reaped' = ReapedAfter(told, c, flags)
  BY DEF Unblock
<1>2. \A t \in told : m_result[t] = NoInfo
  BY DEF Told, Unblocks
<1>3. /\ Info(c, flags) # NoInfo /\ Info(c, flags).process = c
      /\ Info(c, flags) \in [process : Children, flags : UnblockFlags]
  BY InfoOf
<1>4. /\ IsList(m_processes')
      /\ Deaths(m_processes') = IF flags = "Terminated" /\ ~did_wait THEN Deaths(m_processes) \cup {c}
                                                                     ELSE Deaths(m_processes)
      /\ reaped' = IF flags = "Terminated" /\ did_wait THEN reaped \cup {c} ELSE reaped
  <2>1. reaped' = IF flags = "Terminated" /\ did_wait THEN reaped \cup {c} ELSE reaped
    BY <1>1 DEF ReapedAfter
  <2>2. Remembered(flags, told) <=> ~(flags = "Terminated" /\ did_wait)
    BY DEF Remembered
  <2>3. CASE flags = "Terminated" /\ did_wait
    BY <1>0, <1>1, <2>1, <2>2, <2>3
  <2>4. CASE ~(flags = "Terminated" /\ did_wait)
    <3>1. m_processes' = Update(c, flags, did_wait)
      BY <1>1, <2>2, <2>4
    <3>2. did_wait \in BOOLEAN /\ (flags = "Terminated" => did_wait = FALSE)
      BY <2>4
    <3>. HIDE DEF did_wait
    <3>3. IsList(Update(c, flags, did_wait))
      BY <1>0, <3>2, UpdateList
    <3>4. Deaths(Update(c, flags, did_wait)) =
              IF flags = "Terminated" THEN Deaths(m_processes) \cup {c} ELSE Deaths(m_processes) \ {c}
      BY <1>0, <3>2, UpdateList
    <3>5. Deaths(m_processes) \ {c} = Deaths(m_processes)
      BY <1>0
    <3>. QED BY <2>1, <2>4, <3>1, <3>3, <3>4, <3>5
  <2>. QED BY <2>3, <2>4
<1>. HIDE DEF did_wait, told
<1>5. DeathsInv'
  <2>1. \A d \in Deaths(m_processes') : phase'[d] = "dead" /\ d \notin reaped'
    BY <1>0, <1>4 DEF WaitInv, DeathsInv, Deaths
  <2>2. \A d \in Children : phase'[d] = "dead" /\ d \in owned /\ d \notin reaped' => d \in Deaths(m_processes')
    BY <1>4 DEF WaitInv, DeathsInv
  <2>3. \A d \in Children : d \in reaped' => phase'[d] = "dead"
    BY <1>0, <1>4 DEF WaitInv, DeathsInv
  <2>. QED BY <1>4, <2>1, <2>2, <2>3 DEF DeathsInv
<1>6. StateOK'
  <2>1. m_result' \in [Threads -> [process : Children, flags : UnblockFlags] \cup {NoInfo}]
    BY <1>0, <1>1, <1>3 DEF StateOK
  <2>2. \A t \in Threads : SignalAfter(t, t \in told) \in {signal[t], None}
    BY DEF SignalAfter
  <2>3. signal' \in [Threads -> {None, "SIGCHLD", "other"}]
    BY <1>0, <1>1, <2>2 DEF StateOK
  <2>. QED BY <1>0, <2>1, <2>3 DEF StateOK
<1>7. SleepersInv'
  <2>. SUFFICES ASSUME NEW u \in Threads, pc'[u] = "asleep", m_result'[u] = NoInfo
                PROVE  u \in m_blockers' /\ \A d \in Deaths(m_processes') : ~Unblocks(u, d, "Terminated")'
    BY DEF SleepersInv
  <2>1. u \notin told /\ m_result[u] = NoInfo
    BY <1>1, <1>3
  <2>2. u \in m_blockers /\ \A d \in Deaths(m_processes) : ~Unblocks(u, d, "Terminated")
    BY <2>1 DEF WaitInv, SleepersInv
  <2>3. \A d : Unblocks(u, d, "Terminated")' <=> Unblocks(u, d, "Terminated")
    BY <2>1 DEF Unblocks
  <2>4. flags = "Terminated" => ~Unblocks(u, c, "Terminated")
    BY <2>1, <2>2 DEF told, Told, WasWaitedAlready
  <2>. QED BY <1>1, <1>4, <2>1, <2>2, <2>3, <2>4
<1>8. ResultsAreNew
  BY <1>0, <1>1, <1>2, <1>3 DEF ResultsAreNew
<1>. QED BY <1>5, <1>6, <1>7, <1>8 DEF WaitInv

\* The three changes of state, told to the parent if there is one.
LEMMA BecomeStep ==
    ASSUME WaitInv, NEW c \in Children, Stop(c) \/ Continue(c) \/ Finalize(c)
    PROVE  WaitInv' /\ ResultsAreNew
<1>0. StateOK
  BY DEF WaitInv
<1>1. PICK from \in {"running", "stopped"}, to \in {"running", "stopped", "dead"}, flags \in UnblockFlags :
          Become(c, from, to, flags) /\ (to = "dead" <=> flags = "Terminated")
  <2>1. "running" \in {"running", "stopped"} /\ "stopped" \in {"running", "stopped"} OBVIOUS
  <2>2. \A f \in {"Terminated", "Stopped", "Continued"} : f \in UnblockFlags BY DEF UnblockFlags
  <2>. QED BY <2>1, <2>2 DEF Stop, Continue, Finalize
<1>2. /\ phase[c] = from /\ phase' = [phase EXCEPT ![c] = to] /\ UnblockWaiters(c, flags)
      /\ UNCHANGED <<owned, pc, wait>>
  BY <1>1 DEF Become
<1>3. /\ phase[c] # "dead" /\ phase' \in [Children -> {"running", "stopped", "dead"}]
      /\ phase'[c] = "dead" <=> flags = "Terminated"
      /\ \A d \in Children : d # c => phase'[d] = phase[d]
  <2>1. phase[c] # "dead" BY <1>2
  <2>2. phase' \in [Children -> {"running", "stopped", "dead"}] BY <1>0, <1>2 DEF StateOK
  <2>3. phase'[c] = to /\ \A d \in Children : d # c => phase'[d] = phase[d]
    BY <1>0, <1>2 DEF StateOK
  <2>. QED BY <1>1, <2>1, <2>2, <2>3
<1>4. CASE c \in owned
  BY <1>2, <1>3, <1>4, UnblockStep DEF UnblockWaiters
<1>5. CASE c \notin owned
  <2>1. UNCHANGED <<m_result, signal, m_blockers, m_processes, reaped>>
    BY <1>2, <1>5 DEF UnblockWaiters
  <2>2. c \notin Deaths(m_processes) /\ c \notin reaped
    BY <1>3 DEF WaitInv, DeathsInv
  <2>3. \A d \in Deaths(m_processes) : d \in Children
    BY DEF Deaths
  <2>4. DeathsInv'
    BY <1>2, <1>3, <1>5, <2>1, <2>2, <2>3 DEF WaitInv, DeathsInv
  <2>5. SleepersInv'
    BY <1>2, <2>1, SleepersKept
  <2>6. StateOK'
    BY <1>0, <1>2, <1>3, <2>1 DEF StateOK
  <2>7. ResultsAreNew
    BY <2>1 DEF ResultsAreNew
  <2>. QED BY <2>4, <2>5, <2>6, <2>7 DEF WaitInv
<1>. QED BY <1>4, <1>5

\* A child that is disowned is not the parent's to reap any more.
LEMMA DisownStep ==
    ASSUME WaitInv, NEW c \in Children, Disown(c)
    PROVE  WaitInv'
<1>1. /\ owned' = owned \ {c}
      /\ UNCHANGED <<phase, m_processes, m_blockers, pc, wait, m_result, signal, reaped>>
  BY DEF Disown
<1>2. StateOK'
  BY <1>1 DEF WaitInv, StateOK
<1>3. DeathsInv'
  BY <1>1 DEF WaitInv, DeathsInv
<1>4. SleepersInv'
  BY <1>1, SleepersKept
<1>. QED BY <1>2, <1>3, <1>4 DEF WaitInv

-----------------------------------------------------------------------------
\* Every step keeps the invariant, and replaces and repeats no result.
LEMMA NextStep ==
    ASSUME WaitInv, [Next]_vars
    PROVE  WaitInv' /\ ResultsAreNew
<1>1. CASE UNCHANGED vars
  <2>1. UNCHANGED <<phase, owned, m_processes, m_blockers, pc, wait, m_result, signal, reaped>>
    BY <1>1 DEF vars
  <2>2. StateOK' /\ DeathsInv' /\ ResultsAreNew
    BY <2>1 DEF WaitInv, StateOK, DeathsInv, ResultsAreNew
  <2>3. SleepersInv'
    BY <2>1, SleepersKept
  <2>. QED BY <2>2, <2>3 DEF WaitInv
<1>2. ASSUME NEW t \in Threads, Takes(t) PROVE ResultsAreNew
  BY <1>2 DEF Takes, ResultsAreNew
<1>3. ASSUME NEW t \in Threads,
             Waitid(t) \/ Return(t) \/ \E sig \in {"SIGCHLD", "other"} : Interrupt(t, sig)
      PROVE  WaitInv' /\ ResultsAreNew
  <2>1. m_result \in [Threads -> [process : Children, flags : UnblockFlags] \cup {NoInfo}]
    BY DEF WaitInv, StateOK
  <2>2. m_result' = m_result \/ m_result' = [m_result EXCEPT ![t] = NoInfo]
    BY <1>3 DEF Waitid, Return, Interrupt
  <2>3. ResultsAreNew
    BY <2>1, <2>2 DEF ResultsAreNew
  <2>. QED BY <1>3, <2>3, CallStep
<1>4. ASSUME NEW t \in Threads, WaitNoHang(t) \/ Block(t) \/ EndBlocking(t) PROVE WaitInv' /\ ResultsAreNew
  BY <1>2, <1>4, WaitNoHangStep, BlockStep, EndBlockingStep
<1>5. ASSUME NEW c \in Children, Disown(c) PROVE WaitInv' /\ ResultsAreNew
  BY <1>5, DisownStep DEF Disown, ResultsAreNew
<1>6. CASE Next
  <2>1. \/ \E t \in Threads : \/ Waitid(t) \/ WaitNoHang(t) \/ Block(t) \/ EndBlocking(t) \/ Return(t)
                              \/ \E s \in {"SIGCHLD", "other"} : Interrupt(t, s)
        \/ \E c \in Children : Stop(c) \/ Continue(c) \/ Finalize(c) \/ Disown(c)
    BY <1>6 DEF Next, Steps
  <2>. QED BY <1>3, <1>4, <1>5, <2>1, BecomeStep
<1>. QED BY <1>1, <1>6

\* The invariant holds in every reachable state.
THEOREM WaitInvHolds == Spec => []WaitInv
<1>1. WaitInv /\ [Next]_vars => WaitInv'
  BY NextStep
<1>. QED BY <1>1, InitialState, PTL DEF Spec

\* The list of the parent has one entry for a child at most, and a zombie is
\* in it exactly until a wait without WNOWAIT takes it.
THEOREM ListIsSoundHolds == Spec => []ListIsSound
  BY WaitInvHolds, InvariantSuffices, PTL

\* No thread sleeps while a death that it waits for is in the list.
THEOREM NoDeathOverlookedHolds == Spec => []NoDeathOverlooked
  BY WaitInvHolds, InvariantSuffices, PTL

\* No wait reports a death that another wait has consumed, also when the child
\* was disowned in between, and no result is replaced before its wait returns.
THEOREM ReapedForGoodHolds == Spec => ReapedForGood
<1>1. WaitInv /\ [Next]_vars => [ResultsAreNew]_vars
  BY NextStep
<1>2. [ResultsAreNew]_vars =>
        [\A t \in Threads : m_result'[t] # m_result[t] /\ m_result'[t] # NoInfo =>
            /\ m_result[t] = NoInfo
            /\ m_result'[t].flags = "Terminated" => m_result'[t].process \notin reaped]_vars
  BY DEF ResultsAreNew
<1>. QED BY <1>1, <1>2, WaitInvHolds, PTL DEF Spec, ReapedForGood
=============================================================================
