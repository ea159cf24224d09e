----------------------------- MODULE MutexProofs -----------------------------
(***************************************************************************)
(* Proofs about Mutex for any finite set of threads, any recursion depth   *)
(* and both behaviours.                                                    *)
(***************************************************************************)
EXTENDS Mutex, ListTheorems, FiniteSetTheorems, TLAPS

\* The mode says who may be among the holders.
ModeMatchesClaims ==
    /\ m_mode = "Unlocked" <=> holding = {}
    /\ m_mode = "Exclusive" => /\ m_holder \in Threads
                               /\ \A c \in holding : c[1] = m_holder
    /\ m_mode # "Exclusive" => m_holder = NoThread
    /\ m_mode = "Shared" => \A c \in holding : c[3] = "Shared"

\* What a waiting thread asked for is its own, and fits the list it is on.
RequestsFitLists ==
    /\ blocking \subseteq Waiters
    /\ \A t \in Waiters : requested[t] # {}
    /\ \A t \in Threads : \A c \in requested[t] : c[1] = t
    /\ \A t \in shared : \A c \in requested[t] : c[3] = "Shared"
    /\ \A t \in blocking : requested[t] \cap holding = {}

\* A thread that dropped the big lock holds nothing and waits for nothing.
DroppedIsApart ==
    \A t \in Threads :
        /\ \A c \in dropped[t] : c[1] = t
        /\ dropped[t] # {} => t \notin Waiters /\ ClaimsOf(t) = {}

\* A thread that was handed the mutex in its sleep owns it.
GrantedOwns ==
    \A t \in Waiters \ blocking :
        /\ requested[t] \subseteq holding
        /\ t \in shared => m_mode = "Shared"
        /\ t \in Range(exclusive) => m_mode = "Exclusive" /\ m_holder = t

IndInv ==
    /\ TypeOK
    /\ ModeMatchesClaims
    /\ CountsTheClaims
    /\ OnOneList
    /\ RequestsFitLists
    /\ DroppedIsApart
    /\ GrantedOwns
    /\ m_mode = "Unlocked" => Waiters = {}

-----------------------------------------------------------------------------
(* Finite sets *)

\* Every set of claims is finite.
LEMMA ClaimsFinite ==
    \A C \in SUBSET Claims : IsFiniteSet(C) /\ Cardinality(C) \in Nat
<1>1. IsFiniteSet({"Exclusive"}) /\ Modes = {"Exclusive"} \cup {"Shared"}
  BY FS_Singleton DEF Modes
<1>2. IsFiniteSet(Modes)
  BY <1>1, FS_AddElement
<1>3. IsFiniteSet((Threads \X Locations) \X Modes)
  BY <1>2, FS_Product, MutexAssumption
<1>4. IsFiniteSet(Claims)
  <2>. DEFINE f == [x \in (Threads \X Locations) \X Modes |-> <<x[1][1], x[1][2], x[2]>>]
  <2>1. f \in Surjection((Threads \X Locations) \X Modes, Claims)
    <3>1. f \in [(Threads \X Locations) \X Modes -> Claims]
      BY DEF Claims
    <3>2. ASSUME NEW c \in Claims
          PROVE  \E x \in (Threads \X Locations) \X Modes : f[x] = c
      <4>1. <<<<c[1], c[2]>>, c[3]>> \in (Threads \X Locations) \X Modes
        BY DEF Claims
      <4>2. f[<<<<c[1], c[2]>>, c[3]>>] = c
        BY <4>1 DEF Claims
      <4>. QED BY <4>1, <4>2
    <3>. QED BY <3>1, <3>2 DEF Surjection
  <2>. QED BY <1>3, <2>1, FS_Surjection
<1>. QED BY <1>4, FS_Subset, FS_CardinalityType

\* Cardinalities of the sets of claims the counters are compared with.
LEMMA ClaimCounts ==
    ASSUME NEW C \in SUBSET Claims
    PROVE  /\ Cardinality(C) \in Nat
           /\ Cardinality(C) = 0 <=> C = {}
           /\ \A c \in C : Cardinality(C \ {c}) = Cardinality(C) - 1
           /\ \A c \in Claims \ C : Cardinality(C \cup {c}) = Cardinality(C) + 1
           /\ \A c \in C : Cardinality(C) = 1 => C = {c}
           /\ \A D \in SUBSET Claims :
                 C \cap D = {} => Cardinality(C \cup D) = Cardinality(C) + Cardinality(D)
<1>1. IsFiniteSet(C) /\ Cardinality(C) \in Nat
  BY ClaimsFinite
<1>2. Cardinality(C) = 0 <=> C = {}
  BY <1>1, FS_EmptySet
<1>3. \A c \in C : Cardinality(C \ {c}) = Cardinality(C) - 1
  BY <1>1, FS_RemoveElement
<1>4. \A c \in Claims \ C : Cardinality(C \cup {c}) = Cardinality(C) + 1
  BY <1>1, FS_AddElement
<1>5. ASSUME NEW c \in C, Cardinality(C) = 1 PROVE C = {c}
  <2>1. Cardinality(C \ {c}) = 0 BY <1>3, <1>5
  <2>2. IsFiniteSet(C \ {c}) BY <1>1, FS_Subset
  <2>3. C \ {c} = {} BY <2>1, <2>2, FS_EmptySet
  <2>. QED BY <2>3
<1>6. ASSUME NEW D \in SUBSET Claims, C \cap D = {}
      PROVE  Cardinality(C \cup D) = Cardinality(C) + Cardinality(D)
  <2>1. IsFiniteSet(D) /\ Cardinality(D) \in Nat BY ClaimsFinite
  <2>2. Cardinality({}) = 0 BY FS_EmptySet
  <2>3. Cardinality(C \cup D) = Cardinality(C) + Cardinality(D) - Cardinality(C \cap D)
    BY <1>1, <2>1, FS_Union
  <2>4. Cardinality(C \cap D) = 0 BY <1>6, <2>2
  <2>. QED BY <1>1, <2>1, <2>3, <2>4
<1>. QED BY <1>1, <1>2, <1>3, <1>4, <1>5, <1>6

-----------------------------------------------------------------------------
(* One lemma per kind of step *)

\* The mutex starts free, with nobody waiting.
LEMMA InitInv == Init => IndInv
<1>. SUFFICES ASSUME Init PROVE IndInv OBVIOUS
<1>. USE DEF Init
<1>1. Range(exclusive) = {} /\ Waiters = {}
  BY DEF Range, Waiters
<1>2. TypeOK
  BY DEF TypeOK
<1>3. CountsTheClaims
  BY FS_EmptySet DEF CountsTheClaims
<1>. QED
  BY <1>1, <1>2, <1>3 DEF IndInv, ModeMatchesClaims, OnOneList, RequestsFitLists,
     DroppedIsApart, GrantedOwns, ClaimsOf

\* A lock() call that succeeds at once adds one claim and touches no list.
LEMMA AcquireInv ==
    ASSUME IndInv, NEW t \in Threads, NEW l \in Locations, NEW mode \in Modes,
           \/ LockUnlocked(t, l, mode)
           \/ LockExclusive(t, l, mode)
           \/ LockShared(t, l, mode)
    PROVE  IndInv'
<1>. DEFINE c == <<t, l, mode>>
<1>1. /\ c \in Claims \ holding /\ c[1] = t /\ c[3] = mode
      /\ t \notin Waiters /\ dropped[t] = {}
      /\ holding' = holding \cup {c}
      /\ m_times_locked' = m_times_locked + 1
      /\ UNCHANGED <<exclusive, shared, blocking, requested, dropped>>
  BY DEF LockUnlocked, LockExclusive, LockShared, Calls, Running, Claims, ClaimsOf, lists
<1>2. m_mode' # "Unlocked" /\ m_mode' \in Modes
  BY DEF LockUnlocked, LockExclusive, LockShared, Modes
<1>. HIDE DEF c
<1>3. Waiters' = Waiters /\ Range(exclusive)' = Range(exclusive)
  BY <1>1 DEF Waiters
<1>4. TypeOK'
  BY <1>1, <1>2 DEF IndInv, TypeOK, LockUnlocked, LockExclusive, LockShared
<1>5. ModeMatchesClaims'
  BY <1>1, <1>2 DEF IndInv, TypeOK, ModeMatchesClaims, LockUnlocked, LockExclusive, LockShared, Modes
<1>6. CountsTheClaims'
  <2>1. Cardinality(holding') = Cardinality(holding) + 1 /\ Cardinality(holding) \in Nat
    BY <1>1, ClaimCounts DEF IndInv, TypeOK
  <2>2. m_mode = "Unlocked" => Cardinality(holding) = 0
    BY FS_EmptySet DEF IndInv, ModeMatchesClaims
  <2>. QED
    BY <2>1, <2>2, <1>1 DEF IndInv, TypeOK, CountsTheClaims, LockUnlocked, LockExclusive, LockShared, Modes
<1>7. OnOneList' /\ RequestsFitLists'
  BY <1>1, <1>3 DEF IndInv, TypeOK, OnOneList, RequestsFitLists
<1>8. DroppedIsApart'
  BY <1>1, <1>3 DEF IndInv, TypeOK, DroppedIsApart, ClaimsOf
<1>9. GrantedOwns'
  BY <1>1, <1>3 DEF IndInv, GrantedOwns, LockUnlocked, LockExclusive, LockShared
<1>. QED
  BY <1>2, <1>4, <1>5, <1>6, <1>7, <1>8, <1>9 DEF IndInv

\* A thread that goes to sleep asks for claims of its own that it does not hold.
LEMMA BlockInv ==
    ASSUME IndInv, NEW t \in Threads, NEW mode \in Modes, NEW claims \in SUBSET Claims,
           Block(t, mode, claims),
           m_mode # "Unlocked", t \notin Waiters,
           claims # {}, claims \cap holding = {},
           \A c \in claims : c[1] = t,
           mode = "Shared" => \A c \in claims : c[3] = "Shared",
           \/ UNCHANGED dropped /\ dropped[t] = {}
           \/ dropped' = [dropped EXCEPT ![t] = {}]
    PROVE  IndInv'
<1>1. UNCHANGED <<m_mode, m_times_locked, m_holder, m_shared_holders, holding>>
  BY DEF Block, counters
<1>2. /\ exclusive' \in Seq(Threads)
      /\ Range(exclusive') = IF mode = "Exclusive" THEN Range(exclusive) \cup {t} ELSE Range(exclusive)
      /\ IsInjective(exclusive')
  <2>1. exclusive \in Seq(Threads) /\ IsInjective(exclusive) /\ t \notin Range(exclusive)
    BY DEF IndInv, TypeOK, OnOneList, IsInjective, Waiters
  <2>2. /\ Append(exclusive, t) \in Seq(Threads)
        /\ Range(Append(exclusive, t)) = Range(exclusive) \cup {t}
        /\ IsInjective(Append(exclusive, t))
    BY <2>1, ListAppend
  <2>. QED BY <2>1, <2>2 DEF Block
<1>3. /\ shared' = IF mode = "Shared" THEN shared \cup {t} ELSE shared
      /\ blocking' = blocking \cup {t}
      /\ requested' = [requested EXCEPT ![t] = claims]
  BY DEF Block
<1>4. Waiters' = Waiters \cup {t}
  BY <1>2, <1>3 DEF Waiters, Modes
<1>5. dropped' \in [Threads -> SUBSET Claims] /\ dropped'[t] = {}
      /\ \A u \in Threads \ {t} : dropped'[u] = dropped[u]
  BY DEF IndInv, TypeOK
<1>6. requested' \in [Threads -> SUBSET Claims] /\ requested'[t] = claims
      /\ \A u \in Threads \ {t} : requested'[u] = requested[u]
  BY <1>3 DEF IndInv, TypeOK
<1>7. TypeOK'
  BY <1>1, <1>2, <1>3, <1>5, <1>6 DEF IndInv, TypeOK
<1>8. ModeMatchesClaims' /\ CountsTheClaims'
  BY <1>1 DEF IndInv, ModeMatchesClaims, CountsTheClaims
<1>9. OnOneList'
  BY <1>2, <1>3 DEF IndInv, OnOneList, IsInjective, Waiters
<1>10. Waiters \subseteq Threads
  BY DEF IndInv, TypeOK, Waiters, Range
<1>11. RequestsFitLists'
  <2>1. blocking' \subseteq Waiters' /\ \A u \in Waiters' : requested'[u] # {}
    BY <1>3, <1>4, <1>6, <1>10 DEF IndInv, RequestsFitLists
  <2>2. \A u \in Threads : \A c \in requested'[u] : c[1] = u
    BY <1>6 DEF IndInv, RequestsFitLists
  <2>3. \A u \in shared' : \A c \in requested'[u] : c[3] = "Shared"
    BY <1>3, <1>6 DEF IndInv, TypeOK, RequestsFitLists, Waiters
  <2>4. \A u \in blocking' : requested'[u] \cap holding' = {}
    BY <1>1, <1>3, <1>6 DEF IndInv, TypeOK, RequestsFitLists
  <2>. QED BY <2>1, <2>2, <2>3, <2>4, Zenon DEF RequestsFitLists
<1>12. DroppedIsApart'
  BY <1>1, <1>4, <1>5 DEF IndInv, DroppedIsApart, ClaimsOf
<1>13. GrantedOwns'
  BY <1>1, <1>2, <1>3, <1>4, <1>6, <1>10 DEF IndInv, GrantedOwns, Waiters
<1>. QED
  BY <1>1, <1>7, <1>8, <1>9, <1>11, <1>12, <1>13 DEF IndInv

\* A thread that was handed the mutex leaves its list.
LEMMA ReturnInv ==
    ASSUME IndInv, NEW t \in Threads, ReturnFromBlock(t)
    PROVE  IndInv'
<1>1. UNCHANGED <<m_mode, m_times_locked, m_holder, m_shared_holders, blocking, holding, dropped>>
  BY DEF ReturnFromBlock, counters
<1>2. /\ exclusive' \in Seq(Threads) /\ IsInjective(exclusive')
      /\ shared' \subseteq Threads
      /\ Range(exclusive') \subseteq Range(exclusive) /\ shared' \subseteq shared
      /\ Waiters' = Waiters \ {t}
  <2>1. CASE t \in shared /\ shared' = shared \ {t} /\ UNCHANGED exclusive
    BY <2>1 DEF IndInv, TypeOK, OnOneList, IsInjective, Waiters
  <2>2. CASE /\ \E i \in DOMAIN exclusive :
                   exclusive[i] = t /\ exclusive' = RemoveAt(exclusive, i)
             /\ UNCHANGED shared
    <3>1. PICK i \in DOMAIN exclusive : exclusive[i] = t /\ exclusive' = RemoveAt(exclusive, i)
      BY <2>2
    <3>2. /\ exclusive' \in Seq(Threads) /\ IsInjective(exclusive')
          /\ Range(exclusive') = Range(exclusive) \ {t}
      BY <3>1, ListRemove DEF IndInv, TypeOK, OnOneList, IsInjective
    <3>3. t \in Range(exclusive)
      BY <3>1 DEF Range
    <3>. QED BY <2>2, <3>2, <3>3 DEF IndInv, TypeOK, OnOneList, Waiters
  <2>. QED BY <2>1, <2>2 DEF ReturnFromBlock
<1>3. /\ t \notin blocking
      /\ requested' \in [Threads -> SUBSET Claims] /\ requested'[t] = {}
      /\ \A u \in Threads \ {t} : requested'[u] = requested[u]
  BY DEF ReturnFromBlock, IndInv, TypeOK
<1>4. TypeOK'
  BY <1>1, <1>2, <1>3 DEF IndInv, TypeOK
<1>5. ModeMatchesClaims' /\ CountsTheClaims'
  BY <1>1 DEF IndInv, ModeMatchesClaims, CountsTheClaims
<1>6. OnOneList'
  BY <1>2 DEF IndInv, OnOneList, IsInjective
<1>7. Waiters \subseteq Threads
  BY DEF IndInv, TypeOK, Waiters, Range
<1>8. RequestsFitLists'
  BY <1>1, <1>2, <1>3, <1>7 DEF IndInv, TypeOK, RequestsFitLists
<1>9. DroppedIsApart'
  BY <1>1, <1>2 DEF IndInv, DroppedIsApart, ClaimsOf
<1>10. GrantedOwns'
  BY <1>1, <1>2, <1>3, <1>7 DEF IndInv, GrantedOwns
<1>. QED
  BY <1>1, <1>2, <1>4, <1>5, <1>6, <1>8, <1>9, <1>10 DEF IndInv

\* When the claims that hold the mutex are of running threads, nobody on the
\* lists has been handed the mutex yet.
LEMMA NobodyGranted ==
    ASSUME IndInv, \A c \in holding : c[1] \notin Waiters
    PROVE  Waiters \subseteq Threads /\ blocking = Waiters
<1>1. Waiters \subseteq Threads BY DEF IndInv, TypeOK, Waiters, Range
<1>2. ASSUME NEW t \in Waiters \ blocking PROVE FALSE
  <2>1. PICK c \in requested[t] : c \in holding
    BY <1>2 DEF IndInv, GrantedOwns, RequestsFitLists
  <2>2. c[1] = t BY <1>1, <2>1 DEF IndInv, RequestsFitLists
  <2>. QED BY <2>1, <2>2
<1>. QED BY <1>1, <1>2 DEF IndInv, RequestsFitLists

\* What a hand-over does: afterwards the mutex belongs to waiters only.
LEMMA UnblockInv ==
    ASSUME IndInv, NEW previous, NEW released,
           UnblockWaiters(previous, released),
           holding \subseteq released,
           \A c \in holding : c[1] \notin Waiters,
           dropped' \in [Threads -> SUBSET Claims],
           \A t \in Threads : \A c \in dropped'[t] : c[1] = t,
           \A t \in Threads : dropped'[t] # {} => t \notin Waiters
    PROVE  IndInv'
<1>1. /\ UNCHANGED <<exclusive, shared, requested>>
      /\ Waiters' = Waiters /\ Range(exclusive)' = Range(exclusive)
  BY DEF UnblockWaiters, Waiters
<1>2. Waiters \subseteq Threads /\ blocking = Waiters
  BY NobodyGranted
<1>3. ASSUME NEW G \in SUBSET Claims, NEW T \in SUBSET Waiters,
             holding' = G, blocking' = blocking \ T,
             \A c \in G : c[1] \in T,
             \A t \in T : requested[t] \subseteq G,
             TypeOK', ModeMatchesClaims', CountsTheClaims', 
             m_mode' = "Unlocked" => Waiters = {},
             T \cap shared # {} => m_mode' = "Shared",
             \A t \in T \cap Range(exclusive) : m_mode' = "Exclusive" /\ m_holder' = t
      PROVE  IndInv'
  <2>1. OnOneList' 
    BY <1>1 DEF IndInv, OnOneList
  <2>2. \A t \in Waiters \ T : requested[t] \cap G = {}
    BY <1>2, <1>3 DEF IndInv, RequestsFitLists
  <2>3. RequestsFitLists'
    BY <1>1, <1>2, <1>3, <2>2 DEF IndInv, RequestsFitLists
  <2>4. DroppedIsApart'
    BY <1>1, <1>3 DEF DroppedIsApart, ClaimsOf
  <2>5. GrantedOwns'
    BY <1>1, <1>2, <1>3 DEF GrantedOwns
  <2>. QED BY <1>1, <1>3, <2>1, <2>3, <2>4, <2>5 DEF IndInv
<1>4. CASE UnblockShared(released)
  <2>. DEFINE G == Requested(shared)
  <2>1. /\ G \in SUBSET Claims /\ \A c \in G : c[1] \in shared /\ c[3] = "Shared"
        /\ \A t \in shared : requested[t] \subseteq G
    BY DEF IndInv, TypeOK, RequestsFitLists, Requested
  <2>2. G # {}
    <3>1. PICK t \in shared : TRUE BY <1>4 DEF UnblockShared
    <3>2. requested[t] # {} BY <3>1 DEF IndInv, RequestsFitLists, Waiters
    <3>. QED BY <2>1, <3>1, <3>2
  <2>3. /\ holding' = G /\ blocking' = blocking \ shared
        /\ m_mode' = "Shared" /\ m_holder' = NoThread
        /\ m_times_locked' = Cardinality(G) /\ m_shared_holders' = Cardinality(G)
    BY <1>4 DEF UnblockShared
  <2>4. Cardinality(G) \in Nat
    BY <2>1, ClaimsFinite
  <2>. HIDE DEF G
  <2>5. TypeOK'
    BY <1>1, <2>1, <2>3, <2>4 DEF IndInv, TypeOK, Modes
  <2>6. ModeMatchesClaims' /\ CountsTheClaims'
    BY <2>1, <2>2, <2>3 DEF ModeMatchesClaims, CountsTheClaims
  <2>7. shared \subseteq Waiters /\ shared \cap Range(exclusive) = {}
    BY DEF IndInv, OnOneList, Waiters
  <2>. QED BY <1>3, <2>1, <2>3, <2>5, <2>6, <2>7
<1>5. CASE UnblockExclusive(released)
  <2>. DEFINE h == Head(exclusive)
              G == requested[h]
  <2>1. h \in Range(exclusive) /\ h \in Waiters /\ h \in Threads
    <3>1. exclusive # <<>> /\ exclusive \in Seq(Threads)
      BY <1>5 DEF UnblockExclusive, IndInv, TypeOK
    <3>2. 1 \in DOMAIN exclusive /\ exclusive[1] = h
      BY <3>1
    <3>. QED BY <3>2, <1>2 DEF Range, Waiters
  <2>2. G \in SUBSET Claims /\ G # {} /\ \A c \in G : c[1] = h
    BY <2>1 DEF IndInv, TypeOK, RequestsFitLists
  <2>3. /\ holding' = G /\ blocking' = blocking \ {h}
        /\ m_mode' = "Exclusive" /\ m_holder' = h
        /\ m_times_locked' = Cardinality(G) /\ m_shared_holders' = 0
    BY <1>5 DEF UnblockExclusive
  <2>4. Cardinality(G) \in Nat
    BY <2>2, ClaimsFinite
  <2>5. h \notin shared
    BY <2>1 DEF IndInv, OnOneList
  <2>. HIDE DEF h, G
  <2>6. TypeOK'
    BY <1>1, <2>1, <2>2, <2>3, <2>4 DEF IndInv, TypeOK, Modes
  <2>7. ModeMatchesClaims' /\ CountsTheClaims'
    BY <2>1, <2>2, <2>3 DEF ModeMatchesClaims, CountsTheClaims
  <2>. DEFINE T == {h}
  <2>8. /\ T \in SUBSET Waiters /\ blocking' = blocking \ T
        /\ \A c \in G : c[1] \in T
        /\ \A t \in T : requested[t] \subseteq G
        /\ T \cap shared = {} /\ m_mode' # "Unlocked"
        /\ \A t \in T \cap Range(exclusive) : m_mode' = "Exclusive" /\ m_holder' = t
    BY <2>1, <2>2, <2>3, <2>5 DEF G
  <2>9. G \in SUBSET Claims /\ holding' = G
    BY <2>2, <2>3
  <2>. HIDE DEF T
  <2>. QED BY <1>3, <2>6, <2>7, <2>8, <2>9
<1>6. CASE UnblockNobody(released)
  <2>1. /\ holding' = {} /\ blocking' = blocking \ {}
        /\ m_mode' = "Unlocked" /\ m_holder' = NoThread
        /\ m_times_locked' = 0 /\ m_shared_holders' = 0
    BY <1>6 DEF UnblockNobody
  <2>2. Waiters = {}
    BY <1>6 DEF UnblockNobody, Waiters, Range
  <2>3. TypeOK'
    BY <1>1, <2>1 DEF IndInv, TypeOK, Modes
  <2>4. ModeMatchesClaims' /\ CountsTheClaims'
    BY <2>1, FS_EmptySet DEF ModeMatchesClaims, CountsTheClaims
  <2>. QED BY <1>3, <2>1, <2>2, <2>3, <2>4
<1>. QED BY <1>4, <1>5, <1>6 DEF UnblockWaiters

\* unlock(): the last claim hands the mutex over, any other is only counted.
LEMMA UnlockInv ==
    ASSUME IndInv, NEW t \in Threads, NEW c \in holding, Unlock(t, c)
    PROVE  IndInv'
<1>1. c[1] = t /\ t \notin Waiters /\ UNCHANGED dropped
  BY DEF Unlock, Running, ClaimsOf
<1>2. CASE m_times_locked = 1 /\ UnblockWaiters(m_mode, {c})
  <2>1. holding = {c}
    <3>1. holding \in SUBSET Claims /\ Cardinality(holding) = 1
      BY <1>2 DEF IndInv, TypeOK, CountsTheClaims
    <3>. QED BY <3>1, ClaimCounts
  <2>2. /\ dropped' \in [Threads -> SUBSET Claims]
        /\ \A u \in Threads : \A d \in dropped'[u] : d[1] = u
        /\ \A u \in Threads : dropped'[u] # {} => u \notin Waiters
    BY <1>1 DEF IndInv, TypeOK, DroppedIsApart
  <2>3. holding \subseteq {c} /\ \A d \in holding : d[1] \notin Waiters
    BY <1>1, <2>1
  <2>. QED BY <1>2, <2>2, <2>3, UnblockInv
<1>3. CASE /\ m_times_locked > 1
           /\ m_times_locked' = m_times_locked - 1
           /\ m_shared_holders' = IF m_mode = "Shared" THEN m_shared_holders - 1
                                                       ELSE m_shared_holders
           /\ holding' = holding \ {c}
           /\ UNCHANGED <<m_mode, m_holder, lists>>
  <2>1. /\ UNCHANGED <<m_mode, m_holder, exclusive, shared, blocking, requested>>
        /\ Waiters' = Waiters /\ Range(exclusive)' = Range(exclusive)
    BY <1>3 DEF lists, Waiters
  <2>2. /\ Cardinality(holding') = Cardinality(holding) - 1
        /\ Cardinality(holding) \in Nat /\ Cardinality(holding) > 1
    BY <1>3, ClaimCounts DEF IndInv, TypeOK, CountsTheClaims
  <2>3. holding' # {}
    <3>1. Cardinality({}) = 0 BY FS_EmptySet
    <3>. QED BY <2>2, <3>1
  <2>4. TypeOK'
    <3>1. m_times_locked' \in Nat /\ m_shared_holders' \in Nat
      BY <1>3, <2>1, <2>2 DEF IndInv, TypeOK, CountsTheClaims
    <3>. QED BY <1>1, <1>3, <2>1, <3>1 DEF IndInv, TypeOK
  <2>5. ModeMatchesClaims'
    BY <1>3, <2>1, <2>3 DEF IndInv, ModeMatchesClaims
  <2>6. CountsTheClaims'
    BY <1>3, <2>1, <2>2 DEF IndInv, CountsTheClaims
  <2>7. OnOneList' /\ RequestsFitLists'
    BY <1>3, <2>1 DEF IndInv, OnOneList, RequestsFitLists
  <2>8. DroppedIsApart'
    BY <1>1, <1>3, <2>1 DEF IndInv, DroppedIsApart, ClaimsOf
  <2>9. GrantedOwns'
    <3>1. ASSUME NEW u \in Waiters \ blocking PROVE c \notin requested[u]
      BY <1>1 DEF IndInv, TypeOK, RequestsFitLists, Waiters, Range
    <3>. QED BY <1>3, <2>1, <3>1 DEF IndInv, GrantedOwns
  <2>. QED
    BY <2>1, <2>4, <2>5, <2>6, <2>7, <2>8, <2>9 DEF IndInv
<1>. QED BY <1>2, <1>3 DEF Unlock

\* Dropping the big lock, for a while or for good.
LEMMA ForceUnlockInv ==
    ASSUME IndInv, NEW t \in Threads, DropBigLock(t) \/ DieIfNeeded(t)
    PROVE  IndInv'
<1>1. /\ t \notin Waiters /\ m_mode = "Exclusive" /\ m_holder = t
      /\ UnblockWaiters("Exclusive", ClaimsOf(t))
  BY DEF DropBigLock, DieIfNeeded, ForceUnlock, Running
<1>2. /\ \A c \in holding : c[1] = t
      /\ holding \subseteq ClaimsOf(t)
  BY <1>1 DEF IndInv, ModeMatchesClaims, ClaimsOf
<1>3. dropped' = dropped \/ dropped' = [dropped EXCEPT ![t] = ClaimsOf(t)]
  BY DEF DropBigLock, DieIfNeeded
<1>4. /\ dropped' \in [Threads -> SUBSET Claims]
      /\ \A u \in Threads : \A c \in dropped'[u] : c[1] = u
      /\ \A u \in Threads : dropped'[u] # {} => u \notin Waiters
  BY <1>1, <1>3 DEF IndInv, TypeOK, DroppedIsApart, ClaimsOf
<1>. QED BY <1>1, <1>2, <1>4, UnblockInv

\* A restoring thread finds the big lock free.
LEMMA RestoreInv ==
    ASSUME IndInv, NEW t \in Threads, RestoreAtOnce(t)
    PROVE  IndInv'
<1>1. /\ dropped[t] # {} /\ t \notin Waiters /\ dropped[t] \in SUBSET Claims
      /\ \A c \in dropped[t] : c[1] = t
  BY DEF RestoreAtOnce, IndInv, TypeOK, DroppedIsApart
<1>2. m_mode = "Unlocked" /\ holding = {}
  BY <1>1 DEF RestoreAtOnce, IndInv, DroppedIsApart, ModeMatchesClaims, ClaimsOf
<1>3. /\ UNCHANGED <<exclusive, shared, blocking, requested>>
      /\ Waiters' = Waiters /\ Waiters = {} /\ blocking = {}
  BY <1>2 DEF RestoreAtOnce, lists, Waiters, IndInv, RequestsFitLists
<1>4. /\ holding' = dropped[t] /\ m_mode' = "Exclusive" /\ m_holder' = t
      /\ m_times_locked' = Cardinality(dropped[t]) /\ m_shared_holders' = 0
  <2>1. m_times_locked = 0 /\ m_shared_holders = 0 /\ Cardinality(dropped[t]) \in Nat
    BY <1>1, <1>2, FS_EmptySet, ClaimsFinite DEF IndInv, CountsTheClaims
  <2>. QED BY <1>2, <2>1 DEF RestoreAtOnce
<1>5. /\ dropped' \in [Threads -> SUBSET Claims] /\ dropped'[t] = {}
      /\ \A u \in Threads \ {t} : dropped'[u] = dropped[u]
  BY DEF RestoreAtOnce, IndInv, TypeOK
<1>6. TypeOK'
  BY <1>1, <1>3, <1>4, <1>5, ClaimsFinite DEF IndInv, TypeOK, Modes
<1>7. ModeMatchesClaims' /\ CountsTheClaims'
  BY <1>1, <1>4 DEF ModeMatchesClaims, CountsTheClaims
<1>8. OnOneList' /\ RequestsFitLists' /\ GrantedOwns'
  BY <1>3 DEF IndInv, OnOneList, RequestsFitLists, GrantedOwns, Waiters
<1>9. DroppedIsApart'
  BY <1>1, <1>3, <1>4, <1>5 DEF IndInv, DroppedIsApart, ClaimsOf
<1>. QED
  BY <1>3, <1>4, <1>6, <1>7, <1>8, <1>9 DEF IndInv

\* Every step preserves the inductive invariant.
LEMMA NextInv == IndInv /\ [Next]_vars => IndInv'
<1>. SUFFICES ASSUME IndInv, [Next]_vars PROVE IndInv' OBVIOUS
<1>1. CASE UNCHANGED vars
  BY <1>1 DEF vars, counters, lists, IndInv, TypeOK, ModeMatchesClaims, CountsTheClaims,
     OnOneList, RequestsFitLists, DroppedIsApart, GrantedOwns, Waiters, ClaimsOf
<1>2. ASSUME NEW t \in Threads, NEW l \in Locations, NEW mode \in Modes, LockBlocks(t, l, mode)
      PROVE  IndInv'
  <2>. DEFINE claims == {<<t, l, mode>>}
  <2>1. /\ claims \in SUBSET Claims /\ claims # {} /\ \A c \in claims : c[1] = t /\ c[3] = mode
        /\ claims \cap holding = {}
        /\ t \notin Waiters /\ dropped[t] = {} /\ UNCHANGED dropped
        /\ m_mode # "Unlocked" /\ Block(t, mode, claims)
    BY <1>2 DEF LockBlocks, Calls, Running, ClaimsOf, Claims, MustWait
  <2>. HIDE DEF claims
  <2>. QED BY <2>1, BlockInv
<1>3. ASSUME NEW t \in Threads, RestoreBlocks(t) PROVE IndInv'
  <2>1. /\ "Exclusive" \in Modes
        /\ dropped[t] \in SUBSET Claims /\ dropped[t] # {} /\ \A c \in dropped[t] : c[1] = t
        /\ dropped[t] \cap holding = {}
        /\ t \notin Waiters /\ dropped' = [dropped EXCEPT ![t] = {}]
        /\ m_mode # "Unlocked" /\ Block(t, "Exclusive", dropped[t])
    BY <1>3 DEF RestoreBlocks, IndInv, TypeOK, DroppedIsApart, ClaimsOf, Modes
  <2>. QED BY <2>1, BlockInv
<1>. QED
  BY <1>1, <1>2, <1>3, AcquireInv, ReturnInv, UnlockInv, ForceUnlockInv, RestoreInv DEF Next

\* The inductive invariant holds in every state the mutex reaches.
THEOREM InvariantHolds == Spec => []IndInv
BY InitInv, NextInv, PTL DEF Spec

\* The fields of the mutex and its lists keep their types.
THEOREM TypeOKHolds == Spec => []TypeOK
<1>1. IndInv => TypeOK BY DEF IndInv
<1>. QED BY <1>1, InvariantHolds, PTL

\* VERIFY(!list.contains(current_thread)) in block() never fails.
THEOREM OnOneListHolds == Spec => []OnOneList
<1>1. IndInv => OnOneList BY DEF IndInv
<1>. QED BY <1>1, InvariantHolds, PTL

\* An exclusive lock() call that has returned excludes every other thread.
THEOREM MutualExclusionHolds == Spec => []MutualExclusion
<1>1. IndInv => MutualExclusion
  BY DEF IndInv, TypeOK, ModeMatchesClaims, MutualExclusion, Modes
<1>. QED BY <1>1, InvariantHolds, PTL

\* m_times_locked and m_shared_holders count the claims not yet undone.
THEOREM CountsTheClaimsHolds == Spec => []CountsTheClaims
<1>1. IndInv => CountsTheClaims BY DEF IndInv
<1>. QED BY <1>1, InvariantHolds, PTL

\* The VERIFYs a thread meets when it wakes up in block() hold.
THEOREM WakesAsOwnerHolds == Spec => []WakesAsOwner
<1>1. ASSUME IndInv PROVE WakesAsOwner
  <2>1. m_mode = "Shared" => m_shared_holders > 0
    <3>1. Cardinality(holding) \in Nat /\ (Cardinality(holding) = 0 => holding = {})
      BY ClaimCounts, <1>1 DEF IndInv, TypeOK
    <3>. QED BY <1>1, <3>1 DEF IndInv, CountsTheClaims, ModeMatchesClaims
  <2>2. m_mode = "Exclusive" => m_shared_holders = 0
    BY <1>1 DEF IndInv, CountsTheClaims
  <2>3. m_mode = "Shared" => m_holder = NoThread
    BY <1>1 DEF IndInv, ModeMatchesClaims
  <2>. QED
    BY <1>1, <2>1, <2>2, <2>3 DEF IndInv, GrantedOwns, RequestsFitLists, WakesAsOwner
<1>. QED BY <1>1, InvariantHolds, PTL

\* No thread sleeps on a free mutex, and no sleeping thread holds what it waits for.
THEOREM NoForgottenWaiterHolds == Spec => []NoForgottenWaiter
<1>1. IndInv => NoForgottenWaiter
  BY DEF IndInv, RequestsFitLists, NoForgottenWaiter
<1>. QED BY <1>1, InvariantHolds, PTL

-----------------------------------------------------------------------------
(* Refinement: Mutex implements RWLock *)

Pending == Requested(blocking)
Dropped == UNION {dropped[t] : t \in Threads}

\* The granted claims of a reachable state never conflict.
LEMMA Compatibility == IndInv => Abstract!Compatible(holding)
BY DEF IndInv, TypeOK, ModeMatchesClaims, Abstract!Compatible, Modes

\* A hand-over grants the claims of the threads it wakes and leaves the mutex
\* free only when nobody waits.
LEMMA HandsOver ==
    ASSUME IndInv, IndInv', NEW previous, NEW released \in SUBSET holding,
           UnblockWaiters(previous, released), released # {},
           holding \subseteq released,
           \A c \in holding : c[1] \notin Waiters
    PROVE  \E G \in SUBSET Pending : Abstract!HandOver(released, G)
<1>1. /\ requested' = requested /\ Waiters' = Waiters
      /\ Waiters \subseteq Threads /\ blocking = Waiters
  BY NobodyGranted DEF UnblockWaiters, Waiters
<1>2. ASSUME NEW T \in SUBSET Waiters, blocking' = blocking \ T,
             holding' = Requested(T), holding' = {} => Waiters = {}
      PROVE  \E G \in SUBSET Pending : Abstract!HandOver(released, G)
  <2>1. Requested(T) \in SUBSET Pending
    BY <1>1, <1>2 DEF Pending, Requested
  <2>2. Pending' = Pending \ Requested(T)
    BY <1>1, <1>2 DEF Pending, Requested
  <2>3. holding' = (holding \ released) \cup Requested(T)
    BY <1>2
  <2>4. holding' = {} => Pending' = {}
    BY <1>1, <1>2 DEF Pending, Requested
  <2>5. Abstract!Compatible(holding')
    BY DEF IndInv, TypeOK, ModeMatchesClaims, Abstract!Compatible, Modes
  <2>6. Abstract!HandOver(released, Requested(T))
    BY <2>2, <2>3, <2>4, <2>5 DEF Abstract!HandOver, Pending
  <2>. QED BY <2>1, <2>6
<1>3. ASSUME m_mode' # "Unlocked" PROVE holding' # {}
  BY <1>3 DEF IndInv, ModeMatchesClaims
<1>4. CASE UnblockShared(released)
  <2>1. shared \in SUBSET Waiters BY DEF Waiters
  <2>. QED BY <1>2, <1>3, <1>4, <2>1 DEF UnblockShared
<1>5. CASE UnblockExclusive(released)
  <2>1. exclusive # <<>> /\ exclusive \in Seq(Threads)
    BY <1>5 DEF UnblockExclusive, IndInv, TypeOK
  <2>2. 1 \in DOMAIN exclusive /\ exclusive[1] = Head(exclusive)
    BY <2>1
  <2>3. {Head(exclusive)} \in SUBSET Waiters
    BY <2>2 DEF Waiters, Range
  <2>4. requested[Head(exclusive)] = Requested({Head(exclusive)})
    BY <1>1, <2>3 DEF Requested, IndInv, TypeOK, RequestsFitLists
  <2>. QED BY <1>2, <1>3, <1>5, <2>3, <2>4 DEF UnblockExclusive
<1>6. CASE UnblockNobody(released)
  <2>1. {} \in SUBSET Waiters /\ Requested({}) = {} BY DEF Requested
  <2>2. Waiters = {} BY <1>6 DEF UnblockNobody, Waiters, Range
  <2>. QED BY <1>2, <1>6, <2>1, <2>2 DEF UnblockNobody
<1>. QED BY <1>4, <1>5, <1>6 DEF UnblockWaiters

\* Going to sleep makes the thread's claims pending.
LEMMA BlockPends ==
    ASSUME IndInv, NEW t \in Threads, NEW mode \in Modes, NEW claims \in SUBSET Claims,
           Block(t, mode, claims), t \notin Waiters, \A c \in claims : c[1] = t
    PROVE  Pending' = Pending \cup claims /\ holding' = holding
<1>1. /\ blocking' = blocking \cup {t} /\ t \notin blocking
      /\ requested' = [requested EXCEPT ![t] = claims] /\ holding' = holding
  BY DEF Block, IndInv, RequestsFitLists
<1>. QED BY <1>1 DEF Pending, Requested, IndInv, TypeOK

\* Every step of the mutex is a step of the abstract lock or leaves it alone.
LEMMA StepSimulation ==
    ASSUME IndInv, IndInv', Next
    PROVE  Abstract!Next \/ UNCHANGED Abstract!absVars
<1>. USE DEF Pending, Dropped
<1>1. ASSUME NEW t \in Threads, NEW l \in Locations, NEW mode \in Modes,
             \/ LockUnlocked(t, l, mode)
             \/ LockExclusive(t, l, mode)
             \/ LockShared(t, l, mode)
      PROVE  Abstract!Next
  <2>. DEFINE c == <<t, l, mode>>
  <2>1. c \in Claims /\ holding' = holding \cup {c} /\ UNCHANGED <<blocking, requested, dropped>>
    BY <1>1 DEF LockUnlocked, LockExclusive, LockShared, Claims, lists
  <2>2. Abstract!Compatible(holding \cup {c})
    BY <2>1 DEF IndInv, TypeOK, ModeMatchesClaims, Abstract!Compatible, Modes
  <2>3. UNCHANGED <<Pending, Dropped>>
    BY <2>1 DEF Requested
  <2>4. Abstract!Acquire(c)
    BY <2>1, <2>2, <2>3 DEF Abstract!Acquire
  <2>. QED BY <2>1, <2>4 DEF Abstract!Next
<1>2. ASSUME NEW t \in Threads, NEW l \in Locations, NEW mode \in Modes, LockBlocks(t, l, mode)
      PROVE  Abstract!Next
  <2>. DEFINE c == <<t, l, mode>>
  <2>1. /\ c \in Claims /\ \A d \in {c} : d[1] = t
        /\ t \notin Waiters /\ UNCHANGED dropped
        /\ holding # {} /\ Block(t, mode, {c})
    BY <1>2 DEF LockBlocks, Calls, Running, Claims, MustWait, IndInv, ModeMatchesClaims
  <2>2. Pending' = Pending \cup {c} /\ holding' = holding
    BY <2>1, BlockPends
  <2>3. Abstract!Enqueue(c)
    BY <2>1, <2>2 DEF Abstract!Enqueue
  <2>. QED BY <2>1, <2>3 DEF Abstract!Next
<1>3. ASSUME NEW t \in Threads, ReturnFromBlock(t)
      PROVE  UNCHANGED Abstract!absVars
  <2>1. /\ t \notin blocking /\ requested' = [requested EXCEPT ![t] = {}]
        /\ UNCHANGED <<holding, blocking, dropped>>
    BY <1>3 DEF ReturnFromBlock
  <2>2. Pending' = Pending
    BY <2>1 DEF Requested, IndInv, TypeOK
  <2>. QED BY <2>1, <2>2 DEF Abstract!absVars
<1>4. ASSUME NEW t \in Threads, NEW c \in holding, Unlock(t, c)
      PROVE  Abstract!Next
  <2>1. c[1] = t /\ t \notin Waiters /\ Dropped' = Dropped
    BY <1>4 DEF Unlock, Running, ClaimsOf
  <2>2. \E G \in SUBSET Pending : Abstract!HandOver({c}, G)
    <3>1. CASE m_times_locked = 1 /\ UnblockWaiters(m_mode, {c})
      <4>1. holding \in SUBSET Claims /\ Cardinality(holding) = 1
        BY <3>1 DEF IndInv, TypeOK, CountsTheClaims
      <4>2. holding = {c} BY <4>1, ClaimCounts
      <4>. QED BY <2>1, <3>1, <4>2, HandsOver
    <3>2. CASE holding' = holding \ {c} /\ UNCHANGED <<m_mode, m_holder, lists>>
      <4>1. Pending' = Pending \ {}
        BY <3>2 DEF Requested, lists
      <4>2. holding' # {}
        BY <3>2 DEF IndInv, ModeMatchesClaims
      <4>3. Abstract!Compatible(holding')
        BY Compatibility, <3>2 DEF Abstract!Compatible
      <4>4. Abstract!HandOver({c}, {})
        BY <3>2, <4>1, <4>2, <4>3 DEF Abstract!HandOver
      <4>. QED BY <4>4
    <3>. QED BY <1>4, <3>1, <3>2 DEF Unlock
  <2>. QED BY <2>1, <2>2 DEF Abstract!Next, Abstract!Release
<1>5. ASSUME NEW t \in Threads, ForceUnlock(t)
      PROVE  /\ \E G \in SUBSET Pending : Abstract!HandOver(ClaimsOf(t), G)
             /\ ClaimsOf(t) \in SUBSET holding /\ dropped[t] = {}
  <2>1. /\ t \notin Waiters /\ dropped[t] = {} /\ m_mode = "Exclusive" /\ m_holder = t
        /\ UnblockWaiters("Exclusive", ClaimsOf(t))
    BY <1>5 DEF ForceUnlock, Running
  <2>2. holding \subseteq ClaimsOf(t) /\ ClaimsOf(t) \in SUBSET holding /\ ClaimsOf(t) # {}
        /\ \A c \in holding : c[1] \notin Waiters
    BY <2>1 DEF IndInv, ModeMatchesClaims, ClaimsOf
  <2>. QED BY <2>1, <2>2, HandsOver
<1>6. ASSUME NEW t \in Threads, DropBigLock(t) PROVE Abstract!Next
  <2>1. ForceUnlock(t) /\ dropped' = [dropped EXCEPT ![t] = ClaimsOf(t)]
    BY <1>6 DEF DropBigLock
  <2>2. Dropped' = Dropped \cup ClaimsOf(t)
    BY <1>5, <2>1 DEF IndInv, TypeOK
  <2>. QED BY <1>5, <2>1, <2>2 DEF Abstract!Next, Abstract!Drop
<1>7. ASSUME NEW t \in Threads, DieIfNeeded(t) PROVE Abstract!Next
  BY <1>5, <1>7 DEF DieIfNeeded, Abstract!Next, Abstract!Release
<1>8. ASSUME NEW t \in Threads, RestoreAtOnce(t) \/ RestoreBlocks(t)
      PROVE  Abstract!Next
  <2>. DEFINE C == dropped[t]
  <2>1. /\ C # {} /\ C \in SUBSET Dropped /\ C \in SUBSET Claims
        /\ dropped' = [dropped EXCEPT ![t] = {}] /\ t \notin Waiters
        /\ \A u \in Threads : \A c \in dropped[u] : c[1] = u
    BY <1>8 DEF RestoreAtOnce, RestoreBlocks, IndInv, TypeOK, DroppedIsApart
  <2>2. Dropped' = Dropped \ C
    BY <2>1 DEF IndInv, TypeOK
  <2>3. CASE RestoreAtOnce(t)
    <3>1. holding' = holding \cup C /\ Pending' = Pending
      BY <2>3 DEF RestoreAtOnce, lists, Requested
    <3>2. Abstract!Compatible(holding \cup C)
      BY <3>1 DEF IndInv, TypeOK, ModeMatchesClaims, Abstract!Compatible, Modes
    <3>3. Abstract!TakeBack(C)
      BY <2>1, <2>2, <3>1, <3>2 DEF Abstract!TakeBack
    <3>4. \E D \in SUBSET Dropped : Abstract!TakeBack(D)
      BY <2>1, <3>3 DEF Abstract!TakeBack
    <3>. QED BY <3>4 DEF Abstract!Next
  <2>4. CASE RestoreBlocks(t)
    <3>1. holding # {} /\ Block(t, "Exclusive", C) /\ "Exclusive" \in Modes
      BY <2>4 DEF RestoreBlocks, IndInv, ModeMatchesClaims, Modes
    <3>2. Pending' = Pending \cup C /\ holding' = holding
      BY <2>1, <3>1, BlockPends
    <3>3. Abstract!TakeBack(C)
      BY <2>1, <2>2, <3>1, <3>2 DEF Abstract!TakeBack
    <3>4. \E D \in SUBSET Dropped : Abstract!TakeBack(D)
      BY <2>1, <3>3 DEF Abstract!TakeBack
    <3>. QED BY <3>4 DEF Abstract!Next
  <2>. QED BY <1>8, <2>3, <2>4
<1>. QED
  BY <1>1, <1>2, <1>3, <1>4, <1>6, <1>7, <1>8 DEF Next

\* Mutex refines RWLock: hand-overs between sleeping readers and writers,
\* recursion and dropping the big lock are invisible to the mutex's users.
THEOREM RefinesRWLock == Spec => ImplementsRWLock
<1>1. Init => Abstract!Init
  BY DEF Init, Abstract!Init, Requested
<1>2. IndInv /\ IndInv' /\ [Next]_vars => [Abstract!Next]_(Abstract!absVars)
  <2>1. IndInv /\ IndInv' /\ Next => Abstract!Next \/ UNCHANGED Abstract!absVars
    BY StepSimulation
  <2>2. UNCHANGED vars => UNCHANGED Abstract!absVars
    BY DEF vars, counters, lists, Abstract!absVars, Requested
  <2>. QED BY <2>1, <2>2
<1>. QED BY <1>1, <1>2, InvariantHolds, PTL DEF Spec, Abstract!Spec, ImplementsRWLock
=============================================================================
