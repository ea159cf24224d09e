---------------------------- MODULE ListTheorems ----------------------------
(***************************************************************************)
(* What the operations on lists do to the places and to the elements of a  *)
(* list.  The lists of the kernel are intrusive: an element is in a list   *)
(* once, so a list is an injective sequence.                               *)
(***************************************************************************)
EXTENDS Naturals, Sequences, SequencesExt, TLAPS

\* The places of a list and what is in them.
LEMMA ListElements ==
    ASSUME NEW S, NEW s \in Seq(S)
    PROVE  /\ Len(s) \in Nat /\ DOMAIN s = 1..Len(s)
           /\ \A i \in 1..Len(s) : s[i] \in S
  OBVIOUS

\* Appending to a list adds one element to it.
LEMMA ListAppend ==
    ASSUME NEW S, NEW s \in Seq(S), NEW e \in S
    PROVE  /\ Append(s, e) \in Seq(S)
           /\ Range(Append(s, e)) = Range(s) \cup {e}
           /\ IsInjective(s) /\ e \notin Range(s) => IsInjective(Append(s, e))
<1>. DEFINE a == Append(s, e)
<1>1. a \in Seq(S) /\ DOMAIN a = 1..Len(s)+1 /\ DOMAIN s = 1..Len(s)
  OBVIOUS
<1>2. /\ \A i \in 1..Len(s) : a[i] = s[i]
      /\ a[Len(s)+1] = e
  OBVIOUS
<1>3. Len(s) \in Nat /\ 1..Len(s)+1 = 1..Len(s) \cup {Len(s)+1}
  OBVIOUS
<1>. HIDE DEF a
<1>4. Range(a) = Range(s) \cup {e}
  BY <1>1, <1>2, <1>3 DEF Range
<1>5. IsInjective(s) /\ e \notin Range(s) => IsInjective(a)
  BY <1>1, <1>2, <1>3 DEF Range, IsInjective
<1>. QED BY <1>1, <1>4, <1>5 DEF a

\* The list that is left when place i is taken out.
LEMMA ListRemoveAt ==
    ASSUME NEW S, NEW s \in Seq(S), NEW i \in DOMAIN s
    PROVE  /\ RemoveAt(s, i) \in Seq(S) /\ DOMAIN RemoveAt(s, i) = 1..Len(s)-1
           /\ \A k \in 1..Len(s)-1 : RemoveAt(s, i)[k] = IF k < i THEN s[k] ELSE s[k+1]
<1>. DEFINE r == RemoveAt(s, i)
            n == Len(s)
            a == SubSeq(s, 1, i-1)
            b == SubSeq(s, i+1, n)
<1>1. n \in Nat /\ DOMAIN s = 1..n /\ i \in 1..n
  OBVIOUS
<1>2. /\ a \in Seq(S) /\ Len(a) = i-1 /\ \A k \in 1..i-1 : a[k] = s[k]
      /\ b \in Seq(S) /\ Len(b) = n-i /\ \A k \in 1..n-i : b[k] = s[k+i]
  <2>1. a \in Seq(S) /\ b \in Seq(S)
    BY <1>1
  <2>2. Len(a) = i-1 /\ Len(b) = n-i
    BY <1>1
  <2>3. \A k \in 1..i-1 : a[k] = s[k]
    BY <1>1
  <2>4. \A k \in 1..n-i : b[k] = s[k+i]
    BY <1>1
  <2>. QED BY <2>1, <2>2, <2>3, <2>4
<1>. HIDE DEF a, b
<1>3. r = a \o b
  BY DEF RemoveAt, a, b
<1>4. /\ a \o b \in Seq(S)
      /\ DOMAIN (a \o b) = 1..(Len(a) + Len(b))
      /\ \A k \in 1..Len(a) : (a \o b)[k] = a[k]
      /\ \A k \in 1..Len(b) : (a \o b)[Len(a) + k] = b[k]
  <2>1. a \in Seq(S) /\ b \in Seq(S) BY <1>2
  <2>. QED BY <2>1
<1>. HIDE DEF r, n
<1>5. r \in Seq(S) /\ DOMAIN r = 1..n-1
  BY <1>1, <1>2, <1>3, <1>4
<1>6. \A k \in 1..n-1 : r[k] = IF k < i THEN s[k] ELSE s[k+1]
  <2>1. ASSUME NEW k \in 1..n-1, k < i PROVE r[k] = s[k]
    <3>1. k \in 1..Len(a) /\ k \in 1..i-1 BY <1>1, <1>2, <2>1
    <3>2. (a \o b)[k] = a[k] BY <1>4, <3>1
    <3>. QED BY <1>2, <1>3, <3>1, <3>2
  <2>2. ASSUME NEW k \in 1..n-1, ~(k < i) PROVE r[k] = s[k+1]
    <3>. DEFINE m == k-i+1
    <3>1. m \in 1..n-i /\ m+i = k+1 /\ (i-1)+m = k BY <1>1, <2>2
    <3>. HIDE DEF m
    <3>2. b[m] = s[k+1] BY <1>2, <3>1
    <3>3. (a \o b)[Len(a) + m] = b[m] BY <1>2, <1>4, <3>1
    <3>4. Len(a) + m = k BY <1>2, <3>1
    <3>. QED BY <1>3, <3>2, <3>3, <3>4
  <2>. QED BY <2>1, <2>2
<1>. QED BY <1>5, <1>6 DEF r, n

\* Taking the first element is taking out place 1.
LEMMA ListTail ==
    ASSUME NEW S, NEW s \in Seq(S), s # <<>>
    PROVE  1 \in DOMAIN s /\ Head(s) = s[1] /\ Tail(s) = RemoveAt(s, 1)
<1>. DEFINE n == Len(s)
            t == Tail(s)
            r == RemoveAt(s, 1)
<1>1. n \in Nat /\ n >= 1 /\ DOMAIN s = 1..n /\ Head(s) = s[1]
  OBVIOUS
<1>2. t \in Seq(S) /\ Len(t) = n-1
  OBVIOUS
<1>3. \A k \in 1..n-1 : t[k] = s[k+1]
  OBVIOUS
<1>4. 1 \in DOMAIN s
  BY <1>1
<1>5. r \in Seq(S) /\ DOMAIN r = 1..n-1
  BY <1>4, ListRemoveAt
<1>6. \A k \in 1..n-1 : r[k] = IF k < 1 THEN s[k] ELSE s[k+1]
  BY <1>4, ListRemoveAt
<1>. HIDE DEF t, r, n
<1>7. Len(r) = n-1
  BY <1>1, <1>5
<1>8. \A k \in 1..n-1 : r[k] = t[k]
  BY <1>1, <1>3, <1>6
<1>9. r = t
  BY <1>2, <1>5, <1>7, <1>8
<1>. QED BY <1>1, <1>4, <1>9 DEF t, r

\* Removing from a list takes exactly that element off it.
LEMMA ListRemove ==
    ASSUME NEW S, NEW s \in Seq(S), NEW i \in DOMAIN s, IsInjective(s)
    PROVE  /\ RemoveAt(s, i) \in Seq(S)
           /\ Range(RemoveAt(s, i)) = Range(s) \ {s[i]}
           /\ IsInjective(RemoveAt(s, i))
<1>. DEFINE r == RemoveAt(s, i)
            n == Len(s)
<1>1. n \in Nat /\ DOMAIN s = 1..n /\ i \in 1..n
  OBVIOUS
<1>5. r \in Seq(S) /\ DOMAIN r = 1..n-1
  BY ListRemoveAt
<1>6. \A k \in 1..n-1 : r[k] = IF k < i THEN s[k] ELSE s[k+1]
  BY ListRemoveAt
<1>. HIDE DEF r, n
<1>7. ASSUME NEW j \in 1..n-1, NEW k \in 1..n-1, r[j] = r[k] PROVE j = k
  <2>1. \A p, q \in 1..n : s[p] = s[q] => p = q BY <1>1 DEF IsInjective
  <2>. QED BY <2>1, <1>1, <1>6, <1>7
<1>8. \A k \in 1..n-1 : r[k] \in Range(s) /\ r[k] # s[i]
  BY <1>1, <1>6 DEF IsInjective, Range
<1>9. ASSUME NEW k \in 1..n, k # i PROVE s[k] \in Range(r)
  <2>1. CASE k < i BY <2>1, <1>1, <1>5, <1>6 DEF Range
  <2>2. CASE k > i
    <3>1. k-1 \in 1..n-1 /\ r[k-1] = s[k] BY <2>2, <1>1, <1>6
    <3>. QED BY <3>1, <1>5 DEF Range
  <2>. QED BY <2>1, <2>2, <1>1, <1>9
<1>10. Range(r) = Range(s) \ {s[i]}
  BY <1>1, <1>5, <1>8, <1>9 DEF Range
<1>. QED BY <1>5, <1>7, <1>10 DEF r, IsInjective

\* So does removing by name: the element is in one place, or in none.
LEMMA ListRemoveFirstAt ==
    ASSUME NEW S, NEW s \in Seq(S), NEW i \in DOMAIN s, IsInjective(s)
    PROVE  RemoveFirst(s, s[i]) = RemoveAt(s, i)
<1>1. {j \in 1..Len(s) : s[j] = s[i]} = {i}
  BY DEF IsInjective
<1>2. Min({i}) = i
  BY DEF Min
<1>3. SelectInSeq(s, LAMBDA v : v = s[i]) = i
  BY <1>1, <1>2 DEF SelectInSeq
<1> QED
  BY <1>3 DEF RemoveFirst

\* The elements that are left after removing by name.
LEMMA ListRemoveFirst ==
    ASSUME NEW S, NEW s \in Seq(S), NEW e, IsInjective(s)
    PROVE  /\ RemoveFirst(s, e) \in Seq(S)
           /\ Range(RemoveFirst(s, e)) = Range(s) \ {e}
           /\ IsInjective(RemoveFirst(s, e))
<1>1. CASE e \in Range(s)
  <2>1. PICK i \in DOMAIN s : s[i] = e
    BY <1>1 DEF Range
  <2> QED
    BY <2>1, ListRemoveFirstAt, ListRemove
<1>2. CASE e \notin Range(s)
  <2>1. RemoveFirst(s, e) = s
    BY <1>2 DEF RemoveFirst, Range
  <2> QED
    BY <1>2, <2>1
<1> QED
  BY <1>1, <1>2

\* The list that results when e is put in front of place i.
LEMMA ListInsertAt ==
    ASSUME NEW S, NEW s \in Seq(S), NEW i \in 1..Len(s)+1, NEW e \in S
    PROVE  /\ InsertAt(s, i, e) \in Seq(S) /\ DOMAIN InsertAt(s, i, e) = 1..Len(s)+1
           /\ \A k \in 1..Len(s)+1 :
                 InsertAt(s, i, e)[k] = IF k < i THEN s[k] ELSE IF k = i THEN e ELSE s[k-1]
<1>. DEFINE r == InsertAt(s, i, e)
            n == Len(s)
            a == SubSeq(s, 1, i-1)
            b == SubSeq(s, i, n)
            c == a \o <<e>>
<1>1. n \in Nat /\ DOMAIN s = 1..n /\ i \in 1..n+1
  OBVIOUS
<1>2. /\ a \in Seq(S) /\ Len(a) = i-1 /\ \A k \in 1..i-1 : a[k] = s[k]
      /\ b \in Seq(S) /\ Len(b) = n-i+1 /\ \A k \in 1..n-i+1 : b[k] = s[k+i-1]
  <2>1. a \in Seq(S) /\ b \in Seq(S)
    BY <1>1
  <2>2. Len(a) = i-1 /\ Len(b) = n-i+1
    BY <1>1
  <2>3. \A k \in 1..i-1 : a[k] = s[k]
    BY <1>1
  <2>4. \A k \in 1..n-i+1 : b[k] = s[k+i-1]
    BY <1>1
  <2>. QED BY <2>1, <2>2, <2>3, <2>4
<1>3. r = c \o b
  BY DEF InsertAt
<1>. HIDE DEF a, b
<1>4. /\ c \in Seq(S) /\ Len(c) = i
      /\ \A k \in 1..i-1 : c[k] = s[k]
      /\ c[i] = e
  <2>1. a \in Seq(S) /\ <<e>> \in Seq(S) /\ Len(<<e>>) = 1 /\ <<e>>[1] = e
    BY <1>2
  <2>2. /\ c \in Seq(S) /\ Len(c) = Len(a) + 1
        /\ \A k \in 1..Len(a) : c[k] = a[k]
        /\ c[Len(a) + 1] = e
    BY <2>1
  <2>. HIDE DEF c
  <2>. QED BY <1>1, <1>2, <2>2
<1>. HIDE DEF c
<1>5. /\ c \o b \in Seq(S)
      /\ DOMAIN (c \o b) = 1..(Len(c) + Len(b))
      /\ \A k \in 1..Len(c) : (c \o b)[k] = c[k]
      /\ \A k \in 1..Len(b) : (c \o b)[Len(c) + k] = b[k]
  <2>1. c \in Seq(S) /\ b \in Seq(S) BY <1>2, <1>4
  <2>. QED BY <2>1
<1>. HIDE DEF r, n
<1>6. r \in Seq(S) /\ DOMAIN r = 1..n+1
  BY <1>1, <1>2, <1>3, <1>4, <1>5
<1>7. ASSUME NEW k \in 1..n+1 PROVE r[k] = IF k < i THEN s[k] ELSE IF k = i THEN e ELSE s[k-1]
  <2>1. CASE k < i
    <3>1. k \in 1..Len(c) /\ k \in 1..i-1 BY <1>1, <1>4, <2>1
    <3>. QED BY <1>3, <1>4, <1>5, <2>1, <3>1
  <2>2. CASE k = i
    <3>1. k \in 1..Len(c) BY <1>1, <1>4, <2>2
    <3>. QED BY <1>3, <1>4, <1>5, <2>2, <3>1
  <2>3. CASE k > i
    <3>. DEFINE m == k-i
    <3>1. m \in 1..n-i+1 /\ m+i-1 = k-1 /\ i+m = k BY <1>1, <2>3
    <3>. HIDE DEF m
    <3>2. b[m] = s[k-1] BY <1>2, <3>1
    <3>3. (c \o b)[Len(c) + m] = b[m] BY <1>2, <1>5, <3>1
    <3>4. Len(c) + m = k BY <1>4, <3>1
    <3>5. r[k] = s[k-1] BY <1>3, <3>2, <3>3, <3>4
    <3>. QED BY <1>1, <2>3, <3>5
  <2>. QED BY <1>1, <2>1, <2>2, <2>3
<1>. QED BY <1>6, <1>7 DEF r, n

\* An element that was not in the list is in it once.
LEMMA ListInsert ==
    ASSUME NEW S, NEW s \in Seq(S), NEW i \in 1..Len(s)+1, NEW e \in S,
           IsInjective(s), e \notin Range(s)
    PROVE  /\ IsInjective(InsertAt(s, i, e))
           /\ Range(InsertAt(s, i, e)) = Range(s) \cup {e}
<1>. DEFINE r == InsertAt(s, i, e)
            n == Len(s)
<1>1. n \in Nat /\ DOMAIN s = 1..n /\ i \in 1..n+1
  OBVIOUS
<1>2. DOMAIN r = 1..n+1 /\ \A k \in 1..n+1 : r[k] = IF k < i THEN s[k] ELSE IF k = i THEN e ELSE s[k-1]
  BY ListInsertAt
<1>. HIDE DEF r, n
<1>3. \A k \in 1..n : s[k] # e
  BY <1>1 DEF Range
<1>4. ASSUME NEW j \in 1..n+1, NEW k \in 1..n+1, r[j] = r[k] PROVE j = k
  <2>1. \A p, q \in 1..n : s[p] = s[q] => p = q BY <1>1 DEF IsInjective
  <2>2. CASE j = i
    <3>1. r[k] = e BY <1>2, <1>4, <2>2
    <3>2. CASE k < i BY <1>1, <1>2, <1>3, <3>1, <3>2
    <3>3. CASE k > i
      <4>1. k-1 \in 1..n /\ r[k] = s[k-1] BY <1>1, <1>2, <3>3
      <4>. QED BY <1>3, <3>1, <4>1
    <3>. QED BY <1>1, <2>2, <3>2, <3>3
  <2>3. CASE k = i
    <3>1. r[j] = e BY <1>2, <1>4, <2>3
    <3>2. CASE j < i BY <1>1, <1>2, <1>3, <3>1, <3>2
    <3>3. CASE j > i
      <4>1. j-1 \in 1..n /\ r[j] = s[j-1] BY <1>1, <1>2, <3>3
      <4>. QED BY <1>3, <3>1, <4>1
    <3>. QED BY <1>1, <2>3, <3>2, <3>3
  <2>4. CASE j # i /\ k # i
    <3>. DEFINE p == IF j < i THEN j ELSE j-1
                q == IF k < i THEN k ELSE k-1
    <3>1. p \in 1..n /\ r[j] = s[p] BY <1>1, <1>2, <2>4
    <3>2. q \in 1..n /\ r[k] = s[q] BY <1>1, <1>2, <2>4
    <3>3. p = q BY <1>4, <2>1, <3>1, <3>2
    <3>. QED BY <1>1, <2>4, <3>3
  <2>. QED BY <2>2, <2>3, <2>4
<1>5. \A k \in 1..n+1 : r[k] \in Range(s) \cup {e}
  <2>. TAKE k \in 1..n+1
  <2>1. CASE k < i BY <1>1, <1>2, <2>1 DEF Range
  <2>2. CASE k = i BY <1>1, <1>2, <2>2
  <2>3. CASE k > i
    <3>1. k-1 \in 1..n /\ r[k] = s[k-1] BY <1>1, <1>2, <2>3
    <3>. QED BY <1>1, <3>1 DEF Range
  <2>. QED BY <1>1, <2>1, <2>2, <2>3
<1>6. e \in Range(r)
  BY <1>1, <1>2 DEF Range
<1>7. ASSUME NEW k \in 1..n PROVE s[k] \in Range(r)
  <2>1. CASE k < i BY <1>1, <1>2, <2>1 DEF Range
  <2>2. CASE k >= i
    <3>1. k+1 \in 1..n+1 /\ r[k+1] = s[k] BY <1>1, <1>2, <2>2
    <3>. QED BY <1>2, <3>1 DEF Range
  <2>. QED BY <1>1, <2>1, <2>2
<1>8. Range(r) = Range(s) \cup {e}
  BY <1>1, <1>2, <1>5, <1>6, <1>7 DEF Range
<1>. QED BY <1>2, <1>4, <1>8 DEF r, IsInjective
=============================================================================
