---------------------------- MODULE IdListsProofs ----------------------------
(***************************************************************************)
(* What taking an id out of a list and putting one into it do to its ids, and *)
(* the one list of a finite set in a given order.                            *)
(***************************************************************************)
EXTENDS IdLists, SequenceTheorems, FiniteSetTheorems, TLAPS

\* An entry taken out of a list leaves the others in their order.
LEMMA RemoveAtEntries ==
  ASSUME NEW S, NEW s \in Seq(S), NEW i \in 1..Len(s)
  PROVE  /\ RemoveAt(s, i) \in Seq(S)
         /\ Len(RemoveAt(s, i)) = Len(s) - 1
         /\ \A k \in 1..Len(s) - 1 :
              RemoveAt(s, i)[k] = IF k < i THEN s[k] ELSE s[k + 1]
<1> DEFINE a == SubSeq(s, 1, i - 1)
           b == SubSeq(s, i + 1, Len(s))
<1>1. Len(s) \in Nat /\ \A k \in 1..Len(s) : s[k] \in S
  BY LenProperties, ElementOfSeq
<1>2. /\ a \in Seq(S) /\ Len(a) = i - 1
      /\ \A k \in 1..i - 1 : a[k] = s[k]
  BY <1>1, SubSeqProperties
<1>3. /\ b \in Seq(S) /\ Len(b) = Len(s) - i
      /\ \A k \in 1..Len(s) - i : b[k] = s[i + k]
  <2>1. i + 1 \in Int /\ Len(s) \in Int /\ \A k \in i + 1..Len(s) : s[k] \in S
    BY <1>1
  <2>2. /\ b \in Seq(S)
        /\ Len(b) = IF i + 1 <= Len(s) THEN Len(s) - (i + 1) + 1 ELSE 0
        /\ \A k \in 1..Len(s) - (i + 1) + 1 : b[k] = s[(i + 1) + k - 1]
    BY <2>1, SubSeqProperties
  <2> QED BY <1>1, <2>2
<1> HIDE DEF a, b
<1>4. /\ a \o b \in Seq(S) /\ Len(a \o b) = Len(a) + Len(b)
      /\ \A k \in 1..Len(a) + Len(b) :
           (a \o b)[k] = IF k <= Len(a) THEN a[k] ELSE b[k - Len(a)]
  BY <1>2, <1>3, ConcatProperties
<1>5. RemoveAt(s, i) = a \o b
  BY DEF RemoveAt, a, b
<1>6. ASSUME NEW k \in 1..Len(s) - 1
      PROVE  (a \o b)[k] = IF k < i THEN s[k] ELSE s[k + 1]
  <2>1. CASE k < i
    BY <1>1, <1>2, <1>3, <1>4, <2>1
  <2>2. CASE ~(k < i)
    <3>1. k - (i - 1) \in 1..Len(s) - i /\ i + (k - (i - 1)) = k + 1
      BY <1>1, <2>2
    <3>2. (a \o b)[k] = b[k - (i - 1)]
      BY <1>1, <1>2, <1>3, <1>4, <2>2
    <3> QED BY <1>3, <2>2, <3>1, <3>2
  <2> QED BY <2>1, <2>2
<1>7. Len(a \o b) = Len(s) - 1
  BY <1>1, <1>2, <1>3, <1>4
<1> QED BY <1>4, <1>5, <1>6, <1>7

\* The ids of a list without repetitions once one of them is taken out, and that the
\* list still repeats none.
LEMMA RemoveAtIds ==
  ASSUME NEW S, NEW s \in Seq(S), NEW i \in 1..Len(s), IsInjective(s)
  PROVE  /\ IsInjective(RemoveAt(s, i))
         /\ ToSet(RemoveAt(s, i)) = ToSet(s) \ {s[i]}
<1> DEFINE r == RemoveAt(s, i)
<1>1. /\ r \in Seq(S) /\ Len(r) = Len(s) - 1
      /\ \A k \in 1..Len(s) - 1 : r[k] = IF k < i THEN s[k] ELSE s[k + 1]
  BY RemoveAtEntries
<1> HIDE DEF r
<1>2. Len(s) \in Nat /\ DOMAIN s = 1..Len(s) /\ DOMAIN r = 1..Len(s) - 1
  BY <1>1, LenProperties
<1>3. \A k, l \in 1..Len(s) : s[k] = s[l] => k = l
  BY <1>2 DEF IsInjective
<1>4. IsInjective(r)
  <2> SUFFICES ASSUME NEW k \in 1..Len(s) - 1, NEW l \in 1..Len(s) - 1, r[k] = r[l]
               PROVE  k = l
    BY <1>2 DEF IsInjective
  <2>1. (IF k < i THEN s[k] ELSE s[k + 1]) = (IF l < i THEN s[l] ELSE s[l + 1])
    BY <1>1
  <2> QED BY <1>2, <1>3, <2>1
<1>5. ToSet(r) \subseteq ToSet(s) \ {s[i]}
  <2> SUFFICES ASSUME NEW k \in 1..Len(s) - 1
               PROVE  \E l \in 1..Len(s) : r[k] = s[l] /\ s[l] # s[i]
    BY <1>2 DEF ToSet
  <2> DEFINE l == IF k < i THEN k ELSE k + 1
  <2>1. l \in 1..Len(s) /\ l # i /\ r[k] = s[l]
    BY <1>1, <1>2
  <2> QED BY <1>3, <2>1
<1>6. ToSet(s) \ {s[i]} \subseteq ToSet(r)
  <2> SUFFICES ASSUME NEW l \in 1..Len(s), s[l] # s[i]
               PROVE  \E k \in 1..Len(s) - 1 : r[k] = s[l]
    BY <1>2 DEF ToSet
  <2>1. l < i \/ l > i
    BY <1>2
  <2>2. CASE l < i
    BY <1>1, <1>2, <2>2
  <2>3. CASE l > i
    <3>1. l - 1 \in 1..Len(s) - 1 /\ ~(l - 1 < i) /\ (l - 1) + 1 = l
      BY <1>2, <2>3
    <3> QED BY <1>1, <3>1
  <2> QED BY <2>1, <2>2, <2>3
<1> QED BY <1>4, <1>5, <1>6 DEF r

\* An entry put into a list leaves the others in their order.
LEMMA InsertAtIds ==
  ASSUME NEW S, NEW s \in Seq(S), NEW j \in 1..Len(s) + 1, NEW e \in S
  PROVE  /\ InsertAt(s, j, e) \in Seq(S)
         /\ ToSet(InsertAt(s, j, e)) = ToSet(s) \cup {e}
         /\ IsInjective(s) /\ e \notin ToSet(s) => IsInjective(InsertAt(s, j, e))
<1> DEFINE a == SubSeq(s, 1, j - 1)
           b == SubSeq(s, j, Len(s))
           n == Len(s)
           r == InsertAt(s, j, e)
<1>1. n \in Nat /\ \A k \in 1..n : s[k] \in S
  BY LenProperties, ElementOfSeq
<1>2. /\ a \in Seq(S) /\ Len(a) = j - 1 /\ \A k \in 1..j - 1 : a[k] = s[k]
  BY <1>1, SubSeqProperties
<1>3. /\ b \in Seq(S) /\ Len(b) = n - j + 1 /\ \A k \in 1..n - j + 1 : b[k] = s[j + k - 1]
  BY <1>1, SubSeqProperties
<1>4. <<e>> \in Seq(S) /\ Len(<<e>>) = 1 /\ <<e>>[1] = e
  OBVIOUS
<1> DEFINE c == a \o <<e>>
<1>5. r = c \o b
  BY DEF InsertAt
<1> HIDE DEF a, b, r
<1>6. /\ c \in Seq(S) /\ Len(c) = j
      /\ \A k \in 1..j : c[k] = IF k <= j - 1 THEN a[k] ELSE <<e>>[k - (j - 1)]
  BY <1>1, <1>2, <1>4, ConcatProperties
<1> HIDE DEF c
<1>7. /\ r \in Seq(S) /\ Len(r) = n + 1
      /\ \A k \in 1..n + 1 : r[k] = IF k <= j THEN c[k] ELSE b[k - j]
  <2>1. /\ c \o b \in Seq(S) /\ Len(c \o b) = Len(c) + Len(b)
        /\ \A k \in 1..Len(c) + Len(b) :
             (c \o b)[k] = IF k <= Len(c) THEN c[k] ELSE b[k - Len(c)]
    BY <1>3, <1>6, ConcatProperties
  <2>2. Len(c) + Len(b) = n + 1
    BY <1>1, <1>3, <1>6
  <2> QED BY <1>5, <1>6, <2>1, <2>2
<1>8. ASSUME NEW k \in 1..n + 1
      PROVE  /\ k < j => k \in 1..n /\ r[k] = s[k]
             /\ k = j => r[k] = e
             /\ k > j => k - 1 \in 1..n /\ r[k] = s[k - 1]
  <2>1. k < j => k \in 1..n /\ r[k] = s[k]
    <3> SUFFICES ASSUME k < j PROVE k \in 1..n /\ r[k] = s[k]
      OBVIOUS
    <3>1. k \in 1..n /\ k \in 1..j - 1 /\ k \in 1..j
      BY <1>1
    <3>2. r[k] = c[k] /\ c[k] = a[k] /\ a[k] = s[k]
      BY <1>1, <1>2, <1>6, <1>7, <3>1
    <3> QED BY <3>1, <3>2
  <2>2. k = j => r[k] = e
    <3>1. k = j => r[k] = <<e>>[j - (j - 1)]
      BY <1>1, <1>6, <1>7
    <3>2. j - (j - 1) = 1
      BY <1>1
    <3> QED BY <1>4, <3>1, <3>2
  <2>3. k > j => k - 1 \in 1..n /\ r[k] = s[k - 1]
    <3> SUFFICES ASSUME k > j PROVE k - 1 \in 1..n /\ r[k] = s[k - 1]
      OBVIOUS
    <3>1. k - j \in 1..n - j + 1 /\ j + (k - j) - 1 = k - 1 /\ k - 1 \in 1..n
      BY <1>1
    <3>2. r[k] = b[k - j]
      BY <1>1, <1>7
    <3>3. b[k - j] = s[j + (k - j) - 1]
      BY <1>3, <3>1
    <3> QED BY <3>1, <3>2, <3>3
  <2> QED BY <2>1, <2>2, <2>3
<1>9. DOMAIN s = 1..n /\ DOMAIN r = 1..n + 1
  BY <1>7, LenProperties
<1>10. ToSet(r) = ToSet(s) \cup {e}
  <2>1. ASSUME NEW k \in 1..n + 1 PROVE r[k] \in ToSet(s) \cup {e}
    <3>1. \A i \in 1..n : s[i] \in ToSet(s)
      BY <1>9 DEF ToSet
    <3> QED BY <1>1, <1>8, <3>1
  <2>2. ASSUME NEW k \in 1..n PROVE s[k] \in ToSet(r)
    <3>1. CASE k < j
      <4>1. k \in 1..n + 1 /\ r[k] = s[k]
        BY <1>1, <1>8, <3>1
      <4> QED BY <1>9, <4>1 DEF ToSet
    <3>2. CASE ~(k < j)
      <4>1. k + 1 \in 1..n + 1 /\ k + 1 > j /\ (k + 1) - 1 = k
        BY <1>1, <3>2
      <4>2. r[k + 1] = s[k]
        BY <1>8, <4>1
      <4> QED BY <1>9, <4>1, <4>2 DEF ToSet
    <3> QED BY <3>1, <3>2
  <2>3. e \in ToSet(r)
    <3>1. j \in 1..n + 1 /\ r[j] = e
      BY <1>8
    <3> QED BY <1>9, <3>1 DEF ToSet
  <2> QED BY <1>9, <2>1, <2>2, <2>3 DEF ToSet
<1>11. ASSUME IsInjective(s), e \notin ToSet(s) PROVE IsInjective(r)
  <2> SUFFICES ASSUME NEW k \in 1..n + 1, NEW l \in 1..n + 1, r[k] = r[l] PROVE k = l
    BY <1>9 DEF IsInjective
  <2>1. \A i \in 1..n : s[i] # e
    BY <1>9, <1>11 DEF ToSet
  <2>2. \A i, m \in 1..n : s[i] = s[m] => i = m
    BY <1>9, <1>11 DEF IsInjective
  <2>3. CASE k = j \/ l = j
    BY <1>1, <1>8, <2>1, <2>3
  <2>4. CASE k < j
    BY <1>1, <1>8, <2>2, <2>3, <2>4
  <2>5. CASE k > j
    BY <1>1, <1>8, <2>2, <2>3, <2>5
  <2> QED BY <2>3, <2>4, <2>5
<1> QED BY <1>7, <1>10, <1>11 DEF r

\* An id is added at most once.
LEMMA AppendIds ==
  ASSUME NEW S, NEW s \in Seq(S), NEW x \in S
  PROVE  /\ Append(s, x) \in Seq(S)
         /\ ToSet(Append(s, x)) = ToSet(s) \cup {x}
         /\ IsInjective(s) /\ x \notin ToSet(s) => IsInjective(Append(s, x))
<1> DEFINE r == Append(s, x)
<1>1. /\ r \in Seq(S) /\ Len(r) = Len(s) + 1
      /\ \A k \in 1..Len(s) : r[k] = s[k]
      /\ r[Len(s) + 1] = x
  BY AppendProperties
<1> HIDE DEF r
<1>2. Len(s) \in Nat /\ DOMAIN s = 1..Len(s) /\ DOMAIN r = 1..Len(s) + 1
  BY <1>1, LenProperties
<1>3. ToSet(r) = ToSet(s) \cup {x}
  <2>1. \A k \in 1..Len(s) + 1 : k \in 1..Len(s) \/ k = Len(s) + 1
    BY <1>2
  <2>2. 1..Len(s) \subseteq 1..Len(s) + 1 /\ Len(s) + 1 \in 1..Len(s) + 1
    BY <1>2
  <2> QED BY <1>1, <1>2, <2>1, <2>2 DEF ToSet
<1>4. ASSUME IsInjective(s), x \notin ToSet(s)
      PROVE  IsInjective(r)
  <2>1. \A k, l \in 1..Len(s) : s[k] = s[l] => k = l
    BY <1>2, <1>4 DEF IsInjective
  <2>2. \A k \in 1..Len(s) : s[k] # x
    BY <1>2, <1>4 DEF ToSet
  <2>3. \A k \in 1..Len(s) + 1 : k \in 1..Len(s) \/ k = Len(s) + 1
    BY <1>2
  <2> QED BY <1>1, <1>2, <2>1, <2>2, <2>3 DEF IsInjective
<1> QED BY <1>1, <1>3, <1>4 DEF r

LEMMA EmptyIds ==
  ASSUME NEW S
  PROVE  <<>> \in Seq(S) /\ ToSet(<<>>) = {} /\ IsInjective(<<>>)
<1>1. <<>> \in Seq(S) /\ Len(<<>>) = 0
  BY EmptySeq
<1>2. DOMAIN <<>> = {}
  BY <1>1, LenProperties
<1> QED BY <1>1, <1>2 DEF ToSet, IsInjective

LEMMA SingleIds ==
  ASSUME NEW S, NEW x \in S
  PROVE  <<x>> \in Seq(S) /\ ToSet(<<x>>) = {x} /\ IsInjective(<<x>>)
<1>1. <<x>> \in Seq(S) /\ DOMAIN <<x>> = {1} /\ <<x>>[1] = x
  OBVIOUS
<1> QED BY <1>1 DEF ToSet, IsInjective

LEMMA IdsInS ==
  ASSUME NEW S, NEW s \in Seq(S)
  PROVE  /\ ToSet(s) \subseteq S
         /\ \A i \in 1..Len(s) : s[i] \in ToSet(s)
BY LenProperties, ElementOfSeq DEF ToSet

\* A list that repeats no id has as many entries as ids.
LEMMA IdsCounted ==
  ASSUME NEW S, NEW s \in Seq(S), IsInjective(s)
  PROVE  /\ Cardinality(ToSet(s)) = Len(s)
         /\ s \in [1..Len(s) -> ToSet(s)]
<1>1. Len(s) \in Nat /\ DOMAIN s = 1..Len(s) /\ s \in [1..Len(s) -> S]
  BY LenProperties
<1>2. s \in [1..Len(s) -> ToSet(s)]
  BY <1>1 DEF ToSet
<1>3. s \in Bijection(1..Len(s), ToSet(s))
  BY <1>1, <1>2 DEF Bijection, Injection, Surjection, IsInjective, ToSet
<1>4. ExistsBijection(1..Len(s), ToSet(s))
  BY <1>3 DEF ExistsBijection
<1> QED BY <1>1, <1>2, <1>4, FS_CountingElements

\* A list of members of S is one of members of any set that S is part of.
LEMMA SeqWidens == ASSUME NEW S, NEW T, S \subseteq T, NEW s \in Seq(S) PROVE s \in Seq(T)
<1>1. Len(s) \in Nat /\ s = [i \in 1..Len(s) |-> s[i]] /\ \A i \in 1..Len(s) : s[i] \in T
  BY LenProperties, ElementOfSeq
<1> QED BY <1>1, IsASeq

\* A list no longer than a bound is a list.
LEMMA Shorter == ASSUME NEW S, NEW n, NEW s \in BoundedSeq(S, n), n \in Nat PROVE s \in Seq(S)
<1>1. PICK m \in 0..n : s \in [1..m -> S]
  BY DEF BoundedSeq, SeqOf
<1> QED BY <1>1, SeqDef

\* Without takes out an id, and nothing else.
LEMMA WithoutIds ==
  ASSUME NEW S, NEW s \in Seq(S), NEW x, IsInjective(s)
  PROVE  /\ Without(s, x) \in Seq(S)
         /\ ToSet(Without(s, x)) = ToSet(s) \ {x}
         /\ IsInjective(Without(s, x))
<1>1. CASE x \notin ToSet(s)
  BY <1>1 DEF Without
<1>2. CASE x \in ToSet(s)
  <2> DEFINE i == CHOOSE k \in 1..Len(s) : s[k] = x
  <2>1. i \in 1..Len(s) /\ s[i] = x
    BY <1>2, LenProperties DEF ToSet
  <2>2. Without(s, x) = RemoveAt(s, i)
    BY <1>2 DEF Without
  <2> HIDE DEF i
  <2> QED BY <2>1, <2>2, RemoveAtEntries, RemoveAtIds
<1> QED BY <1>1, <1>2

\* Put adds an id, and nothing else.
LEMMA PutIds ==
  ASSUME NEW S, NEW s \in Seq(S), NEW x \in S, IsInjective(s)
  PROVE  /\ Put(s, x) \in Seq(S)
         /\ ToSet(Put(s, x)) = ToSet(s) \cup {x}
         /\ IsInjective(Put(s, x))
<1>1. CASE x \notin ToSet(s)
  BY <1>1, AppendIds DEF Put
<1>2. CASE x \in ToSet(s)
  BY <1>2 DEF Put
<1> QED BY <1>1, <1>2

-----------------------------------------------------------------------------
(* Lists in order. *)

\* R puts any two members of S in one order.
Orders(R, S) ==
  /\ \A a, b \in S : a = b \/ <<a, b>> \in R \/ <<b, a>> \in R
  /\ \A a, b \in S : <<a, b>> \in R => <<b, a>> \notin R
  /\ \A a, b, c \in S : <<a, b>> \in R /\ <<b, c>> \in R => <<a, c>> \in R

\* s lists S in the order of R.
InOrder(s, S, R) ==
  /\ s \in [1..Cardinality(S) -> S]
  /\ \A i, j \in 1..Cardinality(S) : i < j => <<s[i], s[j]>> \in R

LEMMA LeastOf ==
  ASSUME NEW T, T \subseteq Nat, T # {}
  PROVE  \E n \in T : \A m \in T : n <= m
<1>1. PICK n \in T : \A m \in T : ~(<<m, n>> \in OpToRel(<, Nat))
  BY NatLessThanWellFounded, WFMin
<1>2. \A m \in T : ~(m < n)
  BY <1>1 DEF OpToRel
<1> QED BY <1>2

LEMMA GreatestOf ==
  ASSUME NEW n \in Nat, NEW T \in SUBSET (1..n), T # {}
  PROVE  \E x \in T : \A y \in T : y <= x
<1> DEFINE D == {n - x : x \in T}
<1>1. D \subseteq Nat /\ D # {}
  OBVIOUS
<1>2. PICK d \in D : \A e \in D : d <= e
  <2> HIDE DEF D
  <2> QED BY <1>1, LeastOf
<1>3. PICK x \in T : d = n - x
  OBVIOUS
<1>4. ASSUME NEW y \in T PROVE y <= x
  <2>1. n - x <= n - y
    BY <1>2, <1>3
  <2> QED BY <2>1
<1> QED BY <1>4

\* x goes into a list in order before the first that comes after it.
LEMMA Inserted ==
  ASSUME NEW S, IsFiniteSet(S), NEW R, Orders(R, S), NEW x \in S,
         NEW s, InOrder(s, S \ {x}, R)
  PROVE  \E t : InOrder(t, S, R)
<1> DEFINE n == Cardinality(S)
           T == {i \in 1..n : i = n \/ <<x, s[i]>> \in R}
<1>1. n \in Nat /\ Cardinality(S \ {x}) = n - 1 /\ n >= 1
  <2>1. n \in Nat /\ Cardinality(S \ {x}) = n - 1
    BY FS_CardinalityType, FS_RemoveElement
  <2>2. n # 0
    BY FS_EmptySet
  <2> QED BY <2>1, <2>2
<1>2. /\ \A i \in 1..n - 1 : s[i] \in S /\ s[i] # x
      /\ \A i, j \in 1..n - 1 : i < j => <<s[i], s[j]>> \in R
  BY <1>1 DEF InOrder
<1> HIDE DEF n
<1>3. PICK k \in T : \A i \in T : k <= i
  <2>1. n \in T /\ T \subseteq Nat
    BY <1>1
  <2> QED BY <2>1, LeastOf
<1>4. k \in 1..n /\ (k # n => <<x, s[k]>> \in R)
  BY <1>3
<1>5. ASSUME NEW i \in 1..n - 1, i < k PROVE <<s[i], x>> \in R
  <2>1. i \in 1..n /\ i # n /\ i \notin T
    BY <1>1, <1>3, <1>4, <1>5
  <2>2. <<x, s[i]>> \notin R
    BY <2>1
  <2> QED BY <1>2, <2>2 DEF Orders
<1>6. ASSUME NEW i \in 1..n - 1, k <= i PROVE <<x, s[i]>> \in R
  <2>1. k \in 1..n - 1 /\ <<x, s[k]>> \in R
    BY <1>1, <1>4, <1>6
  <2>2. CASE i = k
    BY <2>1, <2>2
  <2>3. CASE i # k
    <3>1. <<s[k], s[i]>> \in R
      BY <1>1, <1>2, <1>6, <2>1, <2>3
    <3> QED BY <1>2, <2>1, <3>1 DEF Orders
  <2> QED BY <2>2, <2>3
<1> DEFINE t == [i \in 1..n |-> IF i < k THEN s[i] ELSE IF i = k THEN x ELSE s[i - 1]]
<1>7. ASSUME NEW i \in 1..n
      PROVE  /\ i < k => i \in 1..n - 1 /\ t[i] = s[i]
             /\ i = k => t[i] = x
             /\ i > k => i - 1 \in 1..n - 1 /\ t[i] = s[i - 1]
  BY <1>1, <1>4
<1>8. t \in [1..n -> S]
  <2>1. \A i \in 1..n : t[i] \in S
    BY <1>1, <1>2, <1>4, <1>7
  <2> QED BY <2>1
<1>9. ASSUME NEW i \in 1..n, NEW j \in 1..n, i < j PROVE <<t[i], t[j]>> \in R
  <2>1. CASE j < k
    <3>1. i < k
      BY <1>1, <1>4, <1>9, <2>1
    <3> QED BY <1>2, <1>7, <1>9, <2>1, <3>1
  <2>2. CASE j = k
    BY <1>5, <1>7, <1>9, <2>2
  <2>3. CASE j > k
    <3>1. CASE i < k
      <4>1. i \in 1..n - 1 /\ j - 1 \in 1..n - 1 /\ i < j - 1
        BY <1>1, <1>4, <1>7, <2>3, <3>1
      <4> QED BY <1>2, <1>7, <2>3, <3>1, <4>1
    <3>2. CASE i = k
      <4>1. j - 1 \in 1..n - 1 /\ k <= j - 1
        BY <1>1, <1>4, <1>7, <2>3
      <4> QED BY <1>6, <1>7, <2>3, <3>2, <4>1
    <3>3. CASE i > k
      <4>1. i - 1 \in 1..n - 1 /\ j - 1 \in 1..n - 1 /\ i - 1 < j - 1
        BY <1>1, <1>4, <1>7, <1>9, <2>3, <3>3
      <4> QED BY <1>2, <1>7, <2>3, <3>3, <4>1
    <3> QED BY <1>4, <3>1, <3>2, <3>3
  <2> QED BY <1>4, <2>1, <2>2, <2>3
<1> HIDE DEF t
<1> QED BY <1>8, <1>9 DEF InOrder, n

\* A finite set can be listed in order: of the sizes of its subsets that cannot there
\* would be a least one.
LEMMA OrderExists ==
  ASSUME NEW S, IsFiniteSet(S), NEW R, Orders(R, S)
  PROVE  \E s : InOrder(s, S, R)
<1> DEFINE Bad == {U \in SUBSET S : ~\E s : InOrder(s, U, R)}
           Sizes == {Cardinality(U) : U \in Bad}
<1>1. ASSUME NEW U \in SUBSET S PROVE IsFiniteSet(U) /\ Cardinality(U) \in Nat /\ Orders(R, U)
  BY FS_Subset, FS_CardinalityType DEF Orders
<1>2. SUFFICES Bad = {}
  OBVIOUS
<1>3. SUFFICES ASSUME Bad # {} PROVE FALSE
  OBVIOUS
<1>4. Sizes \subseteq Nat /\ Sizes # {}
  BY <1>1, <1>3
<1>5. PICK n \in Sizes : \A m \in Sizes : n <= m
  <2> HIDE DEF Sizes
  <2> QED BY <1>4, LeastOf
<1>6. PICK U \in Bad : Cardinality(U) = n /\ \A V \in Bad : n <= Cardinality(V)
  BY <1>5
<1>7. U \in SUBSET S /\ n \in Nat
  BY <1>1, <1>6
<1>8. CASE U = {}
  <2>1. Cardinality(U) = 0
    BY <1>8, FS_EmptySet
  <2>2. InOrder([i \in 1..0 |-> i], U, R)
    BY <2>1 DEF InOrder
  <2> QED BY <1>6, <2>2
<1>9. CASE U # {}
  <2>1. PICK x \in U : TRUE
    BY <1>9
  <2>2. Cardinality(U \ {x}) = n - 1
    BY <1>1, <1>6, <1>7, <2>1, FS_RemoveElement
  <2>3. U \ {x} \notin Bad
    <3>1. ~(n <= n - 1)
      BY <1>7
    <3> QED BY <1>6, <2>2, <3>1
  <2>4. PICK s : InOrder(s, U \ {x}, R)
    BY <1>7, <2>3
  <2>5. \E t : InOrder(t, U, R)
    <3> HIDE DEF Bad
    <3> QED BY <1>1, <1>7, <2>1, <2>4, Inserted
  <2> QED BY <1>6, <2>5
<1> QED BY <1>8, <1>9

\* A list in order has every member once.
LEMMA OrderLists ==
  ASSUME NEW S, IsFiniteSet(S), NEW R, Orders(R, S), NEW s, InOrder(s, S, R)
  PROVE  /\ s \in Seq(S) /\ Len(s) = Cardinality(S) /\ IsInjective(s) /\ ToSet(s) = S
         /\ \A x \in S : \E i \in 1..Cardinality(S) : s[i] = x
<1> DEFINE n == Cardinality(S)
<1>1. n \in Nat
  BY FS_CardinalityType
<1>2. s \in [1..n -> S] /\ \A i, j \in 1..n : i < j => <<s[i], s[j]>> \in R
  BY DEF InOrder
<1>3. s \in Seq(S) /\ Len(s) = n
  BY <1>1, <1>2, SeqDef, LenProperties
<1>4. IsInjective(s)
  <2> SUFFICES ASSUME NEW i \in 1..n, NEW j \in 1..n, s[i] = s[j] PROVE i = j
    BY <1>2 DEF IsInjective
  <2>1. s[i] \in S /\ <<s[i], s[i]>> \notin R
    BY <1>2 DEF Orders
  <2> QED BY <1>1, <1>2, <2>1
<1>5. IsFiniteSet(1..n) /\ Cardinality(1..n) = n
  <2>1. n \in Int /\ 1 \in Int /\ IF 1 > n THEN n = 0 ELSE n - 1 + 1 = n
    BY <1>1
  <2> HIDE DEF n
  <2> QED BY <1>1, <2>1, FS_Interval
<1>6. s \in Surjection(1..n, S)
  <2>1. s \in Injection(1..n, S)
    BY <1>2, <1>4 DEF Injection, IsInjective
  <2> QED BY <1>5, <2>1, FS_Injection
<1>7. \A x \in S : \E i \in 1..n : s[i] = x
  BY <1>6 DEF Surjection
<1>8. ToSet(s) = S
  BY <1>2, <1>7 DEF ToSet
<1> QED BY <1>3, <1>4, <1>7, <1>8

\* There is one list in order.
LEMMA OrderUnique ==
  ASSUME NEW S, IsFiniteSet(S), NEW R, Orders(R, S),
         NEW s, InOrder(s, S, R), NEW t, InOrder(t, S, R)
  PROVE  s = t
<1> DEFINE n == Cardinality(S)
           Differ == {i \in 1..n : s[i] # t[i]}
<1>1. n \in Nat
  BY FS_CardinalityType
<1>2. /\ s \in [1..n -> S] /\ \A i, j \in 1..n : i < j => <<s[i], s[j]>> \in R
      /\ t \in [1..n -> S] /\ \A i, j \in 1..n : i < j => <<t[i], t[j]>> \in R
  BY DEF InOrder
<1>3. SUFFICES ASSUME Differ # {} PROVE FALSE
  <2>1. ASSUME Differ = {} PROVE s = t
    <3>1. \A i \in 1..n : s[i] = t[i]
      BY <2>1
    <3>2. s \in Seq(S) /\ t \in Seq(S) /\ Len(s) = n /\ Len(t) = n
      BY OrderLists
    <3> HIDE DEF n, Differ
    <3> QED BY <3>1, <3>2, SeqEqual
  <2> QED BY <2>1
<1>4. PICK k \in Differ : \A i \in Differ : k <= i
  <2>1. Differ \subseteq Nat
    OBVIOUS
  <2> HIDE DEF Differ
  <2> QED BY <1>3, <2>1, LeastOf
<1>5. k \in 1..n /\ s[k] # t[k] /\ \A i \in 1..n : i < k => s[i] = t[i]
  BY <1>4
\* What one has at the k-th place the other has at a later one.
<1>6. PICK i \in 1..n : s[i] = t[k]
  <2>1. \A x \in S : \E i \in 1..n : s[i] = x
    BY OrderLists
  <2> QED BY <1>2, <1>5, <2>1
<1>7. PICK j \in 1..n : t[j] = s[k]
  <2>1. \A x \in S : \E j \in 1..n : t[j] = x
    BY OrderLists
  <2> QED BY <1>2, <1>5, <2>1
<1>8. \A x \in S : <<x, x>> \notin R
  BY DEF Orders
<1>9. i > k
  <2>1. i # k
    BY <1>5, <1>6
  <2>2. ~(i < k)
    <3> SUFFICES ASSUME i < k PROVE FALSE
      OBVIOUS
    <3>1. t[i] = t[k] /\ <<t[i], t[k]>> \in R /\ t[k] \in S
      BY <1>2, <1>5, <1>6
    <3> QED BY <1>8, <3>1
  <2> QED BY <1>5, <2>1, <2>2
<1>10. j > k
  <2>1. j # k
    BY <1>5, <1>7
  <2>2. ~(j < k)
    <3> SUFFICES ASSUME j < k PROVE FALSE
      OBVIOUS
    <3>1. s[j] = s[k] /\ <<s[j], s[k]>> \in R /\ s[k] \in S
      BY <1>2, <1>5, <1>7
    <3> QED BY <1>8, <3>1
  <2> QED BY <1>5, <2>1, <2>2
<1>11. <<s[k], t[k]>> \in R /\ <<t[k], s[k]>> \in R /\ s[k] \in S /\ t[k] \in S
  BY <1>2, <1>5, <1>6, <1>7, <1>9, <1>10
<1> QED BY <1>11 DEF Orders
=============================================================================
