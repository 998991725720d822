--------------------------- MODULE PositionsProofs ---------------------------
(***************************************************************************)
(* Facts about sets of positions and about the slices of a sequence.       *)
(***************************************************************************)
EXTENDS Positions, Integers, Sequences, Functions, FiniteSetTheorems,
        SequenceTheorems, WellFoundedInduction, TLAPS

-----------------------------------------------------------------------------
(* Sets of numbers.  Every non-empty set of naturals has a least element:  *)
(* what an induction over numbers amounts to where the induction theorems  *)
(* of the library, which take an operator, cannot be instantiated.         *)
LEMMA LeastNat ==
  ASSUME NEW S \in SUBSET Nat, S # {}
  PROVE  \E m \in S : \A k \in S : m <= k
  <1> DEFINE Below == {0..m : m \in S}
             R     == StrictSubsetOrdering(Nat)
  <1>1. Below \subseteq FiniteSubsetsOf(Nat) /\ Below # {}
    <2>1. \A m \in S : IsFiniteSet(0..m) /\ 0..m \subseteq Nat
      BY FS_Interval
    <2> QED
      BY <2>1 DEF FiniteSubsetsOf
  <1>2. \E s \in Below : \A r \in Below : ~ (<<r, s>> \in R)
    <2>1. IsWellFoundedOn(R, FiniteSubsetsOf(Nat))
      BY FS_StrictSubsetOrderingWellFounded
    <2> HIDE DEF Below, R
    <2> QED
      BY <1>1, <2>1, WFMin
  <1>3. PICK m \in S : \A k \in S : ~ (<<0..k, 0..m>> \in R)
    BY <1>2
  <1>4. ASSUME NEW k \in S PROVE m <= k
    <2>1. ASSUME k < m PROVE <<0..k, 0..m>> \in R
      <3>1. m \in 0..m /\ m \notin 0..k
        BY <2>1
      <3>2. 0..k \subseteq Nat /\ 0..m \subseteq Nat /\ 0..k \subseteq 0..m /\ 0..k # 0..m
        BY <2>1, <3>1
      <3> QED
        BY <3>2 DEF StrictSubsetOrdering
    <2> HIDE DEF R
    <2> QED
      BY <1>3, <2>1
  <1> QED
    BY <1>4

(* The numbers of a finite set can be counted off in order.                *)
LEMMA NthFacts ==
  ASSUME NEW S \in SUBSET Nat, IsFiniteSet(S), NEW n \in 1..Cardinality(S)
  PROVE  Nth(n, S) \in S /\ Cardinality({j \in S : j <= Nth(n, S)}) = n
  <1> DEFINE Low(i) == {j \in S : j <= i}
  <1>1. PICK total \in Nat : total = Cardinality(S)
    BY FS_CardinalityType
  <1>2. PICK rank : rank = [i \in S |-> Cardinality(Low(i))]
    OBVIOUS
  <1>a. \A i \in S : i \in Nat
    OBVIOUS
  <1>b. ASSUME NEW i \in S, NEW k \in S, i < k
        PROVE  Low(i) \in SUBSET Low(k) /\ k \notin Low(i)
    <2>1. i \in Nat /\ k \in Nat /\ \A j \in S : j <= i => j <= k
      BY <1>a, <1>b
    <2>2. Low(i) \subseteq Low(k)
      BY <2>1
    <2>3. ~(k <= i)
      BY <1>b, <2>1
    <2> QED
      BY <2>2, <2>3
  <1>3. /\ \A i \in S : Low(i) \in SUBSET S /\ i \in Low(i)
        /\ \A i, k \in S : i < k => Low(i) \in SUBSET Low(k) /\ k \notin Low(i) /\ k \in Low(k)
    BY <1>a, <1>b
  <1> HIDE DEF Low
  <1>4. ASSUME NEW i \in S PROVE IsFiniteSet(Low(i)) /\ rank[i] \in 1..total
    <2>1. /\ IsFiniteSet(Low(i)) /\ Cardinality(Low(i)) \in Nat
          /\ Cardinality(Low(i)) <= total
      BY <1>1, <1>3, FS_Subset, FS_CardinalityType
    <2>2. Cardinality(Low(i)) # 0
      BY <1>3, <2>1, FS_EmptySet
    <2> QED
      BY <1>2, <2>1, <2>2
  <1>5. ASSUME NEW i \in S, NEW k \in S, i < k PROVE rank[i] # rank[k]
    <2>1. Low(i) \in SUBSET Low(k) /\ Low(i) # Low(k)
      BY <1>3, <1>5
    <2>2. Cardinality(Low(i)) # Cardinality(Low(k))
      BY <1>4, <2>1, FS_Subset
    <2> QED
      BY <1>2, <2>2
  <1>6. rank \in [S -> 1..total]
    BY <1>2, <1>4
  <1>7. \A i, k \in S : rank[i] = rank[k] => i = k
    BY <1>5
  <1>8. rank \in Injection(S, 1..total)
    BY <1>6, <1>7 DEF Injection, IsInjective
  <1>9. IsFiniteSet(1..total) /\ Cardinality(1..total) = total
    BY FS_Interval
  <1>10. rank \in Surjection(S, 1..total)
    BY <1>1, <1>8, <1>9, FS_Injection
  <1>11. PICK i \in S : rank[i] = n
    BY <1>1, <1>10 DEF Surjection
  <1>12. i \in S /\ Cardinality({j \in S : j <= i}) = n
    BY <1>2, <1>11 DEF Low
  <1> QED
    BY <1>12 DEF Nth

-----------------------------------------------------------------------------
(* Ascending sequences, and what Ascending makes of a set of positions.      *)
Ascends(s) == \A k, l \in 1..Len(s) : k < l => s[k] < s[l]

LEMMA ElementsOfRange ==
  ASSUME NEW A, NEW s \in Seq(A)
  PROVE  /\ Range(s) \subseteq A
         /\ \A k \in 1..Len(s) : s[k] \in Range(s)
         /\ \A i \in Range(s) : \E k \in 1..Len(s) : s[k] = i
  BY DEF Range

LEMMA AscendingCount ==
  ASSUME NEW s \in Seq(Nat), Ascends(s)
  PROVE  IsFiniteSet(Range(s)) /\ Cardinality(Range(s)) = Len(s)
  <1>1. PICK n \in Nat : n = Len(s)
    OBVIOUS
  <1>2. \A k \in 1..n : s[k] \in Nat
    BY <1>1
  <1>3. \A k, l \in 1..n : s[k] = s[l] => k = l
    BY <1>1, <1>2 DEF Ascends
  <1>4. s \in [1..n -> Range(s)]
    BY <1>1, ElementsOfRange
  <1>5. s \in Injection(1..n, Range(s))
    BY <1>3, <1>4 DEF Injection, IsInjective
  <1>6. s \in Surjection(1..n, Range(s))
    BY <1>1, <1>4, ElementsOfRange DEF Surjection
  <1>7. IsFiniteSet(1..n) /\ Cardinality(1..n) = n
    BY FS_Interval
  <1> QED
    BY <1>1, <1>5, <1>6, <1>7, FS_Surjection

LEMMA AscendingNth ==
  ASSUME NEW s \in Seq(Nat), Ascends(s), NEW n \in 1..Len(s)
  PROVE  Cardinality({j \in Range(s) : j <= s[n]}) = n
  <1>1. PICK h : h = [l \in 1..n |-> s[l]]
    OBVIOUS
  <1>2. /\ \A l \in 1..n : l \in 1..Len(s) /\ s[l] \in Nat
        /\ n \in Nat
    OBVIOUS
  <1>3. h \in Seq(Nat) /\ Len(h) = n /\ \A l \in 1..n : h[l] = s[l]
    BY <1>1, <1>2
  <1>4. Ascends(h)
    BY <1>2, <1>3 DEF Ascends
  <1>5. Range(h) = {j \in Range(s) : j <= s[n]}
    <2>1. ASSUME NEW j \in Range(h) PROVE j \in Range(s) /\ j <= s[n]
      <3>1. PICK l \in 1..n : j = s[l]
        <4>1. PICK l \in 1..Len(h) : h[l] = j
          BY <1>3, ElementsOfRange
        <4> QED
          BY <1>3, <4>1
      <3>2. l \in 1..Len(s) /\ s[l] \in Nat /\ s[n] \in Nat /\ (l = n \/ l < n)
        BY <1>2
      <3> QED
        BY <3>1, <3>2, ElementsOfRange DEF Ascends
    <2>2. ASSUME NEW j \in Range(s), j <= s[n] PROVE j \in Range(h)
      <3>1. PICK l \in 1..Len(s) : j = s[l]
        BY ElementsOfRange
      <3>2. l \in Nat /\ s[l] \in Nat /\ s[n] \in Nat
        BY <1>2
      <3>3. l <= n
        BY <1>2, <2>2, <3>1, <3>2 DEF Ascends
      <3>4. l \in 1..n
        BY <1>2, <3>3
      <3> QED
        BY <1>3, <3>1, <3>4, ElementsOfRange
    <2> QED
      BY <2>1, <2>2
  <1> QED
    BY <1>3, <1>4, <1>5, AscendingCount

(* There is one ascending sequence of the elements of a set.               *)
LEMMA OnlyOrder ==
  ASSUME NEW s \in Seq(Nat), Ascends(s)
  PROVE  Ascending(Range(s)) = s
  <1>1. PICK S : S = Range(s)
    OBVIOUS
  <1>2. S \in SUBSET Nat /\ IsFiniteSet(S) /\ Cardinality(S) = Len(s)
    BY <1>1, AscendingCount, ElementsOfRange
  <1>3. ASSUME NEW n \in 1..Len(s) PROVE Nth(n, S) = s[n]
    <2>1. Nth(n, S) \in S /\ Cardinality({j \in S : j <= Nth(n, S)}) = n
      BY <1>2, <1>3, NthFacts
    <2>2. PICK m \in 1..Len(s) : s[m] = Nth(n, S)
      BY <1>1, <2>1, ElementsOfRange
    <2>3. Cardinality({j \in S : j <= s[m]}) = m
      BY <1>1, <2>2, AscendingNth
    <2> QED
      BY <2>1, <2>2, <2>3
  <1>4. s = [n \in 1..Len(s) |-> s[n]]
    OBVIOUS
  <1>5. Ascending(S) = [n \in 1..Len(s) |-> Nth(n, S)]
    BY <1>2 DEF Ascending
  <1> QED
    BY <1>1, <1>3, <1>4, <1>5

LEMMA AscendingFacts ==
  ASSUME NEW S \in SUBSET Nat, IsFiniteSet(S)
  PROVE  /\ Ascending(S) \in Seq(Nat)
         /\ Len(Ascending(S)) = Cardinality(S)
         /\ Ascends(Ascending(S))
         /\ Range(Ascending(S)) = S
  <1>1. PICK c \in Nat : c = Cardinality(S)
    BY FS_CardinalityType
  <1>2. PICK s : s = Ascending(S)
    OBVIOUS
  <1>3. \A n \in 1..c : Nth(n, S) \in S /\ Cardinality({j \in S : j <= Nth(n, S)}) = n
    BY <1>1, NthFacts
  <1>4. /\ s \in Seq(Nat) /\ Len(s) = c
        /\ \A n \in 1..c : s[n] = Nth(n, S)
    <2>1. s = [n \in 1..c |-> Nth(n, S)]
      BY <1>1, <1>2 DEF Ascending
    <2>2. \A n \in 1..c : Nth(n, S) \in Nat
      BY <1>3
    <2> QED
      BY <2>1, <2>2
  <1>5. ASSUME NEW k \in 1..c, NEW l \in 1..c, k < l PROVE s[k] < s[l]
    <2>1. s[k] \in Nat /\ s[l] \in Nat
      BY <1>4
    <2>2. ASSUME s[l] <= s[k] PROVE FALSE
      <3>1. PICK T : T = {j \in S : j <= s[l]}
        OBVIOUS
      <3>2. PICK U : U = {j \in S : j <= s[k]}
        OBVIOUS
      <3>3. \A j \in S : j \in Nat
        OBVIOUS
      <3>4. T \in SUBSET U /\ U \in SUBSET S
        <4>1. \A j \in S : j <= s[l] => j <= s[k]
          BY <2>1, <2>2, <3>3
        <4> QED
          BY <3>1, <3>2, <4>1
      <3>5. IsFiniteSet(U)
        BY <3>4, FS_Subset
      <3>6. Cardinality(T) = l /\ Cardinality(U) = k
        BY <1>3, <1>4, <3>1, <3>2
      <3>7. Cardinality(T) <= Cardinality(U)
        BY <3>4, <3>5, FS_Subset
      <3> QED
        BY <1>5, <3>6, <3>7
    <2> QED
      BY <2>1, <2>2
  <1>6. Ascends(s)
    BY <1>4, <1>5 DEF Ascends
  <1>7. Range(s) \in SUBSET S
    <2>1. \A n \in 1..Len(s) : s[n] \in S
      BY <1>3, <1>4
    <2>2. \A i \in Range(s) : \E n \in 1..Len(s) : s[n] = i
      BY <1>4, ElementsOfRange
    <2> QED
      BY <2>1, <2>2
  <1>8. Cardinality(Range(s)) = c
    BY <1>4, <1>6, AscendingCount
  <1>9. Range(s) = S
    BY <1>1, <1>7, <1>8, FS_Subset
  <1> QED
    BY <1>1, <1>2, <1>4, <1>6, <1>9

(* Every position is the nth one for some n.                               *)
LEMMA NthOnto ==
  ASSUME NEW T \in SUBSET Nat, IsFiniteSet(T), NEW x \in T
  PROVE  \E n \in 1..Cardinality(T) : Nth(n, T) = x
  <1>1. PICK s : s = Ascending(T)
    OBVIOUS
  <1>2. x \in Range(s)
    BY <1>1, AscendingFacts
  <1>3. PICK n \in DOMAIN s : s[n] = x
    BY <1>2 DEF Range
  <1> QED
    BY <1>1, <1>3 DEF Ascending

(* A greater position comes last, and one that is taken out leaves the     *)
(* order of the others alone.                                              *)
LEMMA AscendingAppend ==
  ASSUME NEW S \in SUBSET Nat, IsFiniteSet(S), NEW x \in Nat, \A k \in S : k < x
  PROVE  Ascending(S \cup {x}) = Append(Ascending(S), x)
  <1>1. PICK s : s = Ascending(S)
    OBVIOUS
  <1>2. s \in Seq(Nat) /\ Ascends(s) /\ Range(s) = S
    BY <1>1, AscendingFacts
  <1>3. PICK n \in Nat : n = Len(s)
    BY <1>2
  <1>4. PICK t : t = Append(s, x)
    OBVIOUS
  <1>5. /\ t \in Seq(Nat) /\ Len(t) = n + 1 /\ t[n + 1] = x
        /\ \A k \in 1..n : t[k] = s[k]
    BY <1>2, <1>3, <1>4
  <1>6. \A k \in 1..n : s[k] \in S
    BY <1>2, <1>3, ElementsOfRange
  <1>7. Ascends(t)
    <2> SUFFICES ASSUME NEW k \in 1..(n + 1), NEW l \in 1..(n + 1), k < l
                 PROVE  t[k] < t[l]
      BY <1>5 DEF Ascends
    <2>1. k \in 1..n /\ (l \in 1..n \/ l = n + 1)
      OBVIOUS
    <2>2. CASE l \in 1..n
      BY <1>2, <1>3, <1>5, <2>1, <2>2 DEF Ascends
    <2>3. CASE l = n + 1
      BY <1>5, <1>6, <2>1, <2>3
    <2> QED
      BY <2>1, <2>2, <2>3
  <1>8. Range(t) = S \cup {x}
    <2>1. ASSUME NEW y \in Range(t) PROVE y \in S \cup {x}
      <3>1. PICK k \in 1..(n + 1) : t[k] = y
        BY <1>5, ElementsOfRange
      <3>2. k \in 1..n \/ k = n + 1
        OBVIOUS
      <3> QED
        BY <1>5, <1>6, <3>1, <3>2
    <2>2. ASSUME NEW y \in S PROVE y \in Range(t)
      <3>1. PICK k \in 1..n : s[k] = y
        BY <1>2, <1>3, ElementsOfRange
      <3>2. k \in 1..Len(t) /\ t[k] = y
        BY <1>5, <3>1
      <3> QED
        BY <1>5, <3>2, ElementsOfRange
    <2>3. x \in Range(t)
      <3>1. n + 1 \in 1..Len(t)
        BY <1>5
      <3> QED
        BY <1>5, <3>1, ElementsOfRange
    <2> QED
      BY <2>1, <2>2, <2>3
  <1> QED
    BY <1>1, <1>4, <1>5, <1>7, <1>8, OnlyOrder

Skips(t, s, p, n) ==
  /\ Len(t) = n - 1
  /\ \A k \in 1..(n - 1) : t[k] = IF k < p THEN s[k] ELSE s[k + 1]

LEMMA AscendingWithout ==
  ASSUME NEW S \in SUBSET Nat, IsFiniteSet(S), NEW s, s = Ascending(S),
         NEW n \in Nat, n = Len(s), NEW p \in 1..n,
         NEW t \in Seq(Nat), Skips(t, s, p, n)
  PROVE  Ascending(S \ {s[p]}) = t
  <1>0. /\ Len(t) = n - 1
        /\ \A k \in 1..(n - 1) : t[k] = IF k < p THEN s[k] ELSE s[k + 1]
    BY DEF Skips
  <1>1. s \in Seq(Nat) /\ Ascends(s) /\ Range(s) = S
    BY AscendingFacts
  <1>2. \A k \in 1..n : s[k] \in Nat
    BY <1>1
  <1>3. ASSUME NEW k \in 1..(n - 1)
        PROVE  \E a \in 1..n : t[k] = s[a] /\ a = IF k < p THEN k ELSE k + 1
    <2>1. CASE k < p
      <3>1. k \in 1..n /\ t[k] = s[k]
        BY <1>0, <2>1
      <3> QED
        BY <2>1, <3>1
    <2>2. CASE ~(k < p)
      <3>1. k + 1 \in 1..n /\ t[k] = s[k + 1]
        BY <1>0, <2>2
      <3> QED
        BY <2>2, <3>1
    <2> QED
      BY <2>1, <2>2
  <1>4. Ascends(t)
    <2> SUFFICES ASSUME NEW k \in 1..(n - 1), NEW l \in 1..(n - 1), k < l
                 PROVE  t[k] < t[l]
      BY <1>0 DEF Ascends
    <2>1. PICK a \in 1..n : t[k] = s[a] /\ a = IF k < p THEN k ELSE k + 1
      BY <1>3
    <2>2. PICK b \in 1..n : t[l] = s[b] /\ b = IF l < p THEN l ELSE l + 1
      BY <1>3
    <2>3. a < b
      BY <2>1, <2>2
    <2> QED
      BY <1>1, <2>1, <2>2, <2>3 DEF Ascends
  <1>5. Range(t) = S \ {s[p]}
    <2>1. ASSUME NEW y \in Range(t) PROVE y \in S /\ y # s[p]
      <3>1. PICK k \in 1..(n - 1) : t[k] = y
        <4>1. PICK k \in 1..Len(t) : t[k] = y
          BY ElementsOfRange
        <4> QED
          BY <1>0, <4>1
      <3>2. PICK a \in 1..n : t[k] = s[a] /\ a # p
        <4>1. PICK a \in 1..n : t[k] = s[a] /\ a = IF k < p THEN k ELSE k + 1
          BY <1>3
        <4> QED
          BY <4>1
      <3>3. a < p \/ p < a
        BY <3>2
      <3>4. s[a] # s[p]
        BY <1>1, <1>2, <3>3 DEF Ascends
      <3> QED
        BY <1>1, <3>1, <3>2, <3>4, ElementsOfRange
    <2>2. ASSUME NEW y \in S, y # s[p] PROVE y \in Range(t)
      <3>1. PICK a \in 1..n : s[a] = y
        BY <1>1, ElementsOfRange
      <3>2. PICK k \in 1..(n - 1) : t[k] = y
        <4>1. CASE a < p
          <5>1. a \in 1..(n - 1) /\ t[a] = s[a]
            BY <1>0, <4>1
          <5> QED
            BY <3>1, <5>1
        <4>2. CASE p < a
          <5>1. a - 1 \in 1..(n - 1) /\ ~(a - 1 < p) /\ (a - 1) + 1 = a
            BY <4>2
          <5>2. t[a - 1] = s[a]
            BY <1>0, <5>1
          <5> QED
            BY <3>1, <5>1, <5>2
        <4> QED
          BY <2>2, <3>1, <4>1, <4>2
      <3> QED
        BY <1>0, <3>2, ElementsOfRange
    <2> QED
      BY <2>1, <2>2
  <1> QED
    BY <1>4, <1>5, OnlyOrder

-----------------------------------------------------------------------------
(* The range [a, b) of a text.                                             *)
LEMMA SliceFacts ==
  ASSUME NEW A, NEW s \in Seq(A), NEW a \in Nat, NEW b \in Nat, a <= b, b <= Len(s)
  PROVE  /\ SubSeq(s, a + 1, b) \in Seq(A)
         /\ Len(SubSeq(s, a + 1, b)) = b - a
         /\ \A j \in 1..(b - a) : SubSeq(s, a + 1, b)[j] = s[a + j]
  <1>1. a + 1 \in Int /\ b \in Int /\ b - (a + 1) + 1 = b - a
        /\ (IF a + 1 <= b THEN b - (a + 1) + 1 ELSE 0) = b - a
    OBVIOUS
  <1>2. \A i \in (a + 1)..b : s[i] \in A
    OBVIOUS
  <1>3. \A j \in 1..(b - a) : (a + 1) + j - 1 = a + j
    OBVIOUS
  <1>4. PICK c : c = SubSeq(s, a + 1, b)
    OBVIOUS
  <1>5. /\ c \in Seq(A)
        /\ Len(c) = IF a + 1 <= b THEN b - (a + 1) + 1 ELSE 0
        /\ \A j \in 1..(b - (a + 1) + 1) : c[j] = s[(a + 1) + j - 1]
    BY <1>1, <1>2, <1>4, SubSeqProperties
  <1>6. Len(c) = b - a
    BY <1>1, <1>5
  <1>7. \A j \in 1..(b - a) : c[j] = s[a + j]
    BY <1>1, <1>3, <1>5
  <1> QED
    BY <1>4, <1>5, <1>6, <1>7

LEMMA HeadFacts ==
  ASSUME NEW A, NEW s \in Seq(A), NEW b \in Nat, b <= Len(s)
  PROVE  /\ SubSeq(s, 1, b) \in Seq(A)
         /\ Len(SubSeq(s, 1, b)) = b
         /\ \A j \in 1..b : SubSeq(s, 1, b)[j] = s[j]
  <1>1. 0 \in Nat /\ 0 <= b /\ 0 + 1 = 1 /\ b - 0 = b /\ \A j \in 1..b : 0 + j = j
    OBVIOUS
  <1>2. PICK c : c = SubSeq(s, 1, b)
    OBVIOUS
  <1>3. c = SubSeq(s, 0 + 1, b)
    BY <1>1, <1>2
  <1>4. c \in Seq(A) /\ Len(c) = b - 0 /\ \A j \in 1..(b - 0) : c[j] = s[0 + j]
    BY <1>1, <1>3, SliceFacts
  <1>5. c \in Seq(A) /\ Len(c) = b /\ \A j \in 1..b : c[j] = s[j]
    BY <1>1, <1>4
  <1> QED
    BY <1>2, <1>5

(* Ranges that meet.                                                       *)
LEMMA JoinSlices ==
  ASSUME NEW A, NEW s \in Seq(A), NEW a \in Nat, NEW b \in Nat, a <= b, b <= Len(s)
  PROVE  SubSeq(s, 1, a) \o SubSeq(s, a + 1, b) = SubSeq(s, 1, b)
  <1>1. PICK x : x = SubSeq(s, 1, a)
    OBVIOUS
  <1>2. PICK y : y = SubSeq(s, a + 1, b)
    OBVIOUS
  <1>3. PICK z : z = SubSeq(s, 1, b)
    OBVIOUS
  <1>4. a <= Len(s) /\ a + (b - a) = b
    OBVIOUS
  <1>5. x \in Seq(A) /\ Len(x) = a /\ \A j \in 1..a : x[j] = s[j]
    BY <1>1, <1>4, HeadFacts
  <1>6. y \in Seq(A) /\ Len(y) = b - a /\ \A j \in 1..(b - a) : y[j] = s[a + j]
    BY <1>2, SliceFacts
  <1>7. z \in Seq(A) /\ Len(z) = b /\ \A j \in 1..b : z[j] = s[j]
    BY <1>3, HeadFacts
  <1>8. PICK w : w = x \o y
    OBVIOUS
  <1>9. /\ w \in Seq(A) /\ Len(w) = a + (b - a)
        /\ \A j \in 1..(a + (b - a)) : w[j] = IF j <= a THEN x[j] ELSE y[j - a]
    <2>1. PICK m \in Nat : m = b - a
      OBVIOUS
    <2>2. Len(x) = a /\ Len(y) = m /\ x \in Seq(A) /\ y \in Seq(A)
      BY <1>5, <1>6, <2>1
    <2>3. /\ w \in Seq(A) /\ Len(w) = a + m
          /\ \A j \in 1..(a + m) : w[j] = IF j <= a THEN x[j] ELSE y[j - a]
      BY <1>8, <2>2, ConcatProperties
    <2> QED
      BY <2>1, <2>3
  <1>10. ASSUME NEW j \in 1..b PROVE w[j] = z[j]
    <2>1. CASE j <= a
      BY <1>4, <1>5, <1>7, <1>9, <2>1
    <2>2. CASE ~(j <= a)
      <3>1. j - a \in 1..(b - a) /\ a + (j - a) = j
        BY <2>2
      <3>2. w[j] = y[j - a]
        BY <1>4, <1>9, <2>2
      <3> QED
        BY <1>6, <1>7, <3>1, <3>2
    <2> QED
      BY <2>1, <2>2
  <1>11. w = z
    BY <1>4, <1>7, <1>9, <1>10, SeqEqual
  <1> QED
    BY <1>1, <1>2, <1>3, <1>8, <1>11

LEMMA WholeSlice ==
  ASSUME NEW A, NEW s \in Seq(A)
  PROVE  SubSeq(s, 1, Len(s)) = s
  <1>1. PICK c : c = SubSeq(s, 1, Len(s))
    OBVIOUS
  <1>2. c \in Seq(A) /\ Len(c) = Len(s) /\ \A j \in 1..Len(s) : c[j] = s[j]
    BY <1>1, HeadFacts
  <1> QED
    BY <1>1, <1>2, SeqEqual

(* What two texts put together is divided into again.                      *)
LEMMA CutJoined ==
  ASSUME NEW A, NEW x \in Seq(A), NEW y \in Seq(A), NEW a, a = Len(x)
  PROVE  /\ SubSeq(x \o y, 1, a) = x
         /\ SubSeq(x \o y, a + 1, Len(x \o y)) = y
  <1>1. PICK n \in Nat, m \in Nat : n = a /\ m = Len(y)
    OBVIOUS
  <1>2. PICK w : w = x \o y
    OBVIOUS
  <1>3. /\ w \in Seq(A) /\ Len(w) = n + m
        /\ \A j \in 1..(n + m) : w[j] = IF j <= n THEN x[j] ELSE y[j - n]
    BY <1>1, <1>2, ConcatProperties
  <1>4. PICK h : h = SubSeq(w, 1, n)
    OBVIOUS
  <1>5. PICK t : t = SubSeq(w, n + 1, n + m)
    OBVIOUS
  <1>6. n <= n + m /\ (n + m) - n = m /\ n + m \in Nat
    OBVIOUS
  <1>7. h \in Seq(A) /\ Len(h) = n /\ \A j \in 1..n : h[j] = w[j]
    BY <1>3, <1>4, <1>6, HeadFacts
  <1>8. t \in Seq(A) /\ Len(t) = m /\ \A j \in 1..m : t[j] = w[n + j]
    BY <1>3, <1>5, <1>6, SliceFacts
  <1>9. \A j \in 1..n : h[j] = x[j]
    BY <1>3, <1>6, <1>7
  <1>10. ASSUME NEW j \in 1..m PROVE t[j] = y[j]
    <2>1. n + j \in 1..(n + m) /\ ~(n + j <= n) /\ (n + j) - n = j
      OBVIOUS
    <2> QED
      BY <1>3, <1>8, <2>1
  <1>11. h = x
    BY <1>1, <1>7, <1>9, SeqEqual
  <1>12. t = y
    BY <1>1, <1>8, <1>10, SeqEqual
  <1> QED
    BY <1>1, <1>2, <1>3, <1>4, <1>5, <1>11, <1>12

-----------------------------------------------------------------------------
(* Counting up to n.                                                       *)
LEMMA CountUp ==
  ASSUME NEW n \in Nat, NEW S, 0 \in S, \A k \in 1..n : k - 1 \in S => k \in S
  PROVE  0..n \subseteq S
  <1> DEFINE Bad == {k \in 0..n : k \notin S}
  <1> SUFFICES ASSUME Bad # {} PROVE FALSE
    OBVIOUS
  <1>1. Bad \in SUBSET Nat
    OBVIOUS
  <1>2. PICK m \in Bad : \A k \in Bad : m <= k
    <2> HIDE DEF Bad
    <2> QED
      BY <1>1, LeastNat
  <1>3. m # 0 /\ m \in 0..n
    OBVIOUS
  <1>4. m \in 1..n /\ m - 1 \in 0..n /\ ~(m <= m - 1)
    BY <1>3
  <1>5. m - 1 \in S
    BY <1>2, <1>4
  <1> QED
    BY <1>4, <1>5

(* What a loop over n elements computes: a function of the number of       *)
(* rounds whose every value follows from the one before it.                *)
Rounds(f, D, base, step, n) ==
  /\ f \in [0..n -> D] /\ f[0] = base
  /\ \A k \in 1..n : f[k] = step[k][f[k - 1]]

LEMMA RoundsExist ==
  ASSUME NEW n \in Nat, NEW D, NEW base \in D, NEW step \in [1..n -> [D -> D]]
  PROVE  \E f : Rounds(f, D, base, step, n)
  <1> DEFINE S == {m \in 0..n : \E f : Rounds(f, D, base, step, m)}
  <1>1. 0 \in S
    <2>1. PICK f : f = [k \in 0..0 |-> base]
      OBVIOUS
    <2>2. Rounds(f, D, base, step, 0)
      BY <2>1 DEF Rounds
    <2> QED
      BY <2>2
  <1>2. ASSUME NEW m \in 1..n, m - 1 \in S PROVE m \in S
    <2>1. PICK f : Rounds(f, D, base, step, m - 1)
      BY <1>2
    <2>2. PICK p \in Nat : p = m - 1 /\ m = p + 1
      OBVIOUS
    <2>3. /\ f \in [0..p -> D] /\ f[0] = base
          /\ \A k \in 1..p : f[k] = step[k][f[k - 1]]
      BY <2>1, <2>2 DEF Rounds
    <2>4. step[m][f[p]] \in D
      BY <2>2, <2>3
    <2>5. PICK h : h = [k \in 0..m |-> IF k = m THEN step[m][f[p]] ELSE f[k]]
      OBVIOUS
    <2>6. \A k \in 0..p : k \in 0..m /\ h[k] = f[k] /\ f[k] \in D
      BY <2>2, <2>3, <2>5
    <2>7. h[m] = step[m][f[p]]
      BY <2>2, <2>5
    <2>8. h \in [0..m -> D]
      <3>1. \A k \in 0..m : k \in 0..p \/ k = m
        BY <2>2
      <3>2. \A k \in 0..m : h[k] \in D
        BY <2>4, <2>6, <2>7, <3>1
      <3> QED
        BY <2>5, <3>2
    <2>9. h[0] = base
      BY <2>2, <2>3, <2>6
    <2>10. ASSUME NEW k \in 1..m PROVE h[k] = step[k][h[k - 1]]
      <3>1. CASE k = m
        BY <2>2, <2>6, <2>7, <3>1
      <3>2. CASE k # m
        <4>1. k \in 1..p /\ k \in 0..p /\ k - 1 \in 0..p
          BY <2>2, <3>2
        <4> QED
          BY <2>3, <2>6, <4>1
      <3> QED
        BY <3>1, <3>2
    <2>11. Rounds(h, D, base, step, m)
      BY <2>8, <2>9, <2>10 DEF Rounds
    <2> QED
      BY <2>11
  <1>3. 0..n \subseteq S
    <2> HIDE DEF S
    <2> QED
      BY <1>1, <1>2, CountUp
  <1>4. n \in 0..n
    OBVIOUS
  <1> QED
    BY <1>3, <1>4

(* The largest of n numbers.                                               *)
LEMMA LargestOf ==
  ASSUME NEW n \in Nat \ {0}, NEW f, \A k \in 1..n : f[k] \in Nat
  PROVE  \E k \in 1..n : \A j \in 1..n : f[j] <= f[k]
  <1> DEFINE S == {m \in 0..n : m # 0 => \E k \in 1..m : \A j \in 1..m : f[j] <= f[k]}
  <1>1. 0 \in S
    OBVIOUS
  <1>2. ASSUME NEW m \in 1..n, m - 1 \in S PROVE m \in S
    <2>1. CASE m = 1
      BY <2>1
    <2>2. CASE m # 1
      <3>1. PICK p \in Nat : p = m - 1 /\ m = p + 1 /\ p # 0
        BY <2>2
      <3>2. PICK k \in 1..p : \A j \in 1..p : f[j] <= f[k]
        BY <1>2, <3>1
      <3>3. \A j \in 1..m : j \in 1..p \/ j = m
        BY <3>1
      <3>4. k \in 1..m /\ f[k] \in Nat /\ f[m] \in Nat /\ \A j \in 1..m : f[j] \in Nat
        BY <3>1
      <3>5. CASE f[m] <= f[k]
        <4>1. \A j \in 1..m : f[j] <= f[k]
          BY <3>2, <3>3, <3>5
        <4> QED
          BY <3>4, <4>1
      <3>6. CASE ~(f[m] <= f[k])
        <4>1. \A j \in 1..m : f[j] <= f[m]
          BY <3>2, <3>3, <3>4, <3>6
        <4> QED
          BY <3>4, <4>1
      <3> QED
        BY <3>5, <3>6
    <2> QED
      BY <2>1, <2>2
  <1>3. 0..n \subseteq S
    <2> HIDE DEF S
    <2> QED
      BY <1>1, <1>2, CountUp
  <1>4. n \in 0..n /\ n # 0
    OBVIOUS
  <1> QED
    BY <1>3, <1>4

(* Where the elements of a joined sequence come from.                      *)
Joined(c, a, b, n, m) ==
  /\ Len(c) = n + m
  /\ \A i \in 1..n : i \in 1..(n + m) /\ c[i] = a[i]
  /\ \A i \in 1..m : n + i \in 1..(n + m) /\ c[n + i] = b[i]
  /\ \A i \in 1..(n + m) : i \in 1..n \/ \E j \in 1..m : i = n + j

LEMMA ConcatElements ==
  ASSUME NEW A, NEW a \in Seq(A), NEW b \in Seq(A),
         NEW n \in Nat, n = Len(a), NEW m \in Nat, m = Len(b), NEW c, c = a \o b
  PROVE  c \in Seq(A) /\ Joined(c, a, b, n, m)
  <1>1. /\ c \in Seq(A) /\ Len(c) = n + m
        /\ \A i \in 1..(n + m) : c[i] = IF i <= n THEN a[i] ELSE b[i - n]
    BY ConcatProperties
  <1>2. ASSUME NEW i \in 1..n PROVE i \in 1..(n + m) /\ c[i] = a[i]
    BY <1>1
  <1>3. ASSUME NEW i \in 1..m PROVE n + i \in 1..(n + m) /\ c[n + i] = b[i]
    <2>1. n + i \in 1..(n + m) /\ ~(n + i <= n) /\ (n + i) - n = i
      OBVIOUS
    <2> QED
      BY <1>1, <2>1
  <1>4. ASSUME NEW i \in 1..(n + m), i \notin 1..n PROVE \E j \in 1..m : i = n + j
    <2>1. i - n \in 1..m /\ i = n + (i - n)
      BY <1>4
    <2> QED
      BY <2>1
  <1> QED
    BY <1>1, <1>2, <1>3, <1>4 DEF Joined

LEMMA ConcatRange ==
  ASSUME NEW A, NEW a \in Seq(A), NEW b \in Seq(A)
  PROVE  a \o b \in Seq(A) /\ Range(a \o b) = Range(a) \cup Range(b)
  <1>1. PICK n \in Nat : n = Len(a)
    OBVIOUS
  <1>2. PICK m \in Nat : m = Len(b)
    OBVIOUS
  <1>3. PICK c : c = a \o b
    OBVIOUS
  <1>4. Joined(c, a, b, n, m) /\ c \in Seq(A)
    BY <1>1, <1>2, <1>3, ConcatElements
  <1>5. /\ Len(c) = n + m
        /\ \A i \in 1..n : i \in 1..(n + m) /\ c[i] = a[i]
        /\ \A i \in 1..m : n + i \in 1..(n + m) /\ c[n + i] = b[i]
        /\ \A i \in 1..(n + m) : i \in 1..n \/ \E j \in 1..m : i = n + j
    BY <1>4, Zenon DEF Joined
  <1>6. Range(c) \subseteq Range(a) \cup Range(b)
    <2>1. ASSUME NEW i \in 1..(n + m) PROVE c[i] \in Range(a) \cup Range(b)
      BY <1>1, <1>2, <1>4, <1>5, ElementsOfRange
    <2> QED
      BY <1>4, <1>5, <2>1, ElementsOfRange
  <1>7. Range(a) \subseteq Range(c)
    <2>1. \A i \in 1..n : a[i] \in Range(c)
      BY <1>4, <1>5, ElementsOfRange
    <2> QED
      BY <1>1, <2>1, ElementsOfRange
  <1>8. Range(b) \subseteq Range(c)
    <2>1. \A i \in 1..m : b[i] \in Range(c)
      BY <1>4, <1>5, ElementsOfRange
    <2> QED
      BY <1>2, <2>1, ElementsOfRange
  <1> QED
    BY <1>3, <1>4, <1>6, <1>7, <1>8
=============================================================================
