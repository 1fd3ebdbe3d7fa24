---------------------------- MODULE OrderProofs -----------------------------
(* Where least and greatest elements exist, and what they are; what        *)
(* Ascending lists.                                                        *)
EXTENDS Order, TLAPS, FiniteSetTheorems

\* Least picks the minimum of a nonempty set of positions.
LEMMA LeastIs ==
    ASSUME NEW S \in SUBSET Nat, S # {}
    PROVE  Least(S) \in S /\ \A n \in S : Least(S) <= n
<1>1. PICK m \in S : \A n \in S : ~ (<<n, m>> \in OpToRel(<, Nat))
    BY NatLessThanWellFounded, WFMin, Zenon
<1>2. \A n \in S : ~ (n < m)
    BY <1>1 DEF OpToRel
<1>3. \A n \in S : m <= n
    BY <1>2
<1>. QED
    BY <1>3, Zenon DEF Least

\* Greatest picks the maximum of a nonempty bounded set of positions.
LEMMA GreatestIs ==
    ASSUME NEW S \in SUBSET Nat, S # {}, NEW b \in Nat, \A n \in S : n <= b
    PROVE  Greatest(S) \in S /\ \A n \in S : n <= Greatest(S)
<1>. DEFINE D == {b - n : n \in S}
<1>1. \A n \in S : b - n \in Nat
    OBVIOUS
<1>2. D \in SUBSET Nat
    BY <1>1
<1>3. D # {}
    OBVIOUS
<1>. HIDE DEF D
<1>4. Least(D) \in D /\ \A d \in D : Least(D) <= d
    BY <1>2, <1>3, LeastIs
<1>5. PICK m \in S : Least(D) = b - m
    BY <1>4 DEF D
<1>6. ASSUME NEW n \in S PROVE n <= m
  <2>1. b - n \in D
      BY DEF D
  <2>2. b - m <= b - n
      BY <2>1, <1>4, <1>5
  <2>. QED
      BY <2>2
<1>7. \A n \in S : m >= n
    BY <1>6
<1>8. Greatest(S) \in S /\ \A n \in S : Greatest(S) >= n
    BY <1>7, Zenon DEF Greatest
<1>. QED
    BY <1>8
\* A member's rank tells it from the others.
LEMMA RankGrows ==
    ASSUME NEW S \in SUBSET Nat, IsFiniteSet(S), NEW a \in S, NEW b \in S, a < b
    PROVE  Cardinality({m \in S : m <= a}) < Cardinality({m \in S : m <= b})
<1>. DEFINE A == {m \in S : m <= a}
            B == {m \in S : m <= b}
<1>1. A \in SUBSET B /\ B \in SUBSET S
  <2>1. \A m \in A : m <= b
      OBVIOUS
  <2>. QED
      BY <2>1
<1>2. b \in B /\ b \notin A
    OBVIOUS
<1>. HIDE DEF A, B
<1>3. IsFiniteSet(B)
    BY <1>1, FS_Subset
<1>4. IsFiniteSet(A) /\ Cardinality(A) <= Cardinality(B) /\ Cardinality(A) # Cardinality(B)
    BY <1>1, <1>2, <1>3, FS_Subset
<1>5. Cardinality(A) \in Nat /\ Cardinality(B) \in Nat
    BY <1>3, <1>4, FS_CardinalityType
<1>6. Cardinality(A) < Cardinality(B)
    BY <1>4, <1>5
<1>. QED
    BY <1>6 DEF A, B

\* Every rank is taken.
LEMMA RanksAreTaken ==
    ASSUME NEW S \in SUBSET Nat, IsFiniteSet(S), NEW k \in 1..Cardinality(S)
    PROVE  \E n \in S : Cardinality({m \in S : m <= n}) = k
<1>. DEFINE c == Cardinality(S)
            rank == [n \in S |-> Cardinality({m \in S : m <= n})]
<1>1. c \in Nat
    BY FS_CardinalityType
<1>2. ASSUME NEW n \in S PROVE rank[n] \in 1..c
  <2>. DEFINE A == {m \in S : m <= n}
  <2>1. A \in SUBSET S /\ n \in A
      OBVIOUS
  <2>. HIDE DEF A
  <2>2. IsFiniteSet(A) /\ Cardinality(A) <= c
      BY <2>1, FS_Subset
  <2>3. Cardinality(A) \in Nat /\ Cardinality(A) # 0
      BY <2>1, <2>2, FS_CardinalityType, FS_EmptySet
  <2>4. Cardinality(A) \in 1..c
      BY <2>2, <2>3, <1>1
  <2>. QED
      BY <2>4 DEF A
<1>3. rank \in [S -> 1..c]
    BY <1>2
<1>4. ASSUME NEW a \in S, NEW b \in S, rank[a] = rank[b] PROVE a = b
  <2>1. rank[a] \in Nat /\ rank[b] \in Nat
      BY <1>2, <1>1
  <2>2. CASE a < b
      BY <2>1, <2>2, <1>4, RankGrows
  <2>3. CASE b < a
      BY <2>1, <2>3, <1>4, RankGrows
  <2>. QED
      BY <2>2, <2>3
<1>5. DOMAIN rank = S
    OBVIOUS
<1>6. IsFiniteSet(1..c) /\ Cardinality(1..c) = c
    BY <1>1, FS_Interval
<1>7. rank \in Injection(S, 1..c)
  <2>. HIDE DEF rank
  <2>. QED
      BY <1>3, <1>4, <1>5 DEF Injection, IsInjective
<1>8. rank \in Surjection(S, 1..c)
    BY <1>6, <1>7, FS_Injection
<1>9. \A j \in 1..c : \E n \in S : rank[n] = j
  <2>. HIDE DEF rank
  <2>. QED
      BY <1>8 DEF Surjection
<1>. QED
    BY <1>9

\* Ascending lists every member of the set once, in increasing order.
LEMMA AscendingIs ==
    ASSUME NEW S \in SUBSET Nat, IsFiniteSet(S)
    PROVE  /\ Cardinality(S) \in Nat
           /\ Ascending(S) \in [1..Cardinality(S) -> S]
           /\ \A j, k \in 1..Cardinality(S) : j < k => Ascending(S)[j] < Ascending(S)[k]
           /\ \A n \in S : \E k \in 1..Cardinality(S) : Ascending(S)[k] = n
           /\ \A k \in 1..Cardinality(S) : Cardinality({m \in S : m <= Ascending(S)[k]}) = k
<1>. DEFINE c == Cardinality(S)
            Rank(n) == Cardinality({m \in S : m <= n})
            t == Ascending(S)
<1>1. c \in Nat
    BY FS_CardinalityType
<1>2. t = [k \in 1..c |-> CHOOSE n \in S : Rank(n) = k]
    BY DEF Ascending
<1>3. \A k \in 1..c : \E n \in S : Rank(n) = k
    BY RanksAreTaken
<1>4. \A a, b \in S : a < b => Rank(a) < Rank(b)
    BY RankGrows
<1>5. \A n \in S : Rank(n) \in 1..c
  <2>. TAKE n \in S
  <2>. DEFINE A == {m \in S : m <= n}
  <2>1. A \in SUBSET S /\ n \in A
      OBVIOUS
  <2>. HIDE DEF A
  <2>2. IsFiniteSet(A) /\ Cardinality(A) <= c
      BY <2>1, FS_Subset
  <2>3. Cardinality(A) \in Nat /\ Cardinality(A) # 0
      BY <2>1, <2>2, FS_CardinalityType, FS_EmptySet
  <2>. QED
      BY <2>2, <2>3, <1>1 DEF A
<1>. HIDE DEF Rank, t
<1>6. \A k \in 1..c : t[k] \in S /\ Rank(t[k]) = k
    BY <1>2, <1>3
<1>7. t \in [1..c -> S]
    BY <1>2, <1>6
<1>8. ASSUME NEW j \in 1..c, NEW k \in 1..c, j < k PROVE t[j] < t[k]
  <2>1. t[j] \in Nat /\ t[k] \in Nat
      BY <1>6
  <2>2. t[j] # t[k]
      BY <1>6, <1>8
  <2>3. ASSUME t[k] < t[j] PROVE FALSE
    <3>1. Rank(t[k]) < Rank(t[j])
        BY <1>4, <1>6, <2>3
    <3>2. k < j
        BY <3>1, <1>6
    <3>. QED
        BY <3>2, <1>8, <1>1
  <2>. QED
      BY <2>1, <2>2, <2>3
<1>9. ASSUME NEW n \in S PROVE \E k \in 1..c : t[k] = n
  <2>1. Rank(n) \in 1..c
      BY <1>5
  <2>. DEFINE u == t[Rank(n)]
  <2>2. u \in S /\ Rank(u) = Rank(n)
      BY <2>1, <1>6
  <2>3. u \in Nat /\ n \in Nat
      BY <2>2, <1>9
  <2>. HIDE DEF u
  <2>. DEFINE r == Rank(n)
  <2>4. r \in Nat /\ Rank(u) = r
      BY <2>1, <2>2, <1>1
  <2>5. u < n => Rank(u) < r
      BY <1>4, <1>9, <2>2
  <2>6. n < u => r < Rank(u)
      BY <1>4, <1>9, <2>2
  <2>. HIDE DEF r
  <2>7. u = n
      BY <2>3, <2>4, <2>5, <2>6
  <2>. QED
      BY <2>1, <2>7 DEF u
<1>. QED
    BY <1>1, <1>6, <1>7, <1>8, <1>9 DEF Rank, t

\* Of an interval, the numbers one by one.
LEMMA AscendingInterval ==
    ASSUME NEW a \in Nat, NEW n \in Nat
    PROVE  Ascending(a + 1 .. a + n) = [k \in 1..n |-> a + k]
<1>. DEFINE S == a + 1 .. a + n
<1>1. S \in SUBSET Nat /\ IsFiniteSet(S) /\ Cardinality(S) = n
    BY FS_Interval
<1>2. ASSUME NEW k \in 1..n PROVE Ascending(S)[k] = a + k
  <2>. DEFINE x == Ascending(S)[k]
  <2>1. x \in S /\ Cardinality({m \in S : m <= x}) = k
    <3>. HIDE DEF S
    <3>1. /\ Ascending(S) \in [1..n -> S]
          /\ \A j \in 1..n : Cardinality({m \in S : m <= Ascending(S)[j]}) = j
        BY <1>1, AscendingIs
    <3>. QED
        BY <3>1 DEF x
  <2>. HIDE DEF x
  <2>2. {m \in S : m <= x} = a + 1 .. x
      BY <2>1
  <2>3. Cardinality(a + 1 .. x) = x - a
      BY <2>1, FS_Interval
  <2>4. x - a = k
      BY <2>1, <2>2, <2>3
  <2>. QED
      BY <2>1, <2>4 DEF x
<1>3. Ascending(S) \in [1..n -> S]
    BY <1>1, AscendingIs
<1>. QED
    BY <1>2, <1>3, Zenon
=============================================================================
