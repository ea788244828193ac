-------------------------- MODULE SubsequencesProofs --------------------------
(***************************************************************************)
(* What Subsequences takes for granted: a finite set of numbers is in      *)
(* order, and a sequence taken by places keeps the order of the places.    *)
(***************************************************************************)
EXTENDS Subsequences, FiniteSetTheorems, FunctionTheorems, WellFoundedInduction,
        TLAPS

\* A set of numbers has a least element.
LEMMA LeastElement ==
    ASSUME NEW S \in SUBSET Nat, S # {}
    PROVE  \E x \in S : \A y \in S : x <= y
<1>1. PICK x \in S : \A y \in S : ~(<<y, x>> \in OpToRel(<, Nat))
  BY NatLessThanWellFounded, WFMin
<1>2. \A y \in S : ~(y < x)
  BY <1>1 DEF OpToRel
<1> QED
  BY <1>2

\* One with an upper bound has a greatest.
LEMMA GreatestElement ==
    ASSUME NEW S \in SUBSET Nat, S # {}, NEW n \in Nat, \A x \in S : x <= n
    PROVE  \E x \in S : \A y \in S : y <= x
<1> DEFINE T == {n - x : x \in S}
<1>1. \A x \in S : x \in Nat /\ n - x \in Nat
  OBVIOUS
<1>2. T \in SUBSET Nat /\ T # {}
  BY <1>1
<1> HIDE DEF T
<1>3. PICK z \in T : \A y \in T : z <= y
  BY <1>2, LeastElement
<1>4. PICK x \in S : z = n - x
  BY DEF T
<1>5. ASSUME NEW y \in S PROVE y <= x
  <2>1. n - y \in T
    BY DEF T
  <2> QED
    BY <1>1, <1>3, <1>4, <2>1
<1> QED
  BY <1>5

-----------------------------------------------------------------------------
(***************************************************************************)
(* Places in order.                                                        *)
(***************************************************************************)
Places(S) == S \in SUBSET Nat /\ IsFiniteSet(S)

LEMMA CountType ==
    ASSUME NEW S, Places(S) PROVE Cardinality(S) \in Nat
BY FS_CardinalityType DEF Places

\* A set of places of a sequence.
LEMMA PlacesOf ==
    ASSUME NEW n \in Nat, NEW S, S \subseteq 1..n
    PROVE  Places(S) /\ Cardinality(S) \in 0..n
<1>1. IsFiniteSet(1..n) /\ Cardinality(1..n) = n
  BY FS_Interval
<1>2. IsFiniteSet(S) /\ Cardinality(S) <= n
  BY <1>1, FS_Subset
<1> QED
  BY <1>2, FS_CardinalityType DEF Places

LEMMA RankType ==
    ASSUME NEW S, Places(S), NEW x
    PROVE  /\ IsFiniteSet({y \in S : y <= x})
           /\ Rank(S, x) \in 0..Cardinality(S)
<1>1. IsFiniteSet({y \in S : y <= x})
      /\ Cardinality({y \in S : y <= x}) <= Cardinality(S)
  BY FS_Subset DEF Places
<1> QED
  BY <1>1, FS_CardinalityType DEF Places, Rank

\* The rank grows with every element.
LEMMA RankOrder ==
    ASSUME NEW S, Places(S), NEW x \in Nat, NEW y \in S, x < y
    PROVE  Rank(S, x) < Rank(S, y)
<1> DEFINE X == {z \in S : z <= x}
           Y == {z \in S : z <= y}
<1>a. \A z \in S : z \in Nat
  BY DEF Places
<1>1. X \subseteq Y /\ y \in Y /\ y \notin X
  BY <1>a
<1>2. IsFiniteSet(Y) /\ IsFiniteSet(X)
  BY RankType
<1>3. Cardinality(X) <= Cardinality(Y) /\ Cardinality(X) # Cardinality(Y)
  BY <1>1, <1>2, FS_Subset
<1>4. Cardinality(X) \in Nat /\ Cardinality(Y) \in Nat
  BY <1>2, FS_CardinalityType
<1> QED
  BY <1>3, <1>4 DEF Rank

LEMMA RankOfElement ==
    ASSUME NEW S, Places(S), NEW x \in S
    PROVE  Rank(S, x) \in 1..Cardinality(S)
<1>1. IsFiniteSet({y \in S : y <= x}) /\ Rank(S, x) \in 0..Cardinality(S)
  BY RankType
<1>2. x \in {y \in S : y <= x}
  BY DEF Places
<1>3. Rank(S, x) # 0
  BY <1>1, <1>2, FS_EmptySet DEF Rank
<1> QED
  BY <1>1, <1>3, CountType

\* Ranks number the elements: every number up to their count is taken.
LEMMA RankTaken ==
    ASSUME NEW S, Places(S), NEW k \in 1..Cardinality(S)
    PROVE  \E x \in S : Rank(S, x) = k
<1> DEFINE n == Cardinality(S)
           f == [x \in S |-> Rank(S, x)]
<1>1. n \in Nat
  BY CountType
<1>2. IsFiniteSet(1..n) /\ Cardinality(1..n) = n
  BY <1>1, FS_Interval
<1>3. f \in [S -> 1..n]
  BY RankOfElement
<1>4. ASSUME NEW x \in S, NEW y \in S, f[x] = f[y] PROVE x = y
  <2>1. Rank(S, x) \in Nat /\ Rank(S, y) \in Nat
    BY <1>1, RankOfElement
  <2>2. x \in Nat /\ y \in Nat
    BY DEF Places
  <2>3. CASE x < y
    BY <1>4, <2>1, <2>2, <2>3, RankOrder
  <2>4. CASE y < x
    BY <1>4, <2>1, <2>2, <2>4, RankOrder
  <2> QED
    BY <2>2, <2>3, <2>4
<1>5. f \in Injection(S, 1..n)
  <2>1. \A x, y \in S : f[x] = f[y] => x = y
    BY <1>4
  <2> HIDE DEF f
  <2> QED
    BY <1>3, <2>1, Fun_IsInj
<1>6. f \in Surjection(S, 1..n)
  BY <1>2, <1>5, FS_Injection
<1> QED
  BY <1>6 DEF Surjection

\* The k-th element has rank k.
LEMMA NthRank ==
    ASSUME NEW S, Places(S), NEW k \in 1..Cardinality(S)
    PROVE  Nth(S, k) \in S /\ Nth(S, k) \in Nat /\ Rank(S, Nth(S, k)) = k
<1>1. \E x \in S : Rank(S, x) = k
  BY RankTaken
<1>2. Nth(S, k) \in S /\ Rank(S, Nth(S, k)) = k
  BY <1>1 DEF Nth
<1> QED
  BY <1>2 DEF Places

LEMMA RankNth ==
    ASSUME NEW S, Places(S), NEW x \in S
    PROVE  Nth(S, Rank(S, x)) = x
<1> DEFINE k == Rank(S, x)
           z == Nth(S, k)
<1>1. k \in 1..Cardinality(S) /\ k \in Nat
  BY RankOfElement, CountType
<1>2. z \in S /\ z \in Nat /\ Rank(S, z) = k /\ x \in Nat
  BY <1>1, NthRank DEF Places
<1>3. ~(x < z) /\ ~(z < x)
  BY <1>1, <1>2, RankOrder
<1> QED
  BY <1>2, <1>3

\* Elements come in their order.
LEMMA NthOrder ==
    ASSUME NEW S, Places(S), NEW j \in 1..Cardinality(S), NEW k \in 1..Cardinality(S)
    PROVE  j < k <=> Nth(S, j) < Nth(S, k)
<1>1. /\ Nth(S, j) \in S /\ Nth(S, j) \in Nat /\ Rank(S, Nth(S, j)) = j
      /\ Nth(S, k) \in S /\ Nth(S, k) \in Nat /\ Rank(S, Nth(S, k)) = k
  BY NthRank
<1>2. Nth(S, j) < Nth(S, k) => j < k
  BY <1>1, RankOrder
<1>3. Nth(S, k) < Nth(S, j) => k < j
  BY <1>1, RankOrder
<1>4. j \in Nat /\ k \in Nat
  BY CountType
<1> QED
  BY <1>1, <1>2, <1>3, <1>4

\* Between the k-th element and the next there is none, none before the first,
\* and none after the last.
LEMMA NthNext ==
    ASSUME NEW S, Places(S), NEW x \in S, NEW k \in 1..Cardinality(S)
    PROVE  /\ x > Nth(S, k) => k + 1 \in 1..Cardinality(S) /\ Nth(S, k + 1) <= x
           /\ x < Nth(S, k) => k - 1 \in 1..Cardinality(S) /\ x <= Nth(S, k - 1)
<1> DEFINE j == Rank(S, x)
<1>1. j \in 1..Cardinality(S) /\ Nth(S, j) = x
  BY RankOfElement, RankNth
<1>2. Cardinality(S) \in Nat
  BY CountType
<1>3. x \in Nat /\ \A i \in 1..Cardinality(S) : Nth(S, i) \in Nat
  BY NthRank DEF Places
<1> HIDE DEF j
<1>4. ASSUME x > Nth(S, k) PROVE k + 1 \in 1..Cardinality(S) /\ Nth(S, k + 1) <= x
  <2>1. k < j
    BY <1>1, <1>3, <1>4, NthOrder
  <2>2. k + 1 \in 1..Cardinality(S)
    BY <1>1, <1>2, <2>1
  <2>3. ~(j < k + 1)
    BY <1>1, <1>2, <2>1
  <2>4. ~(Nth(S, j) < Nth(S, k + 1))
    BY <1>1, <2>2, <2>3, NthOrder
  <2> QED
    BY <1>1, <1>3, <2>2, <2>4
<1>5. ASSUME x < Nth(S, k) PROVE k - 1 \in 1..Cardinality(S) /\ x <= Nth(S, k - 1)
  <2>1. j < k
    BY <1>1, <1>3, <1>5, NthOrder
  <2>2. k - 1 \in 1..Cardinality(S)
    BY <1>1, <1>2, <2>1
  <2>3. ~(k - 1 < j)
    BY <1>1, <1>2, <2>1
  <2>4. ~(Nth(S, k - 1) < Nth(S, j))
    BY <1>1, <2>2, <2>3, NthOrder
  <2> QED
    BY <1>1, <1>3, <2>2, <2>4
<1> QED
  BY <1>4, <1>5

\* A whole stretch of numbers in the set is counted one by one.
LEMMA RankStretch ==
    ASSUME NEW S, Places(S), NEW a \in Nat, NEW b \in Nat, a <= b, a..b \subseteq S
    PROVE  Rank(S, b) = Rank(S, a) + (b - a)
<1> DEFINE A == {y \in S : y <= a}
           B == {y \in S : y <= b}
           C == (a + 1)..b
<1>a. \A z \in S : z \in Nat
  BY DEF Places
<1>b. \A z \in C : z \in S /\ z \in Nat
  OBVIOUS
<1>1. IsFiniteSet(A)
  BY RankType
<1>c. IsFiniteSet(C) /\ Cardinality(C) = b - a
  <2> DEFINE c == a + 1
  <2>1. c \in Int /\ b \in Int /\ c = a + 1
    OBVIOUS
  <2> HIDE DEF c
  <2>2. IsFiniteSet(c..b) /\ Cardinality(c..b) = IF c > b THEN 0 ELSE b - c + 1
    BY <2>1, FS_Interval
  <2>3. C = c..b
    BY <2>1
  <2> HIDE DEF C
  <2> QED
    BY <2>1, <2>2, <2>3
<1>2. B = A \cup C
  BY <1>a, <1>b
<1>d. A \cap C = {}
  BY <1>a
<1> HIDE DEF A, B, C
<1>e. Cardinality(A) \in Nat
  BY <1>1, FS_CardinalityType
<1>3. Cardinality(B) = Cardinality(A) + (b - a) - 0
  <2>1. Cardinality(A \cup C) = Cardinality(A) + Cardinality(C) - Cardinality(A \cap C)
    BY <1>1, <1>c, FS_Union
  <2> QED
    BY <1>2, <1>c, <1>d, <2>1, FS_EmptySet
<1> QED
  BY <1>3, <1>e DEF Rank, A, B

LEMMA NthStretch ==
    ASSUME NEW S, Places(S), NEW k \in 1..Cardinality(S), NEW d \in Nat,
           Nth(S, k)..(Nth(S, k) + d) \subseteq S
    PROVE  k + d \in 1..Cardinality(S) /\ Nth(S, k + d) = Nth(S, k) + d
<1> DEFINE a == Nth(S, k)
<1>1. a \in S /\ a \in Nat /\ Rank(S, a) = k
  BY NthRank
<1> HIDE DEF a
<1>2. a..(a + d) \subseteq S /\ a + d \in Nat /\ a <= a + d /\ a + d \in S
  BY <1>1 DEF a
<1>3. Rank(S, a + d) = k + d
  BY <1>1, <1>2, RankStretch, CountType
<1> QED
  BY <1>2, <1>3, RankOfElement, RankNth DEF a

\* All the numbers up to n are in their own places.
LEMMA NthAll ==
    ASSUME NEW n \in Nat, NEW k \in 1..n
    PROVE  Cardinality(1..n) = n /\ Nth(1..n, k) = k
<1>1. Places(1..n) /\ Cardinality(1..n) = n
  <2>1. Cardinality(1..n) = n
    BY FS_Interval
  <2> QED
    BY <2>1, PlacesOf
<1>2. {y \in 1..n : y <= 1} = {1}
  OBVIOUS
<1>3. Rank(1..n, 1) = 1
  BY <1>2, FS_Singleton DEF Rank
<1>4. Nth(1..n, 1) = 1
  BY <1>1, <1>3, RankNth
<1>5. Nth(1..n, 1 + (k - 1)) = 1 + (k - 1)
  <2>1. k - 1 \in Nat /\ 1 \in 1..Cardinality(1..n)
    BY <1>1
  <2>2. Nth(1..n, 1)..(Nth(1..n, 1) + (k - 1)) \subseteq 1..n
    BY <1>4
  <2> QED
    BY <1>1, <1>4, <2>1, <2>2, NthStretch
<1> QED
  BY <1>1, <1>5

\* A map that keeps the order, from one set onto another, keeps the numbering.
LEMMA NthMapped ==
    ASSUME NEW S, Places(S), NEW T, Places(T), NEW f \in [S -> T],
           \A x, y \in S : x < y => f[x] < f[y],
           \A z \in T : \E x \in S : f[x] = z
    PROVE  /\ Cardinality(T) = Cardinality(S)
           /\ \A k \in 1..Cardinality(S) : Nth(T, k) = f[Nth(S, k)]
<1>1. ASSUME NEW x \in S, NEW y \in S PROVE (x < y <=> f[x] < f[y]) /\ (x = y <=> f[x] = f[y])
  <2>1. x \in Nat /\ y \in Nat /\ f[x] \in Nat /\ f[y] \in Nat
    BY DEF Places
  <2> QED
    BY <2>1
<1>2. f \in Bijection(S, T)
  <2>1. \A x, y \in S : f[x] = f[y] => x = y
    BY <1>1
  <2> QED
    BY <2>1, Fun_IsBij
<1>3. Cardinality(T) = Cardinality(S)
  BY <1>2, FS_Bijection DEF ExistsBijection, Places
<1>4. ASSUME NEW x \in S PROVE Rank(T, f[x]) = Rank(S, x)
  <2> DEFINE X == {y \in S : y <= x}
             Y == {z \in T : z <= f[x]}
             g == [y \in X |-> f[y]]
  <2>1. ASSUME NEW y \in S PROVE y <= x <=> f[y] <= f[x]
    <3>1. x \in Nat /\ y \in Nat /\ f[x] \in Nat /\ f[y] \in Nat
      BY DEF Places
    <3> QED
      BY <1>1, <3>1
  <2>2. g \in [X -> Y]
    BY <2>1
  <2>3. \A y1, y2 \in X : g[y1] = g[y2] => y1 = y2
    BY <1>1
  <2>4. \A z \in Y : \E y \in X : g[y] = z
    BY <2>1
  <2>5. g \in Bijection(X, Y)
    <3> HIDE DEF g, X, Y
    <3> QED
      BY <2>2, <2>3, <2>4, Fun_IsBij
  <2>6. IsFiniteSet(X)
    BY RankType
  <2> QED
    BY <2>5, <2>6, FS_Bijection DEF ExistsBijection, Rank
<1>5. ASSUME NEW k \in 1..Cardinality(S) PROVE Nth(T, k) = f[Nth(S, k)]
  <2>1. Nth(S, k) \in S /\ Rank(S, Nth(S, k)) = k
    BY NthRank
  <2>2. f[Nth(S, k)] \in T /\ Rank(T, f[Nth(S, k)]) = k
    BY <1>4, <2>1
  <2> QED
    BY <2>2, RankNth
<1> QED
  BY <1>3, <1>5

-----------------------------------------------------------------------------
(***************************************************************************)
(* A sequence taken by places.                                             *)
(***************************************************************************)
LEMMA OnlyType ==
    ASSUME NEW A, NEW t \in Seq(A), NEW S, S \subseteq DOMAIN t
    PROVE  /\ Places(S) /\ Cardinality(S) \in 0..Len(t)
           /\ Only(t, S) \in Seq(A) /\ Len(Only(t, S)) = Cardinality(S)
           /\ \A k \in 1..Cardinality(S) :
                 /\ Only(t, S)[k] = t[Nth(S, k)]
                 /\ Nth(S, k) \in S /\ Nth(S, k) \in 1..Len(t)
<1>1. Len(t) \in Nat /\ DOMAIN t = 1..Len(t)
  OBVIOUS
<1>2. Places(S) /\ Cardinality(S) \in 0..Len(t)
  BY <1>1, PlacesOf
<1>3. ASSUME NEW k \in 1..Cardinality(S)
      PROVE  Nth(S, k) \in S /\ Nth(S, k) \in 1..Len(t) /\ t[Nth(S, k)] \in A
  BY <1>1, <1>2, <1>3, NthRank
<1>4. Cardinality(S) \in Nat
  BY <1>1, <1>2
<1>5. Only(t, S) \in Seq(A) /\ Len(Only(t, S)) = Cardinality(S)
  BY <1>3, <1>4 DEF Only
<1> QED
  BY <1>2, <1>3, <1>5 DEF Only

\* To take all is to take the sequence.
LEMMA OnlyAll ==
    ASSUME NEW A, NEW t \in Seq(A) PROVE Only(t, DOMAIN t) = t
<1>1. Len(t) \in Nat /\ DOMAIN t = 1..Len(t)
  OBVIOUS
<1>2. Cardinality(DOMAIN t) = Len(t)
  BY <1>1, FS_Interval
<1>3. \A k \in 1..Len(t) : Nth(DOMAIN t, k) = k
  BY <1>1, NthAll
<1> QED
  BY <1>1, <1>2, <1>3 DEF Only
=============================================================================
