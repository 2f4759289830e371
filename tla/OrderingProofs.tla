---------------------------- MODULE OrderingProofs ----------------------------
(***************************************************************************)
(* The least and the greatest of a set of numbers, which the code takes    *)
(* with min and max, and what a sort makes of a finite set.                *)
(***************************************************************************)
EXTENDS Ordering, FiniteSetTheorems, WellFoundedInduction, TLAPS

\* A non-empty set of naturals has the minimum that Min chooses.
LEMMA LeastExists ==
    ASSUME NEW S, S \subseteq Nat, S # {}
    PROVE  Min(S) \in S /\ \A x \in S : Min(S) <= x
<1>1. PICK m \in S : \A x \in S : ~(<<x, m>> \in OpToRel(<, Nat))
  BY NatLessThanWellFounded, WFMin
<1>2. ASSUME NEW x \in S
      PROVE  ~(x < m)
  <2>1. <<x, m>> \in Nat \X Nat
    OBVIOUS
  <2> QED
    BY <1>1, <2>1 DEF OpToRel
<1>3. \A x \in S : m <= x
  BY <1>2
<1> QED
  BY <1>3 DEF Min

\* A non-empty, bounded set of naturals has the maximum that Max chooses.
LEMMA GreatestExists ==
    ASSUME NEW S, S \subseteq Nat, S # {}, NEW k \in Nat, \A x \in S : x <= k
    PROVE  Max(S) \in S /\ \A x \in S : Max(S) >= x
<1> DEFINE D == {n \in Nat : k - n \in S}
<1>1. D # {}
  <2>1. PICK x \in S : TRUE
    OBVIOUS
  <2>2. k - x \in Nat /\ k - (k - x) = x
    OBVIOUS
  <2> QED
    BY <2>2
<1>2. Min(D) \in D /\ \A n \in D : Min(D) <= n
  BY <1>1, LeastExists
<1>3. ASSUME NEW x \in S
      PROVE  k - Min(D) >= x
  <2>1. k - x \in D
    OBVIOUS
  <2> QED
    BY <1>2, <2>1
<1> HIDE DEF D
<1>4. k - Min(D) \in S
  BY <1>2 DEF D
<1> QED
  BY <1>3, <1>4 DEF Max

\* A finite set of numbers that is not empty has a greatest one.
LEMMA GreatestIs ==
    ASSUME NEW S \in SUBSET Int, NEW m \in S, \A s \in S : m >= s
    PROVE  Max(S) = m
<1>1. Max(S) \in S /\ \A s \in S : Max(S) >= s
  BY DEF Max
<1>2. Max(S) \in Int /\ m \in Int /\ Max(S) >= m /\ m >= Max(S)
  BY <1>1
<1> QED
  BY <1>2

\* A finite set that R orders strictly is listed once, in that order: the place of a
\* member is how many come before it.
LEMMA InOrderIs ==
    ASSUME NEW S, IsFiniteSet(S), NEW R,
           \A x \in S : <<x, x>> \notin R,
           \A x, y, z \in S : <<x, y>> \in R /\ <<y, z>> \in R => <<x, z>> \in R,
           \A x, y \in S : x # y => <<x, y>> \in R \/ <<y, x>> \in R
    PROVE  /\ Cardinality(S) \in Nat /\ DOMAIN InOrder(S, R) = 1 .. Cardinality(S)
           /\ \A n \in 1 .. Cardinality(S) : InOrder(S, R)[n] \in S
           /\ \A x \in S : \E n \in 1 .. Cardinality(S) : InOrder(S, R)[n] = x
           /\ \A m, n \in 1 .. Cardinality(S) :
                m < n => <<InOrder(S, R)[m], InOrder(S, R)[n]>> \in R
<1> DEFINE N == Cardinality(S)
           Before(x) == {y \in S : <<y, x>> \in R}
           Rank(x) == Cardinality(Before(x))
           g == [x \in S |-> Rank(x) + 1]
<1>1. N \in Nat
  BY FS_CardinalityType
<1>2. ASSUME NEW x \in S
      PROVE  IsFiniteSet(Before(x)) /\ Rank(x) \in Nat /\ Rank(x) < N
  <2>1. Before(x) \in SUBSET S /\ x \notin Before(x)
    OBVIOUS
  <2>2. IsFiniteSet(Before(x)) /\ Rank(x) <= N /\ (N = Rank(x) => S = Before(x))
    BY <2>1, FS_Subset
  <2>3. Rank(x) \in Nat
    BY <2>2, FS_CardinalityType
  <2> QED
    BY <1>1, <2>1, <2>2, <2>3
<1>3. ASSUME NEW x \in S, NEW y \in S, <<x, y>> \in R
      PROVE  Rank(x) < Rank(y)
  <2>1. Before(x) \in SUBSET Before(y) /\ x \in Before(y) /\ x \notin Before(x)
    BY <1>3
  <2>2. Rank(x) <= Rank(y) /\ (Rank(y) = Rank(x) => Before(y) = Before(x))
    BY <1>2, <2>1, FS_Subset
  <2>3. Rank(x) \in Nat /\ Rank(y) \in Nat
    BY <1>2
  <2> QED
    BY <2>1, <2>2, <2>3
<1>4. \A x \in S : Rank(x) + 1 \in 1 .. N
  BY <1>1, <1>2
<1> HIDE DEF Before, Rank
<1>5. \A x, y \in S : Rank(x) = Rank(y) => x = y
  <2> SUFFICES ASSUME NEW x \in S, NEW y \in S, Rank(x) = Rank(y), x # y
               PROVE  FALSE
    OBVIOUS
  <2>1. Rank(x) < Rank(y) \/ Rank(y) < Rank(x)
    BY <1>3
  <2> QED
    BY <1>2, <2>1
<1>6. g \in Injection(S, 1 .. N)
  <2>1. g \in [S -> 1 .. N]
    BY <1>4
  <2>2. \A x, y \in S : g[x] = g[y] => x = y
    <3> SUFFICES ASSUME NEW x \in S, NEW y \in S, g[x] = g[y]
                 PROVE  x = y
      OBVIOUS
    <3>1. Rank(x) + 1 = Rank(y) + 1
      OBVIOUS
    <3> QED
      BY <1>2, <1>5, <3>1
  <2> QED
    BY <2>1, <2>2 DEF Injection, IsInjective
<1>7. g \in Surjection(S, 1 .. N)
  <2>1. IsFiniteSet(1 .. N) /\ Cardinality(1 .. N) = N
    BY <1>1, FS_Interval
  <2> HIDE DEF g
  <2> QED
    BY <1>6, <2>1, FS_Injection
<1>8. ASSUME NEW n \in 1 .. N
      PROVE  \E x \in S : Rank(x) = n - 1
  <2>1. PICK x \in S : g[x] = n
    BY <1>7 DEF Surjection
  <2>2. Rank(x) + 1 = n
    BY <2>1
  <2> QED
    BY <1>2, <2>2
<1>9. ASSUME NEW n \in 1 .. N
      PROVE  InOrder(S, R)[n] \in S /\ Rank(InOrder(S, R)[n]) = n - 1
  <2>1. InOrder(S, R)[n] = CHOOSE x \in S : Rank(x) = n - 1
    BY DEF InOrder, Rank, Before
  <2> QED
    BY <1>8, <2>1
<1>10. ASSUME NEW x \in S
       PROVE  \E n \in 1 .. N : InOrder(S, R)[n] = x
  <2>1. PICK n \in 1 .. N : n = Rank(x) + 1
    BY <1>4
  <2>2. InOrder(S, R)[n] \in S /\ Rank(InOrder(S, R)[n]) = n - 1
    BY <1>9
  <2>3. Rank(x) = n - 1
    BY <1>2, <2>1
  <2> QED
    BY <1>5, <2>2, <2>3
<1>11. ASSUME NEW m \in 1 .. N, NEW n \in 1 .. N, m < n
       PROVE  <<InOrder(S, R)[m], InOrder(S, R)[n]>> \in R
  <2> DEFINE x == InOrder(S, R)[m]
             y == InOrder(S, R)[n]
  <2>1. x \in S /\ y \in S /\ Rank(x) = m - 1 /\ Rank(y) = n - 1
    BY <1>9
  <2>2. x # y
    BY <1>11, <2>1
  <2>3. <<y, x>> \notin R
    BY <1>3, <1>11, <2>1
  <2> QED
    BY <2>1, <2>2, <2>3
<1>12. DOMAIN InOrder(S, R) = 1 .. N
  BY DEF InOrder
<1> QED
  BY <1>1, <1>9, <1>10, <1>11, <1>12

=============================================================================
