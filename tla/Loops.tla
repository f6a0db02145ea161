-------------------------------- MODULE Loops --------------------------------
(***************************************************************************)
(* Facts about natural numbers, and about the functions by which the       *)
(* models say where a loop is after n turns.  What is proved here by       *)
(* induction is proved by a least counterexample, a member of a set.       *)
(***************************************************************************)
EXTENDS Integers, FiniteSetTheorems, WellFoundedInduction, TLAPS

-----------------------------------------------------------------------------
(* Natural numbers *)

\* A set of naturals that is not empty has a least element.
LEMMA LeastNatural ==
    ASSUME NEW S \in SUBSET Nat, S # {}
    PROVE  \E x \in S : \A y \in S : x <= y
<1> DEFINE R == {ss \in Nat \X Nat : ss[1] < ss[2]}
<1>1. IsWellFoundedOn(R, Nat)
  BY NatLessThanWellFounded DEF OpToRel
<1>2. PICK x \in S : \A y \in S : ~(<<y, x>> \in R)
  BY <1>1, WFMin
<1>3. ASSUME NEW y \in S
      PROVE  x <= y
  <2>1. x \in Nat /\ y \in Nat
    OBVIOUS
  <2>2. ~(y < x)
    BY <1>2, <2>1
  <2>3. QED
    BY <2>1, <2>2
<1>4. QED
  BY <1>3

\* One that is bounded has a greatest.
LEMMA GreatestNatural ==
    ASSUME NEW S \in SUBSET Nat, S # {}, NEW n \in Nat, \A x \in S : x <= n
    PROVE  \E x \in S : \A y \in S : y <= x
<1> DEFINE T == {n - x : x \in S}
<1>1. T \in SUBSET Nat /\ T # {}
  <2>1. \A x \in S : n - x \in Nat
    <3>1. \A x \in S : x \in Nat /\ x <= n
      OBVIOUS
    <3>2. QED
      BY <3>1
  <2>2. QED
    BY <2>1
<1>2. PICK t \in T : \A u \in T : t <= u
  BY <1>1, LeastNatural
<1>3. PICK x \in S : t = n - x
  OBVIOUS
<1>4. ASSUME NEW y \in S
      PROVE  y <= x
  <2>1. n - x <= n - y
    BY <1>2, <1>3
  <2>2. x \in Nat /\ y \in Nat
    OBVIOUS
  <2>3. QED
    BY <2>1, <2>2
<1>5. QED
  BY <1>4

\* In a finite set of naturals every rank is taken by some element.
LEMMA EveryRank ==
    ASSUME NEW S \in SUBSET Nat, IsFiniteSet(S),
           NEW i \in Nat, i < Cardinality(S)
    PROVE  \E p \in S : Cardinality({q \in S : q < p}) = i
<1> DEFINE Rank(p) == Cardinality({q \in S : q < p})
           T == {j \in Nat : j < Cardinality(S) /\ \A p \in S : Rank(p) # j}
<1>1. SUFFICES ASSUME T # {} PROVE FALSE
  OBVIOUS
<1>2. PICK j \in T : \A k \in T : j <= k
  BY <1>1, LeastNatural
<1>3. Cardinality(S) \in Nat /\ j \in Nat /\ j < Cardinality(S)
  BY FS_CardinalityType
<1>4. CASE j = 0
  <2>1. S # {}
    BY <1>3, <1>4, FS_EmptySet
  <2>2. PICK p \in S : \A q \in S : p <= q
    BY <2>1, LeastNatural
  <2>3. {q \in S : q < p} = {}
    <3>1. \A q \in S : q \in Nat /\ p \in Nat /\ ~(q < p)
      BY <2>2
    <3>2. QED
      BY <3>1
  <2>4. Rank(p) = 0
    BY <2>3, FS_EmptySet
  <2>5. QED
    BY <1>4, <2>4
<1>5. CASE j # 0
  <2>1. j - 1 \in Nat /\ j - 1 < Cardinality(S) /\ ~(j <= j - 1)
    BY <1>3, <1>5
  <2>2. j - 1 \notin T
    BY <1>2, <2>1
  <2>3. PICK p \in S : Rank(p) = j - 1
    BY <2>1, <2>2
  <2> DEFINE below == {q \in S : q < p}
             above == {q \in S : q > p}
  <2>a. \A q \in S : q \in Nat
    OBVIOUS
  <2>4. IsFiniteSet(below) /\ p \notin below
    BY <2>a, FS_Subset
  <2>b. Cardinality(below) = j - 1
    BY <2>3
  <2> HIDE DEF below, above
  <2>5. Cardinality(below \cup {p}) = j
    <3>1. Cardinality(below \cup {p}) = Cardinality(below) + 1
      BY <2>4, FS_AddElement
    <3>2. QED
      BY <1>3, <2>b, <3>1
  <2>6. above # {}
    <3>1. SUFFICES ASSUME above = {} PROVE FALSE
      OBVIOUS
    <3>2. S = below \cup {p}
      <4>1. ASSUME NEW q \in S PROVE q < p \/ q = p \/ q > p
        BY <2>a
      <4>2. QED
        BY <3>1, <4>1 DEF below, above
    <3>3. QED
      BY <1>3, <2>5, <3>2
  <2>7. PICK m \in above : \A q \in above : m <= q
    <3>1. above \in SUBSET Nat
      BY <2>a DEF above
    <3>2. QED
      BY <2>6, <3>1, LeastNatural
  <2>8. {q \in S : q < m} = below \cup {p}
    <3>1. m \in S /\ p < m
      BY <2>7 DEF above
    <3>2. ASSUME NEW q \in S PROVE q < m <=> q < p \/ q = p
      <4>1. q \in Nat /\ p \in Nat /\ m \in Nat
        BY <2>a, <3>1
      <4>2. q > p => m <= q
        BY <2>7 DEF above
      <4>3. QED
        BY <3>1, <4>1, <4>2
    <3>3. QED
      BY <3>2 DEF below
  <2>9. m \in S /\ Rank(m) = j
    <3>1. m \in S
      BY <2>7 DEF above
    <3>2. Cardinality({q \in S : q < m}) = j
      BY <2>5, <2>8
    <3>3. QED
      BY <3>1, <3>2
  <2>10. QED
    BY <2>9
<1>6. QED
  BY <1>4, <1>5

-----------------------------------------------------------------------------
(* Counting *)

\* Two sets of which each member of the one stands for one of the other.
LEMMA SameCount ==
    ASSUME NEW S, IsFiniteSet(S), NEW T, NEW f \in [S -> T],
           \A x, y \in S : f[x] = f[y] => x = y,
           \A z \in T : \E x \in S : f[x] = z
    PROVE  /\ IsFiniteSet(T)
           /\ Cardinality(T) = Cardinality(S)
<1>1. f \in Bijection(S, T)
  BY DEF Bijection, Injection, Surjection, IsInjective
<1>2. ExistsBijection(S, T)
  BY <1>1 DEF ExistsBijection
<1>3. QED
  BY <1>2, FS_Bijection

-----------------------------------------------------------------------------
(* Loops *)

\* Induction up to m, for the members of a set.
LEMMA EveryTurn ==
    ASSUME NEW m \in Nat, NEW T, 0 \in T,
           \A n \in 1..m : n - 1 \in T => n \in T
    PROVE  \A n \in 0..m : n \in T
<1> DEFINE U == {k \in 0..m : k \notin T}
<1>1. SUFFICES ASSUME U # {} PROVE FALSE
  OBVIOUS
<1>2. U \in SUBSET Nat
  OBVIOUS
<1>3. PICK k \in U : \A j \in U : k <= j
  BY <1>1, <1>2, LeastNatural
<1>4. k \in 0..m /\ k \notin T
  OBVIOUS
<1>5. k \in 1..m /\ k - 1 \in 0..m /\ ~(k <= k - 1)
  BY <1>4
<1>6. k - 1 \in T
  BY <1>3, <1>5
<1>7. QED
  BY <1>4, <1>5, <1>6

\* The turns of a loop, from s, the n-th by F[n] from the one before.
AreTurns(f, S, F, s, m) ==
    /\ f \in [0..m -> S]
    /\ f[0] = s
    /\ \A n \in 1..m : f[n] = F[n][f[n - 1]]

\* A loop whose turns keep to a set has all its turns.  The least number of
\* turns for which it had not could be reached from the one before.
LEMMA TurnsExist ==
    ASSUME NEW S, NEW m \in Nat, NEW F \in [1..m -> [S -> S]], NEW s \in S
    PROVE  \E f : AreTurns(f, S, F, s, m)
<1> DEFINE Has(k) == \E f : AreTurns(f, S, F, s, k)
           T == {k \in 0..m : Has(k)}
<1>1. 0 \in T
  <2>1. /\ [n \in 0..0 |-> s] \in [0..0 -> S]
        /\ [n \in 0..0 |-> s][0] = s
    OBVIOUS
  <2>2. 1..0 = {}
    OBVIOUS
  <2>3. Has(0)
    BY <2>1, <2>2 DEF AreTurns
  <2>4. QED
    BY <2>3
<1>2. ASSUME NEW k \in 1..m, k - 1 \in T
      PROVE  k \in T
  <2>1. k - 1 \in Nat /\ k \in 0..m /\ k \in Nat
    OBVIOUS
  <2>2. PICK f \in [0..(k - 1) -> S] :
           /\ f[0] = s
           /\ \A n \in 1..(k - 1) : f[n] = F[n][f[n - 1]]
    BY <1>2 DEF AreTurns
  <2> DEFINE g == [n \in 0..k |-> IF n = k THEN F[k][f[k - 1]] ELSE f[n]]
  <2>3. F[k][f[k - 1]] \in S
    <3>1. f[k - 1] \in S
      BY <2>1, <2>2
    <3>2. F[k] \in [S -> S]
      OBVIOUS
    <3>3. QED
      BY <3>1, <3>2
  <2>4. g \in [0..k -> S]
    BY <2>1, <2>2, <2>3
  <2>5. g[0] = s
    BY <2>1, <2>2
  <2>6. ASSUME NEW n \in 1..k
        PROVE  g[n] = F[n][g[n - 1]]
    <3>1. n - 1 \in 0..k /\ n - 1 # k /\ n \in 0..k
      BY <2>1
    <3>2. g[n - 1] = f[n - 1]
      BY <3>1
    <3>3. CASE n = k
      BY <3>1, <3>2, <3>3
    <3>4. CASE n # k
      <4>1. n \in 1..(k - 1)
        BY <2>1, <3>4
      <4>2. QED
        BY <2>2, <3>1, <3>2, <3>4, <4>1
    <3>5. QED
      BY <3>3, <3>4
  <2> HIDE DEF g
  <2>7. Has(k)
    BY <2>4, <2>5, <2>6 DEF AreTurns
  <2>8. QED
    BY <2>1, <2>7
<1> HIDE DEF T
<1>3. \A n \in 0..m : n \in T
  BY <1>1, <1>2, EveryTurn
<1>4. m \in T
  BY <1>3
<1>5. QED
  BY <1>4 DEF T

=============================================================================
