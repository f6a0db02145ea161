---------------------------- MODULE InputsProofs ----------------------------
(***************************************************************************)
(* Theorems about the way of an input, for any keys, any size of the table *)
(* and any text a key brings: which entries the program may lose, and that *)
(* Ctrl does not stay in the table when it is no longer held.              *)
(***************************************************************************)
EXTENDS Inputs, Loops, SequenceTheorems

-----------------------------------------------------------------------------
(* Counting in a sequence *)

\* The places of s that hold a member of X, and their number.
Places(s, X) == {i \in 1..Len(s) : s[i] \in X}

Count(s, X) == Cardinality(Places(s, X))

LEMMA PlacesAre ==
    ASSUME NEW S, NEW s \in Seq(S), NEW X
    PROVE  /\ IsFiniteSet(Places(s, X))
           /\ Count(s, X) \in Nat
           /\ Count(s, X) = 0 <=> \A i \in 1..Len(s) : s[i] \notin X
<1>1. IsFiniteSet(1..Len(s)) /\ Places(s, X) \in SUBSET (1..Len(s))
  BY LenProperties, FS_Interval DEF Places
<1>2. IsFiniteSet(Places(s, X))
  BY <1>1, FS_Subset
<1>3. Count(s, X) \in Nat /\ (Count(s, X) = 0 <=> Places(s, X) = {})
  BY <1>2, FS_CardinalityType, FS_EmptySet DEF Count
<1>4. Places(s, X) = {} <=> \A i \in 1..Len(s) : s[i] \notin X
  BY DEF Places
<1>5. QED
  BY <1>2, <1>3, <1>4

LEMMA CountAppend ==
    ASSUME NEW S, NEW s \in Seq(S), NEW e \in S, NEW X
    PROVE  Count(Append(s, e), X) = Count(s, X) + (IF e \in X THEN 1 ELSE 0)
<1> DEFINE t == Append(s, e)
           n == Len(s) + 1
<1>1. /\ Len(s) \in Nat /\ Len(t) = n
      /\ \A i \in 1..Len(s) : t[i] = s[i]
      /\ t[n] = e
  BY AppendProperties, LenProperties
<1>2. n \notin Places(s, X)
  BY <1>1 DEF Places
<1>a. IsFiniteSet(Places(s, X))
  BY PlacesAre
<1> HIDE DEF t
<1>3. CASE e \in X
  <2>1. Places(t, X) = Places(s, X) \cup {n}
    BY <1>1, <1>3 DEF Places
  <2>2. QED
    BY <1>2, <1>a, <1>3, <2>1, FS_AddElement DEF Count, t
<1>4. CASE e \notin X
  <2>1. Places(t, X) = Places(s, X)
    BY <1>1, <1>4 DEF Places
  <2>2. Count(s, X) \in Nat
    BY PlacesAre
  <2>3. QED
    BY <1>4, <2>1, <2>2 DEF Count, t
<1>5. QED
  BY <1>3, <1>4

\* The sequence t has the elements of s but for the i-th: its place k is the
\* place f[k] of s.
HasOthers(t, s, i, f) ==
    /\ f \in [1..Len(t) -> 1..Len(s)]
    /\ \A j, k \in 1..Len(t) : f[j] = f[k] => j = k
    /\ \A k \in 1..Len(t) : f[k] # i /\ t[k] = s[f[k]]
    /\ \A j \in 1..Len(s) : j # i => \E k \in 1..Len(t) : f[k] = j

LEMMA CountOthers ==
    ASSUME NEW S, NEW s \in Seq(S), NEW t \in Seq(S), NEW X, NEW i \in 1..Len(s),
           NEW f, HasOthers(t, s, i, f)
    PROVE  Count(t, X) = Count(s, X) - (IF s[i] \in X THEN 1 ELSE 0)
<1> DEFINE A == Places(t, X)
           B == Places(s, X) \ {i}
           g == [k \in A |-> f[k]]
<1>1. g \in [A -> B]
  BY DEF Places, HasOthers
<1>2. \A j, k \in A : g[j] = g[k] => j = k
  BY DEF Places, HasOthers
<1>3. ASSUME NEW j \in B
      PROVE  \E k \in A : g[k] = j
  <2>1. j \in 1..Len(s) /\ j # i /\ s[j] \in X
    BY DEF Places
  <2>2. PICK k \in 1..Len(t) : f[k] = j
    BY <2>1 DEF HasOthers
  <2>3. k \in A
    BY <2>1, <2>2 DEF Places, HasOthers
  <2>4. QED
    BY <2>2, <2>3
<1>4. IsFiniteSet(A) /\ IsFiniteSet(Places(s, X)) /\ Count(s, X) \in Nat
  BY PlacesAre
<1>5. Cardinality(B) = IF i \in Places(s, X) THEN Count(s, X) - 1 ELSE Count(s, X)
  BY <1>4, FS_RemoveElement DEF Count
<1>6. i \in Places(s, X) <=> s[i] \in X
  BY DEF Places
<1> HIDE DEF A, B, g
<1>7. Cardinality(B) = Cardinality(A)
  BY <1>1, <1>2, <1>3, <1>4, SameCount
<1>8. QED
  BY <1>4, <1>5, <1>6, <1>7 DEF A, Count

LEMMA CountTail ==
    ASSUME NEW S, NEW s \in Seq(S), s # <<>>, NEW X
    PROVE  Count(Tail(s), X) = Count(s, X) - (IF Head(s) \in X THEN 1 ELSE 0)
<1> DEFINE t == Tail(s)
           f == [k \in 1..Len(t) |-> k + 1]
<1>1. /\ Len(s) \in Nat /\ Len(s) > 0
      /\ t \in Seq(S)
      /\ Len(t) = Len(s) - 1
      /\ \A k \in 1..Len(t) : t[k] = s[k + 1]
      /\ Head(s) = s[1]
  BY HeadTailProperties, EmptySeq
<1> HIDE DEF t
<1>2. f \in [1..Len(t) -> 1..Len(s)]
  BY <1>1
<1>3. \A j, k \in 1..Len(t) : f[j] = f[k] => j = k
  BY <1>1
<1>4. \A k \in 1..Len(t) : f[k] # 1 /\ t[k] = s[f[k]]
  BY <1>1
<1>5. ASSUME NEW j \in 1..Len(s), j # 1
      PROVE  \E k \in 1..Len(t) : f[k] = j
  <2>1. j - 1 \in 1..Len(t) /\ j - 1 + 1 = j
    BY <1>1, <1>5
  <2>2. QED
    BY <2>1
<1>6. 1 \in 1..Len(s)
  BY <1>1
<1> HIDE DEF f
<1>7. HasOthers(t, s, 1, f)
  BY <1>2, <1>3, <1>4, <1>5 DEF HasOthers
<1>8. Count(t, X) = Count(s, X) - (IF s[1] \in X THEN 1 ELSE 0)
  BY <1>1, <1>6, <1>7, CountOthers
<1>9. QED
  BY <1>1, <1>8 DEF t

-----------------------------------------------------------------------------
(* Taking an entry out of the table *)

\* The last entry takes the place of the one that goes.
LEMMA RemoveSwapIs ==
    ASSUME NEW S, NEW t \in Seq(S), NEW i \in 1..Len(t)
    PROVE  /\ RemoveSwap(t, i) \in Seq(S)
           /\ Len(RemoveSwap(t, i)) = Len(t) - 1
           /\ \A k \in 1..(Len(t) - 1) :
                 RemoveSwap(t, i)[k] = IF k = i THEN t[Len(t)] ELSE t[k]
<1> DEFINE s == [t EXCEPT ![i] = Last(t)]
<1>1. RemoveSwap(t, i) = SubSeq(s, 1, Len(s) - 1)
  BY DEF RemoveSwap, Front
<1>2. Len(t) \in Nat /\ Len(t) > 0 /\ Last(t) = t[Len(t)] /\ Last(t) \in S
  BY DEF Last
<1>3. /\ s \in Seq(S) /\ Len(s) = Len(t)
      /\ \A k \in 1..Len(t) : s[k] = IF k = i THEN t[Len(t)] ELSE t[k]
  BY <1>2, ExceptSeq
<1> HIDE DEF s
<1>4. \A k \in 1..(Len(s) - 1) : s[k] \in S
  BY <1>2, <1>3
<1>5. /\ SubSeq(s, 1, Len(s) - 1) \in Seq(S)
      /\ Len(SubSeq(s, 1, Len(s) - 1)) = Len(s) - 1
      /\ \A k \in 1..(Len(s) - 1) : SubSeq(s, 1, Len(s) - 1)[k] = s[k]
  BY <1>2, <1>3, <1>4, SubSeqProperties
<1>6. QED
  BY <1>1, <1>2, <1>3, <1>5

LEMMA CountRemoved ==
    ASSUME NEW S, NEW s \in Seq(S), NEW i \in 1..Len(s), NEW X
    PROVE  Count(RemoveSwap(s, i), X)
              = Count(s, X) - (IF s[i] \in X THEN 1 ELSE 0)
<1> DEFINE t == RemoveSwap(s, i)
           f == [k \in 1..Len(t) |-> IF k = i THEN Len(s) ELSE k]
<1>1. /\ Len(s) \in Nat /\ Len(s) > 0
      /\ t \in Seq(S)
      /\ Len(t) = Len(s) - 1
      /\ \A k \in 1..(Len(s) - 1) : t[k] = IF k = i THEN s[Len(s)] ELSE s[k]
  BY RemoveSwapIs, LenProperties
<1> HIDE DEF t
<1>2. f \in [1..Len(t) -> 1..Len(s)]
  BY <1>1
<1>3. \A j, k \in 1..Len(t) : f[j] = f[k] => j = k
  BY <1>1
<1>4. \A k \in 1..Len(t) : f[k] # i /\ t[k] = s[f[k]]
  BY <1>1
<1>5. ASSUME NEW j \in 1..Len(s), j # i
      PROVE  \E k \in 1..Len(t) : f[k] = j
  <2>1. CASE j = Len(s)
    <3>1. i \in 1..Len(t) /\ f[i] = j
      BY <1>1, <1>5, <2>1
    <3>2. QED
      BY <3>1
  <2>2. CASE j # Len(s)
    <3>1. j \in 1..Len(t) /\ f[j] = j
      BY <1>1, <1>5, <2>2
    <3>2. QED
      BY <3>1
  <2>3. QED
    BY <2>1, <2>2
<1> HIDE DEF f
<1>6. HasOthers(t, s, i, f)
  BY <1>2, <1>3, <1>4, <1>5 DEF HasOthers
<1>7. QED
  BY <1>1, <1>6, CountOthers DEF t

LEMMA MinIs ==
    ASSUME NEW S \in SUBSET Nat, S # {}
    PROVE  Min(S) \in S
<1>1. \E x \in S : \A y \in S : x <= y
  BY LeastNatural
<1>2. QED
  BY <1>1 DEF Min

\* An entry that is the same as e goes, if there is one; else nothing happens.
LEMMA ConsumeIs ==
    ASSUME NEW S, NEW t \in Seq(S), NEW e
    PROVE  \/ /\ \A k \in 1..Len(t) : ~Same(t[k], e)
              /\ consume_input(t, e) = t
           \/ \E i \in 1..Len(t) :
                 Same(t[i], e) /\ consume_input(t, e) = RemoveSwap(t, i)
<1> DEFINE found == {i \in DOMAIN t : Same(t[i], e)}
<1>1. Len(t) \in Nat /\ DOMAIN t = 1..Len(t)
  BY LenProperties
<1>2. consume_input(t, e) = IF found = {} THEN t ELSE RemoveSwap(t, Min(found))
  BY DEF consume_input
<1>3. CASE found = {}
  BY <1>1, <1>2, <1>3
<1>4. CASE found # {}
  <2>1. found \in SUBSET Nat
    BY <1>1
  <2>2. Min(found) \in found
    BY <1>4, <2>1, MinIs
  <2>3. Min(found) \in 1..Len(t) /\ Same(t[Min(found)], e)
    BY <1>1, <2>2
  <2> HIDE DEF found
  <2>4. QED
    BY <1>2, <1>4, <2>3
<1>5. QED
  BY <1>3, <1>4

\* So of no kind there are more entries than before, of the kinds that e is
\* not the same as there are as many, and of one that are all the same as e
\* there is one less, if there was one.
LEMMA ConsumeCounts ==
    ASSUME NEW S, NEW t \in Seq(S), NEW e, NEW X
    PROVE  /\ consume_input(t, e) \in Seq(S)
           /\ Len(consume_input(t, e)) <= Len(t)
           /\ Count(consume_input(t, e), X) <= Count(t, X)
           /\ (\A d \in S : d \in X => ~Same(d, e))
                 => Count(consume_input(t, e), X) = Count(t, X)
           /\ (\A d \in S : d \in X <=> Same(d, e))
                 => Count(consume_input(t, e), X)
                       = IF Count(t, X) = 0 THEN 0 ELSE Count(t, X) - 1
<1>1. Count(t, X) \in Nat /\ (Count(t, X) = 0 <=> \A i \in 1..Len(t) : t[i] \notin X)
  BY PlacesAre
<1>2. Len(t) \in Nat /\ \A i \in 1..Len(t) : t[i] \in S
  BY ElementOfSeq, LenProperties
<1>3. CASE /\ \A k \in 1..Len(t) : ~Same(t[k], e)
           /\ consume_input(t, e) = t
  BY <1>1, <1>2, <1>3
<1>4. ASSUME NEW i \in 1..Len(t), Same(t[i], e), consume_input(t, e) = RemoveSwap(t, i)
      PROVE  /\ consume_input(t, e) \in Seq(S)
             /\ Len(consume_input(t, e)) <= Len(t)
             /\ Count(consume_input(t, e), X) <= Count(t, X)
             /\ (\A d \in S : d \in X => ~Same(d, e))
                   => Count(consume_input(t, e), X) = Count(t, X)
             /\ (\A d \in S : d \in X <=> Same(d, e))
                   => Count(consume_input(t, e), X)
                         = IF Count(t, X) = 0 THEN 0 ELSE Count(t, X) - 1
  <2>1. RemoveSwap(t, i) \in Seq(S) /\ Len(RemoveSwap(t, i)) = Len(t) - 1
    BY RemoveSwapIs
  <2>2. Count(RemoveSwap(t, i), X) = Count(t, X) - (IF t[i] \in X THEN 1 ELSE 0)
    BY CountRemoved
  <2>3. t[i] \in S /\ (t[i] \in X => Count(t, X) # 0)
    BY <1>1, <1>2
  <2>4. QED
    BY <1>1, <1>2, <1>4, <2>1, <2>2, <2>3
<1>5. QED
  BY <1>3, <1>4, ConsumeIs

-----------------------------------------------------------------------------
(* Throwing the motions away *)

Events ==
    {Press(k) : k \in Keys}
    \cup {Release(k) : k \in Keys}
    \cup {[type |-> "MotionNotify", of |-> p] : p \in Positions}
    \cup {[type |-> t, of |-> "-"] : t \in OtherTypes}

\* The events of q that are left up to the n-th, in t, are the ones at the
\* places f[1], f[2], ... of q.
IsLeft(q, n, t, f) ==
    /\ t \in Seq(Events)
    /\ f \in [1..Len(t) -> 1..n]
    /\ \A k \in 1..Len(t) : t[k] = q[f[k]] /\ ~IsMotion(t[k])
    /\ \A j, k \in 1..Len(t) : j < k => f[j] < f[k]
    /\ \A i \in 1..n : ~IsMotion(q[i]) => \E k \in 1..Len(t) : f[k] = i

\* The n-th turn of the loop.
KeepTurn(q, n, t) == IF IsMotion(q[n]) THEN t ELSE Append(t, q[n])

LEMMA KeepStep ==
    ASSUME NEW q \in Seq(Events), NEW n \in 1..Len(q),
           NEW t, NEW f, IsLeft(q, n - 1, t, f)
    PROVE  \E g : IsLeft(q, n, KeepTurn(q, n, t), g)
<1> DEFINE u == KeepTurn(q, n, t)
           g == [k \in 1..Len(u) |-> IF k = Len(t) + 1 THEN n ELSE f[k]]
<1>1. q[n] \in Events /\ n \in Nat /\ t \in Seq(Events) /\ Len(t) \in Nat
  BY ElementOfSeq, LenProperties DEF IsLeft
<1>2. /\ f \in [1..Len(t) -> 1..(n - 1)]
      /\ \A k \in 1..Len(t) : t[k] = q[f[k]] /\ ~IsMotion(t[k])
      /\ \A j, k \in 1..Len(t) : j < k => f[j] < f[k]
      /\ \A i \in 1..(n - 1) : ~IsMotion(q[i]) => \E k \in 1..Len(t) : f[k] = i
  BY DEF IsLeft
<1>3. CASE IsMotion(q[n])
  <2>1. u = t
    BY <1>3 DEF KeepTurn
  <2>2. f \in [1..Len(t) -> 1..n]
    BY <1>1, <1>2
  <2>3. ASSUME NEW i \in 1..n, ~IsMotion(q[i])
        PROVE  \E k \in 1..Len(t) : f[k] = i
    <3>1. i \in 1..(n - 1)
      BY <1>1, <1>3, <2>3
    <3>2. QED
      BY <1>2, <2>3, <3>1
  <2> HIDE DEF u
  <2>4. IsLeft(q, n, u, f)
    BY <1>1, <1>2, <2>1, <2>2, <2>3 DEF IsLeft
  <2>5. QED
    BY <2>4 DEF u
<1>4. CASE ~IsMotion(q[n])
  <2>1. u = Append(t, q[n])
    BY <1>4 DEF KeepTurn
  <2>2. /\ u \in Seq(Events)
        /\ Len(u) = Len(t) + 1
        /\ \A k \in 1..Len(t) : u[k] = t[k]
        /\ u[Len(t) + 1] = q[n]
    BY <1>1, <2>1, AppendProperties
  <2> HIDE DEF u
  <2>3. \A k \in 1..Len(t) : f[k] \in 1..(n - 1)
    BY <1>2
  <2>4. g \in [1..Len(u) -> 1..n]
    BY <1>1, <2>2, <2>3
  <2>5. \A k \in 1..Len(t) : g[k] = f[k]
    BY <1>1, <2>2
  <2>6. g[Len(t) + 1] = n
    BY <1>1, <2>2
  <2>a. \A k \in 1..Len(u) : k \in 1..Len(t) \/ k = Len(t) + 1
    BY <1>1, <2>2
  <2> HIDE DEF g
  <2>7. \A k \in 1..Len(u) : u[k] = q[g[k]] /\ ~IsMotion(u[k])
    BY <1>2, <1>4, <2>2, <2>5, <2>6, <2>a
  <2>8. ASSUME NEW j \in 1..Len(u), NEW k \in 1..Len(u), j < k
        PROVE  g[j] < g[k]
    <3>1. j \in 1..Len(t)
      BY <1>1, <2>2, <2>8
    <3>2. CASE k \in 1..Len(t)
      BY <1>2, <2>5, <2>8, <3>1, <3>2
    <3>3. CASE k = Len(t) + 1
      BY <1>1, <2>3, <2>5, <2>6, <3>1, <3>3
    <3>4. QED
      BY <2>a, <3>2, <3>3
  <2>9. ASSUME NEW i \in 1..n, ~IsMotion(q[i])
        PROVE  \E k \in 1..Len(u) : g[k] = i
    <3>1. CASE i = n
      <4>1. Len(t) + 1 \in 1..Len(u)
        BY <1>1, <2>2
      <4>2. QED
        BY <2>6, <3>1, <4>1
    <3>2. CASE i # n
      <4>1. i \in 1..(n - 1)
        BY <1>1, <3>2
      <4>2. PICK k \in 1..Len(t) : f[k] = i
        BY <1>2, <2>9, <4>1
      <4>3. k \in 1..Len(u)
        BY <1>1, <2>2
      <4>4. QED
        BY <2>5, <4>2, <4>3
    <3>3. QED
      BY <3>1, <3>2
  <2>10. IsLeft(q, n, u, g)
    BY <2>2, <2>4, <2>7, <2>8, <2>9 DEF IsLeft
  <2>11. QED
    BY <2>10 DEF u
<1>5. QED
  BY <1>3, <1>4

LEMMA WithoutMotionsIs ==
    ASSUME NEW q \in Seq(Events)
    PROVE  \E f : IsLeft(q, Len(q), WithoutMotions(q), f)
<1> DEFINE S == Seq(Events)
           m == Len(q)
           F == [n \in 1..Len(q) |-> [t \in S |-> KeepTurn(q, n, t)]]
           Is(f) == f = [n \in 0..Len(q) |->
                      IF n = 0 THEN <<>>
                      ELSE IF IsMotion(q[n]) THEN f[n - 1]
                      ELSE Append(f[n - 1], q[n])]
           kept == CHOOSE f : Is(f)
<1>1. m \in Nat
  BY LenProperties
<1>2. <<>> \in S
  BY EmptySeq
<1>3. ASSUME NEW n \in 1..m, NEW t \in S
      PROVE  KeepTurn(q, n, t) \in S
  <2>1. q[n] \in Events
    BY ElementOfSeq
  <2>2. Append(t, q[n]) \in S
    BY <2>1, AppendProperties
  <2>3. QED
    BY <2>2 DEF KeepTurn
<1>4. F \in [1..m -> [S -> S]]
  BY <1>3
<1>5. PICK g : AreTurns(g, S, F, <<>>, m)
  <2> HIDE DEF S, F, m
  <2>1. QED
    BY <1>1, <1>2, <1>4, TurnsExist
<1>6. Is(g)
  <2>1. ASSUME NEW n \in 0..m, n # 0
        PROVE  g[n] = KeepTurn(q, n, g[n - 1])
    <3>1. n - 1 \in 0..m /\ n \in 1..m
      BY <1>1, <2>1
    <3>2. g[n - 1] \in S /\ g[n] = F[n][g[n - 1]]
      BY <1>5, <3>1 DEF AreTurns
    <3>3. QED
      BY <3>1, <3>2
  <2>2. g = [n \in 0..m |-> IF n = 0 THEN <<>> ELSE KeepTurn(q, n, g[n - 1])]
    BY <1>5, <2>1 DEF AreTurns
  <2>3. QED
    BY <2>2 DEF KeepTurn
<1>7. Is(kept)
  BY <1>6
<1>8. WithoutMotions(q) = kept[Len(q)]
  BY DEF WithoutMotions
<1> HIDE DEF kept
<1>9. kept = [n \in 0..m |-> IF n = 0 THEN <<>> ELSE KeepTurn(q, n, kept[n - 1])]
  BY <1>7 DEF KeepTurn
<1>10. kept[0] = <<>> /\ \A n \in 1..m : kept[n] = KeepTurn(q, n, kept[n - 1])
  BY <1>1, <1>9
<1> DEFINE T == {n \in 0..m : \E f : IsLeft(q, n, kept[n], f)}
<1>11. 0 \in T
  <2> DEFINE none == [k \in 1..0 |-> k]
  <2>1. 1..0 = {} /\ Len(<<>>) = 0
    BY EmptySeq
  <2>2. IsLeft(q, 0, <<>>, none)
    BY <1>2, <2>1 DEF IsLeft
  <2>3. QED
    BY <1>1, <1>10, <2>2
<1>12. ASSUME NEW n \in 1..m, n - 1 \in T
       PROVE  n \in T
  <2>1. PICK f : IsLeft(q, n - 1, kept[n - 1], f)
    BY <1>12
  <2>2. \E h : IsLeft(q, n, KeepTurn(q, n, kept[n - 1]), h)
    BY <2>1, KeepStep
  <2>3. n \in 0..m
    BY <1>1
  <2>4. QED
    BY <1>10, <2>2, <2>3
<1> HIDE DEF T
<1>13. m \in T
  <2> HIDE DEF m
  <2>1. \A n \in 0..m : n \in T
    BY <1>1, <1>11, <1>12, EveryTurn
  <2>2. QED
    BY <1>1, <2>1
<1>14. QED
  BY <1>8, <1>13 DEF T

\* Nothing else is thrown away.
LEMMA CountKept ==
    ASSUME NEW q \in Seq(Events), NEW X, \A e \in X : ~IsMotion(e)
    PROVE  /\ WithoutMotions(q) \in Seq(Events)
           /\ Count(WithoutMotions(q), X) = Count(q, X)
<1> DEFINE t == WithoutMotions(q)
           A == Places(t, X)
           B == Places(q, X)
<1>1. PICK f : IsLeft(q, Len(q), t, f)
  BY WithoutMotionsIs
<1> HIDE DEF t
<1>2. /\ t \in Seq(Events) /\ Len(t) \in Nat /\ Len(q) \in Nat
      /\ f \in [1..Len(t) -> 1..Len(q)]
      /\ \A k \in 1..Len(t) : t[k] = q[f[k]]
      /\ \A j, k \in 1..Len(t) : j < k => f[j] < f[k]
      /\ \A i \in 1..Len(q) : ~IsMotion(q[i]) => \E k \in 1..Len(t) : f[k] = i
  BY <1>1, LenProperties DEF IsLeft
<1> DEFINE g == [k \in A |-> f[k]]
<1>3. g \in [A -> B]
  BY <1>2 DEF Places
<1>4. ASSUME NEW j \in A, NEW k \in A, g[j] = g[k]
      PROVE  j = k
  <2>1. /\ j \in 1..Len(t) /\ k \in 1..Len(t)
        /\ f[j] = f[k]
    BY <1>4 DEF Places
  <2>2. f[j] \in Int /\ f[k] \in Int
    BY <1>2, <2>1
  <2>3. ~(j < k) /\ ~(k < j)
    BY <1>2, <2>1, <2>2
  <2>4. QED
    BY <1>2, <2>1, <2>3
<1>5. ASSUME NEW i \in B
      PROVE  \E k \in A : g[k] = i
  <2>1. i \in 1..Len(q) /\ q[i] \in X
    BY DEF Places
  <2>2. PICK k \in 1..Len(t) : f[k] = i
    BY <1>2, <2>1
  <2>3. k \in A
    BY <1>2, <2>1, <2>2 DEF Places
  <2>4. QED
    BY <2>2, <2>3
<1>6. IsFiniteSet(A)
  BY <1>2, PlacesAre
<1> HIDE DEF A, B, g
<1>7. Cardinality(B) = Cardinality(A)
  BY <1>3, <1>4, <1>5, <1>6, SameCount
<1>8. QED
  BY <1>2, <1>7 DEF A, B, t, Count

-----------------------------------------------------------------------------
(* Events and entries *)

\* The entries that window_pol_event makes.
Entry ==
    {Key(KeysymOf[k], TextOf[k]) : k \in Keys}
    \cup {Mouse("MOUSE1"), Request("CLOSE"), Request("RESIZE")}

LEMMA EntryIs ==
    ASSUME NEW d \in Entry
    PROVE  /\ d \in Entries
           /\ \/ /\ d.tag = "keyboard"
                 /\ \E k \in Keys : d.what = KeysymOf[k] /\ d.text = TextOf[k]
              \/ /\ d.tag \in {"mouse", "request"}
                 /\ d.what \in {"MOUSE1", "CLOSE", "RESIZE"}
                 /\ d.text = ""
<1>1. CASE \E k \in Keys : d = Key(KeysymOf[k], TextOf[k])
  <2>1. PICK k \in Keys : d = Key(KeysymOf[k], TextOf[k])
    BY <1>1
  <2>2. d.tag = "keyboard" /\ d.what = KeysymOf[k] /\ d.text = TextOf[k]
    BY <2>1 DEF Key
  <2>3. d \in Entries
    BY <2>1 DEF Key, Entries
  <2>4. QED
    BY <2>2, <2>3
<1>2. CASE d \in {Mouse("MOUSE1"), Request("CLOSE"), Request("RESIZE")}
  <2>1. CASE d = Mouse("MOUSE1")
    BY <2>1 DEF Mouse, Entries
  <2>2. CASE d = Request("CLOSE")
    BY <2>2 DEF Request, Entries
  <2>3. CASE d = Request("RESIZE")
    BY <2>3 DEF Request, Entries
  <2>4. QED
    BY <1>2, <2>1, <2>2, <2>3
<1>3. QED
  BY <1>1, <1>2 DEF Entry

LEMMA EventIs ==
    ASSUME NEW e \in Events
    PROVE  \/ \E k \in Keys : e = Press(k) /\ e.type = "KeyPress" /\ e.of = k
           \/ \E k \in Keys : e = Release(k) /\ e.type = "KeyRelease" /\ e.of = k
           \/ e.type = "MotionNotify" /\ e.of \in Positions
           \/ e.type \in OtherTypes
BY DEF Events, Press, Release

LEMMA OtherTypesAre ==
    OtherTypes = {"ButtonPress", "ButtonRelease", "ClientMessage", "ConfigureNotify"}
BY DEF OtherTypes, ButtonTypes

\* What one can be is not another.
LEMMA EventsDiffer ==
    ASSUME NEW k, NEW j
    PROVE  /\ Press(k).type = "KeyPress" /\ Press(k).of = k
           /\ Release(k).type = "KeyRelease" /\ Release(k).of = k
           /\ Press(k) # Release(j)
           /\ Press(k) = Press(j) => k = j
           /\ Release(k) = Release(j) => k = j
           /\ ~IsMotion(Press(k)) /\ ~IsMotion(Release(k))
<1>1. /\ Press(k).type = "KeyPress" /\ Press(k).of = k
      /\ Release(k).type = "KeyRelease" /\ Release(k).of = k
      /\ Press(j).of = j
      /\ Release(j).type = "KeyRelease" /\ Release(j).of = j
  BY DEF Press, Release
<1>2. QED
  BY <1>1 DEF IsMotion

LEMMA BindsLen ==
    Len(clicker_binds) = 8 /\ DOMAIN clicker_binds = 1..8
BY DEF clicker_binds

\* A bind of one or two inputs of keysyms that there are.
Known(bind) ==
    /\ Len(bind) \in {1, 2}
    /\ Taken(bind[1]).tag = "keyboard"
    /\ Taken(bind[1]).what # "NOT_FOUND"
    /\ Len(bind) = 2 => Taken(bind[2]).what # "NOT_FOUND"

\* The seventh bind is that of backspace.
IsBackspace(bind) == bind = <<Key("BACKSPACE", "")>>

LEMMA BindsAre ==
    /\ \A i \in 1..8 : Known(clicker_binds[i])
    /\ \A i \in 1..8 : IsBackspace(clicker_binds[i]) <=> i = 7
    /\ Len(clicker_binds[7]) = 1
    /\ clicker_binds[7][1] = Key("BACKSPACE", "")
    /\ Taken(clicker_binds[7][1]) = Key("BACKSPACE", "")
    /\ Len(clicker_binds[8]) = 1
    /\ Taken(clicker_binds[8][1]) = Key("ARROW_UP", "")
<1>2. /\ clicker_binds[1] = <<Key("EQUAL", ""), Key("CTRL_LEFT", "")>>
      /\ clicker_binds[2] = <<Key("MINUS", ""), Key("CTRL_LEFT", "")>>
      /\ clicker_binds[3] = <<Key("ARROW_UP", "")>>
      /\ clicker_binds[4] = <<Key("ARROW_DOWN", "")>>
      /\ clicker_binds[5] = <<Key("ARROW_LEFT", "")>>
      /\ clicker_binds[6] = <<Key("ARROW_RIGHT", "")>>
      /\ clicker_binds[7] = <<Key("BACKSPACE", "")>>
      /\ clicker_binds[8] = <<Mouse("MOUSE1")>>
  BY DEF clicker_binds
<1>3. \A sym : /\ Key(sym, "").tag = "keyboard"
               /\ Key(sym, "").what = sym
               /\ Taken(Key(sym, "")) = Key(sym, "")
  BY DEF Key, Taken
<1>4. Mouse("MOUSE1").tag = "mouse" /\ Taken(Mouse("MOUSE1")) = Key("ARROW_UP", "")
  BY DEF Mouse, Taken
<1>5. ASSUME NEW d, Taken(d).tag = "keyboard", Taken(d).what # "NOT_FOUND"
      PROVE  Known(<<d>>)
  <2>1. Len(<<d>>) = 1 /\ <<d>>[1] = d
    OBVIOUS
  <2>2. QED
    BY <1>5, <2>1 DEF Known
<1>6. ASSUME NEW d, Taken(d).tag = "keyboard", Taken(d).what # "NOT_FOUND",
             NEW e, Taken(e).tag = "keyboard", Taken(e).what # "NOT_FOUND"
      PROVE  Known(<<e, d>>)
  <2>1. Len(<<e, d>>) = 2 /\ <<e, d>>[1] = e /\ <<e, d>>[2] = d
    OBVIOUS
  <2>2. QED
    BY <1>6, <2>1 DEF Known
<1>7. ASSUME NEW sym, sym # "NOT_FOUND"
      PROVE  /\ Known(<<Key(sym, "")>>)
             /\ Known(<<Key(sym, ""), Key("CTRL_LEFT", "")>>)
  BY <1>3, <1>5, <1>6, <1>7
<1>8. Known(<<Mouse("MOUSE1")>>)
  <2>1. Taken(Mouse("MOUSE1")).tag = "keyboard" /\ Taken(Mouse("MOUSE1")).what = "ARROW_UP"
    BY <1>3, <1>4
  <2>2. QED
    BY <1>5, <2>1
<1>9. ASSUME NEW i \in 1..8
      PROVE  Known(clicker_binds[i])
  <2>1. CASE i = 1 \/ i = 2
    BY <1>2, <1>7, <2>1
  <2>2. CASE i = 3 \/ i = 4
    BY <1>2, <1>7, <2>2
  <2>3. CASE i = 5 \/ i = 6
    BY <1>2, <1>7, <2>3
  <2>4. CASE i = 7 \/ i = 8
    BY <1>2, <1>7, <1>8, <2>4
  <2>5. QED
    BY <2>1, <2>2, <2>3, <2>4
<1>10. ASSUME NEW d, NEW e
       PROVE  Len(<<d>>) = 1 /\ <<d>>[1] = d /\ Len(<<d, e>>) = 2
  OBVIOUS
<1>11. /\ Len(clicker_binds[7]) = 1 /\ clicker_binds[7][1] = Key("BACKSPACE", "")
       /\ Len(clicker_binds[8]) = 1 /\ clicker_binds[8][1] = Mouse("MOUSE1")
  BY <1>2, <1>10
<1>12. ASSUME NEW i \in 1..8, IsBackspace(clicker_binds[i])
       PROVE  i = 7
  <2>1. Len(clicker_binds[i]) = 1 /\ clicker_binds[i][1] = Key("BACKSPACE", "")
    BY <1>10, <1>12 DEF IsBackspace
  <2>2. Len(clicker_binds[1]) = 2 /\ Len(clicker_binds[2]) = 2
    BY <1>2, <1>10
  <2>3. /\ clicker_binds[3][1] = Key("ARROW_UP", "")
        /\ clicker_binds[4][1] = Key("ARROW_DOWN", "")
        /\ clicker_binds[5][1] = Key("ARROW_LEFT", "")
        /\ clicker_binds[6][1] = Key("ARROW_RIGHT", "")
    BY <1>2, <1>10
  <2>4. \A sym : Key(sym, "") = Key("BACKSPACE", "") => sym = "BACKSPACE"
    BY <1>3
  <2>5. i # 1 /\ i # 2
    <3>1. ASSUME NEW x, NEW y, Len(x) = 1, Len(y) = 2
          PROVE  x # y
      BY <3>1
    <3>2. clicker_binds[i] # clicker_binds[1] /\ clicker_binds[i] # clicker_binds[2]
      BY <2>1, <2>2, <3>1
    <3>3. QED
      BY <3>2
  <2>6. i # 3 /\ i # 4 /\ i # 5 /\ i # 6 /\ i # 8
    <3>1. i # 3
      BY <2>1, <2>3, <2>4
    <3>2. i # 4
      BY <2>1, <2>3, <2>4
    <3>3. i # 5
      BY <2>1, <2>3, <2>4
    <3>4. i # 6
      BY <2>1, <2>3, <2>4
    <3>5. i # 8
      BY <1>3, <1>4, <1>11, <2>1
    <3>6. QED
      BY <3>1, <3>2, <3>3, <3>4, <3>5
  <2>7. QED
    BY <2>5, <2>6
<1>13. /\ Taken(clicker_binds[7][1]) = Key("BACKSPACE", "")
       /\ Taken(clicker_binds[8][1]) = Key("ARROW_UP", "")
       /\ IsBackspace(clicker_binds[7])
  BY <1>2, <1>3, <1>4, <1>11 DEF IsBackspace
<1>14. QED
  BY <1>9, <1>11, <1>12, <1>13

-----------------------------------------------------------------------------
(* The type invariant *)

Texts == {TextOf[k] : k \in Keys}

InputsInv ==
    /\ queue \in Seq(Events)
    /\ down \in SUBSET Keys
    /\ pointer \in Positions /\ position \in Positions
    /\ budget \in 0..MaxEvents
    /\ inputs \in Seq(Entry)
    /\ Len(inputs) <= MaxInputs
    /\ running \in BOOLEAN /\ resize \in BOOLEAN /\ err \in BOOLEAN
    /\ at \in 0..9
    /\ typed \in Seq(Texts)

\* An entry that is added is the one entry more, or the table was full.
LEMMA AddIs ==
    ASSUME InputsInv, NEW d \in Entry, add_input(d), NEW X
    PROVE  /\ inputs' \in Seq(Entry) /\ Len(inputs') <= MaxInputs
           /\ err' \in BOOLEAN
           /\ \/ err' /\ inputs' = inputs
              \/ /\ err' = err
                 /\ Count(inputs', X) = Count(inputs, X) + (IF d \in X THEN 1 ELSE 0)
<1>1. /\ inputs \in Seq(Entry) /\ Len(inputs) <= MaxInputs /\ err \in BOOLEAN
      /\ Len(inputs) \in Nat /\ MaxInputs \in Nat
  BY LenProperties, InputsAssumption DEF InputsInv
<1>2. CASE Len(inputs) >= MaxInputs
  BY <1>1, <1>2 DEF add_input
<1>3. CASE ~(Len(inputs) >= MaxInputs)
  <2>1. inputs' = Append(inputs, d) /\ err' = err
    BY <1>3 DEF add_input
  <2>2. Append(inputs, d) \in Seq(Entry) /\ Len(Append(inputs, d)) = Len(inputs) + 1
    BY <1>1, AppendProperties
  <2>3. Count(Append(inputs, d), X) = Count(inputs, X) + (IF d \in X THEN 1 ELSE 0)
    BY <1>1, CountAppend
  <2>4. QED
    BY <1>1, <1>3, <2>1, <2>2, <2>3
<1>4. QED
  BY <1>2, <1>3

\* What the polling of an event does to the table.
LEMMA PollIs ==
    ASSUME InputsInv, Poll
    PROVE  LET e == Head(queue)
           IN  /\ queue # <<>> /\ queue \in Seq(Events) /\ e \in Events
               /\ running /\ at = 0
               /\ queue' = IF IsMotion(e) THEN WithoutMotions(Tail(queue)) ELSE Tail(queue)
               /\ position' \in Positions
               /\ UNCHANGED <<down, pointer, budget, running, resize, at, typed>>
               /\ \/ \E k \in Keys :
                        e = Press(k) /\ add_input(Key(KeysymOf[k], TextOf[k]))
                  \/ \E k \in Keys :
                        /\ e = Release(k)
                        /\ ~FakeRelease(k) /\ KeysymOf[k] # "NOT_FOUND"
                        /\ inputs' = consume_input(inputs, Key(KeysymOf[k], ""))
                        /\ err' = err
                  \/ \E k \in Keys :
                        /\ e = Release(k)
                        /\ FakeRelease(k) \/ KeysymOf[k] = "NOT_FOUND"
                        /\ inputs' = inputs /\ err' = err
                  \/ /\ e.type \in OtherTypes
                     /\ \E d \in {Mouse("MOUSE1"), Request("CLOSE"), Request("RESIZE")} :
                           add_input(d)
                  \/ /\ e.type \in OtherTypes
                     /\ inputs' = consume_input(inputs, Mouse("MOUSE1"))
                     /\ err' = err
                  \/ IsMotion(e) /\ inputs' = inputs /\ err' = err
<1> DEFINE e == Head(queue)
<1>1. queue # <<>> /\ queue \in Seq(Events) /\ e \in Events
  <2>1. queue # <<>> /\ queue \in Seq(Events)
    BY DEF Poll, InputsInv
  <2>2. QED
    BY <2>1, HeadTailProperties
<1>2. /\ running /\ at = 0
      /\ queue' = IF IsMotion(e) THEN WithoutMotions(Tail(queue)) ELSE Tail(queue)
      /\ position' = NewPosition(e)
      /\ UNCHANGED <<down, pointer, budget, running, resize, at, typed>>
  BY DEF Poll
<1>3. \/ e.type = "KeyPress" /\ add_input(Key(KeysymOf[e.of], TextOf[e.of]))
      \/ /\ e.type = "KeyRelease"
         /\ ~FakeRelease(e.of) /\ KeysymOf[e.of] # "NOT_FOUND"
         /\ inputs' = consume_input(inputs, Key(KeysymOf[e.of], "")) /\ UNCHANGED err
      \/ /\ e.type = "KeyRelease"
         /\ FakeRelease(e.of) \/ KeysymOf[e.of] = "NOT_FOUND"
         /\ UNCHANGED <<inputs, err>>
      \/ e.type = "ButtonPress" /\ add_input(Mouse("MOUSE1"))
      \/ /\ e.type = "ButtonRelease"
         /\ inputs' = consume_input(inputs, Mouse("MOUSE1")) /\ UNCHANGED err
      \/ e.type = "ClientMessage" /\ add_input(Request("CLOSE"))
      \/ e.type = "ConfigureNotify" /\ add_input(Request("RESIZE"))
      \/ IsMotion(e) /\ UNCHANGED <<inputs, err>>
  BY Zenon DEF Poll
<1>4. position' \in Positions
  <2>1. position \in Positions
    BY DEF InputsInv
  <2>2. IsMotion(e) => e.of \in Positions
    BY <1>1, EventIs, OtherTypesAre DEF IsMotion
  <2>3. QED
    BY <1>2, <2>1, <2>2 DEF NewPosition
<1>5. /\ e.type = "KeyPress" => \E k \in Keys : e = Press(k) /\ e.of = k
      /\ e.type = "KeyRelease" => \E k \in Keys : e = Release(k) /\ e.of = k
  BY <1>1, EventIs, OtherTypesAre
<1> HIDE DEF e
<1>6. QED
  BY <1>1, <1>2, <1>3, <1>4, <1>5, OtherTypesAre, Zenon DEF e

\* The table after a bind.
LEMMA AfterBindIs ==
    ASSUME inputs \in Seq(Entry), NEW i \in 1..8
    PROVE  LET bind == clicker_binds[i]
               once == consume_input(inputs, Taken(bind[1]))
           IN  AfterBind(bind) = IF Len(bind) = 1 THEN once
                                 ELSE consume_input(once, Taken(bind[2]))
<1> DEFINE bind == clicker_binds[i]
           S == Seq(Entry)
           m == Len(bind)
           F == [n \in 1..Len(bind) |-> [t \in S |-> consume_input(t, Taken(bind[n]))]]
           Is(f) == f = [n \in 0..Len(bind) |->
                      IF n = 0 THEN inputs ELSE consume_input(f[n - 1], Taken(bind[n]))]
           table == CHOOSE f : Is(f)
<1>1. m \in {1, 2}
  BY BindsAre DEF Known
<1>2. \A t \in S : \A e : consume_input(t, e) \in S
  BY ConsumeCounts
<1> HIDE DEF bind
<1>3. F \in [1..m -> [S -> S]]
  BY <1>2
<1>4. PICK g : AreTurns(g, S, F, inputs, m)
  <2> HIDE DEF F, m
  <2>1. inputs \in S /\ m \in Nat
    BY <1>1
  <2> HIDE DEF S
  <2>2. QED
    BY <1>3, <2>1, TurnsExist
<1>5. Is(g)
  <2>1. ASSUME NEW n \in 0..m, n # 0
        PROVE  g[n] = consume_input(g[n - 1], Taken(bind[n]))
    <3>1. n - 1 \in 0..m /\ n \in 1..m
      BY <1>1, <2>1
    <3>2. g[n - 1] \in S /\ g[n] = F[n][g[n - 1]]
      BY <1>4, <3>1 DEF AreTurns
    <3>3. QED
      BY <3>1, <3>2
  <2>2. QED
    BY <1>4, <2>1 DEF AreTurns
<1>6. Is(table)
  BY <1>5
<1>7. AfterBind(bind) = table[m]
  BY DEF AfterBind
<1> HIDE DEF table
<1>8. table = [n \in 0..m |->
                  IF n = 0 THEN inputs ELSE consume_input(table[n - 1], Taken(bind[n]))]
  BY <1>6
<1>9. /\ table[0] = inputs
      /\ table[1] = consume_input(table[0], Taken(bind[1]))
      /\ m = 2 => table[2] = consume_input(table[1], Taken(bind[2]))
  <2>1. 0 \in 0..m /\ 1 \in 0..m /\ (m = 2 => 2 \in 0..m)
    BY <1>1
  <2>2. 1 - 1 = 0 /\ 2 - 1 = 1
    OBVIOUS
  <2> HIDE DEF m
  <2>3. QED
    BY <1>8, <2>1, <2>2
<1>10. QED
  BY <1>1, <1>7, <1>9 DEF bind

\* A bind takes entries out, none of a key that is not known.
LEMMA BindCounts ==
    ASSUME inputs \in Seq(Entry), NEW i \in 1..8, NEW X
    PROVE  LET t == AfterBind(clicker_binds[i])
           IN  /\ t \in Seq(Entry) /\ Len(t) <= Len(inputs)
               /\ Count(t, X) <= Count(inputs, X)
               /\ (\A d \in Entry : d \in X => d.what = "NOT_FOUND")
                     => Count(t, X) = Count(inputs, X)
<1> DEFINE bind == clicker_binds[i]
           once == consume_input(inputs, Taken(bind[1]))
           twice == consume_input(once, Taken(bind[2]))
<1>1. AfterBind(bind) = IF Len(bind) = 1 THEN once ELSE twice
  BY AfterBindIs
<1>2. /\ Len(bind) \in {1, 2}
      /\ Taken(bind[1]).what # "NOT_FOUND"
      /\ Len(bind) = 2 => Taken(bind[2]).what # "NOT_FOUND"
  BY BindsAre DEF Known
<1> DEFINE None == \A d \in Entry : d \in X => d.what = "NOT_FOUND"
<1>3. ASSUME NEW t \in Seq(Entry), NEW e
      PROVE  /\ consume_input(t, e) \in Seq(Entry)
             /\ Len(consume_input(t, e)) \in Nat /\ Len(t) \in Nat
             /\ Len(consume_input(t, e)) <= Len(t)
             /\ Count(consume_input(t, e), X) \in Nat /\ Count(t, X) \in Nat
             /\ Count(consume_input(t, e), X) <= Count(t, X)
             /\ e.what # "NOT_FOUND" /\ None => Count(consume_input(t, e), X) = Count(t, X)
  <2>1. /\ consume_input(t, e) \in Seq(Entry)
        /\ Len(consume_input(t, e)) <= Len(t)
        /\ Count(consume_input(t, e), X) <= Count(t, X)
        /\ (\A d \in Entry : d \in X => ~Same(d, e))
              => Count(consume_input(t, e), X) = Count(t, X)
    BY ConsumeCounts
  <2>2. e.what # "NOT_FOUND" /\ None => \A d \in Entry : d \in X => ~Same(d, e)
    BY DEF Same
  <2>3. QED
    BY <2>1, <2>2, PlacesAre, LenProperties
<1> HIDE DEF None, bind
<1>4. /\ once \in Seq(Entry)
      /\ Len(once) \in Nat /\ Len(inputs) \in Nat /\ Len(once) <= Len(inputs)
      /\ Count(once, X) \in Nat /\ Count(inputs, X) \in Nat
      /\ Count(once, X) <= Count(inputs, X)
      /\ None => Count(once, X) = Count(inputs, X)
  BY <1>2, <1>3
<1> HIDE DEF once
<1>5. /\ twice \in Seq(Entry)
      /\ Len(twice) \in Nat /\ Len(twice) <= Len(once)
      /\ Count(twice, X) \in Nat
      /\ Count(twice, X) <= Count(once, X)
      /\ Len(bind) = 2 /\ None => Count(twice, X) = Count(once, X)
  BY <1>2, <1>3, <1>4
<1> HIDE DEF twice
<1>6. QED
  BY <1>1, <1>2, <1>4, <1>5 DEF bind, None

\* What the binds do to the table.
LEMMA TableAfterBinds ==
    ASSUME DoBinds
    PROVE  inputs' = inputs \/ \E i \in 1..8 : inputs' = AfterBind(clicker_binds[i])
<1>1. at \in 1..8
  BY BindsLen DEF DoBinds
<1>2. inputs' = inputs \/ \E i \in at..8 : inputs' = AfterBind(clicker_binds[i])
  BY BindsLen DEF DoBinds
<1>3. at..8 \subseteq 1..8
  BY <1>1
<1>4. QED
  BY <1>2, <1>3, Zenon

\* The text that is inserted is that of the entry that goes.
LEMMA TextInputIs ==
    ASSUME InputsInv, TextInput
    PROVE  /\ running /\ at = 9
           /\ UNCHANGED <<server, position, running, resize, err>>
           /\ \/ /\ at' = 9
                 /\ \E i \in 1..Len(inputs) :
                       /\ inputs[i] \in Entry
                       /\ inputs[i].text # ""
                       /\ \E k \in Keys : inputs[i].what = KeysymOf[k]
                                        /\ inputs[i].text = TextOf[k]
                       /\ typed' = Append(typed, inputs[i].text)
                       /\ inputs' = RemoveSwap(inputs, i)
              \/ at' = 0 /\ inputs' = inputs /\ typed' = typed
<1> DEFINE texts == TextEntries(inputs)
<1>1. Len(clicker_binds) + 1 = 9
  BY BindsLen
<1>2. /\ running /\ at = 9
      /\ UNCHANGED <<server, position, running, resize, err>>
      /\ \/ /\ texts # {}
            /\ typed' = Append(typed, inputs[Min(texts)].text)
            /\ inputs' = RemoveSwap(inputs, Min(texts))
            /\ at' = at
         \/ at' = 0 /\ inputs' = inputs /\ typed' = typed
  BY <1>1 DEF TextInput
<1>3. CASE at' = 0 /\ inputs' = inputs /\ typed' = typed
  BY <1>2, <1>3
<1>4. CASE /\ texts # {}
           /\ typed' = Append(typed, inputs[Min(texts)].text)
           /\ inputs' = RemoveSwap(inputs, Min(texts))
           /\ at' = at
  <2>1. inputs \in Seq(Entry) /\ DOMAIN inputs = 1..Len(inputs) /\ Len(inputs) \in Nat
    BY LenProperties DEF InputsInv
  <2>2. texts \in SUBSET Nat
    <3>1. texts \in SUBSET (1..Len(inputs))
      BY <2>1 DEF TextEntries
    <3>2. QED
      BY <2>1, <3>1
  <2>3. Min(texts) \in texts
    BY <1>4, <2>2, MinIs
  <2>4. PICK i \in 1..Len(inputs) : i = Min(texts) /\ inputs[i].text # ""
    BY <2>1, <2>3 DEF TextEntries
  <2>5. inputs[i] \in Entry
    BY <2>1, ElementOfSeq
  <2>6. \E k \in Keys : inputs[i].what = KeysymOf[k] /\ inputs[i].text = TextOf[k]
    BY <2>4, <2>5, EntryIs
  <2> HIDE DEF texts
  <2>7. QED
    BY <1>2, <1>4, <2>4, <2>5, <2>6
<1>5. QED
  BY <1>2, <1>3, <1>4

\* The user and the server add to the queue.
LEMMA SendIs ==
    ASSUME InputsInv, Environment
    PROVE  /\ budget' = budget - 1 /\ budget' \in 0..MaxEvents
           /\ UNCHANGED program
           /\ \/ \E k \in Keys :
                    /\ k \notin down /\ (Queued(Release(k)) => Hasty)
                    /\ down' = down \cup {k} /\ pointer' = pointer
                    /\ queue' = Append(queue, Press(k))
              \/ \E k \in Keys :
                    /\ k \in down
                    /\ down' = down \ {k} /\ pointer' = pointer
                    /\ queue' = Append(queue, Release(k))
              \/ \E k \in Keys :
                    /\ k \in Repeating
                    /\ down' = down /\ pointer' = pointer
                    /\ queue' = Append(Append(queue, Release(k)), Press(k))
              \/ \E e \in Events :
                    /\ e.type \in OtherTypes \cup {"MotionNotify"}
                    /\ down' = down /\ pointer' \in Positions
                    /\ queue' = Append(queue, e)
<1>1. /\ queue \in Seq(Events) /\ budget \in 0..MaxEvents /\ MaxEvents \in Nat
      /\ pointer \in Positions
  BY InputsAssumption DEF InputsInv
<1>2. ASSUME NEW events, Send(events)
      PROVE  /\ budget' = budget - 1 /\ budget' \in 0..MaxEvents
             /\ UNCHANGED program
             /\ queue' = queue \o events
  BY <1>1, <1>2 DEF Send
<1>3. ASSUME NEW e \in Events
      PROVE  queue \o <<e>> = Append(queue, e) /\ Append(queue, e) \in Seq(Events)
  BY <1>1, AppendIsConcat, AppendProperties
<1>4. \A k \in Keys : Press(k) \in Events /\ Release(k) \in Events
  BY DEF Events
<1>5. ASSUME NEW k \in Keys, PressKey(k)
      PROVE  /\ budget' = budget - 1 /\ budget' \in 0..MaxEvents
             /\ UNCHANGED program
             /\ k \notin down /\ (Queued(Release(k)) => Hasty)
             /\ down' = down \cup {k} /\ pointer' = pointer
             /\ queue' = Append(queue, Press(k))
  BY <1>2, <1>3, <1>4, <1>5 DEF PressKey
<1>6. ASSUME NEW k \in Keys, ReleaseKey(k)
      PROVE  /\ budget' = budget - 1 /\ budget' \in 0..MaxEvents
             /\ UNCHANGED program
             /\ k \in down
             /\ down' = down \ {k} /\ pointer' = pointer
             /\ queue' = Append(queue, Release(k))
  BY <1>2, <1>3, <1>4, <1>6 DEF ReleaseKey
<1>7. ASSUME NEW k \in Keys, RepeatKey(k)
      PROVE  /\ budget' = budget - 1 /\ budget' \in 0..MaxEvents
             /\ UNCHANGED program
             /\ k \in Repeating
             /\ down' = down /\ pointer' = pointer
             /\ queue' = Append(Append(queue, Release(k)), Press(k))
  <2>1. Send(<<Release(k), Press(k)>>) /\ k \in Repeating /\ UNCHANGED <<down, pointer>>
    BY <1>7 DEF RepeatKey
  <2>2. queue \o <<Release(k), Press(k)>> = Append(Append(queue, Release(k)), Press(k))
    <3> DEFINE a == Release(k)
               b == Press(k)
    <3>1. a \in Events /\ b \in Events
      BY <1>4
    <3> HIDE DEF a, b
    <3>2. <<a>> \in Seq(Events) /\ <<b>> \in Seq(Events)
      BY <3>1
    <3>3. (queue \o <<a>>) \o <<b>> = queue \o (<<a>> \o <<b>>)
      BY <1>1, <3>2, ConcatAssociative
    <3>4. <<a>> \o <<b>> = <<a, b>>
      <4>1. Append(<<a>>, b) = <<a>> \o <<b>>
        BY <3>1, <3>2, AppendIsConcat
      <4>2. Len(<<a>>) = 1 /\ <<a>>[1] = a
        OBVIOUS
      <4>3. /\ Append(<<a>>, b) \in Seq(Events) /\ Len(Append(<<a>>, b)) = 2
            /\ Append(<<a>>, b)[1] = a /\ Append(<<a>>, b)[2] = b
        BY <3>1, <3>2, <4>2, AppendProperties
      <4>4. <<a, b>> \in Seq(Events)
        BY <3>1
      <4>5. Len(<<a, b>>) = 2 /\ <<a, b>>[1] = a /\ <<a, b>>[2] = b
        OBVIOUS
      <4>6. ASSUME NEW s \in Seq(Events), NEW t \in Seq(Events),
                   Len(s) = 2, Len(t) = 2, s[1] = t[1], s[2] = t[2]
            PROVE  s = t
        <5>1. \A i \in 1..Len(s) : s[i] = t[i]
          BY <4>6
        <5>2. QED
          BY <4>6, <5>1, SeqEqual
      <4>7. QED
        BY <4>1, <4>3, <4>4, <4>5, <4>6
    <3>5. queue \o <<a>> = Append(queue, a) /\ Append(queue, a) \in Seq(Events)
      BY <1>3, <3>1
    <3>6. Append(queue, a) \o <<b>> = Append(Append(queue, a), b)
      BY <3>1, <3>5, AppendIsConcat
    <3>7. queue \o <<a, b>> = Append(Append(queue, a), b)
      BY <3>3, <3>4, <3>5, <3>6
    <3>8. QED
      BY <3>7 DEF a, b
  <2>3. QED
    BY <1>2, <2>1, <2>2
<1>8. ASSUME NEW p \in Positions, MovePointer(p)
      PROVE  /\ budget' = budget - 1 /\ budget' \in 0..MaxEvents
             /\ UNCHANGED program
             /\ \E e \in Events :
                   /\ e.type \in OtherTypes \cup {"MotionNotify"}
                   /\ down' = down /\ pointer' \in Positions
                   /\ queue' = Append(queue, e)
  <2> DEFINE e == [type |-> "MotionNotify", of |-> p]
  <2>1. e \in Events /\ e.type \in OtherTypes \cup {"MotionNotify"}
    BY DEF Events
  <2>2. Send(<<e>>) /\ down' = down /\ pointer' = p
    BY <1>8 DEF MovePointer
  <2> HIDE DEF e
  <2>3. QED
    BY <1>2, <1>3, <2>1, <2>2
<1>9. ASSUME NEW type \in OtherTypes, Other(type)
      PROVE  /\ budget' = budget - 1 /\ budget' \in 0..MaxEvents
             /\ UNCHANGED program
             /\ \E e \in Events :
                   /\ e.type \in OtherTypes \cup {"MotionNotify"}
                   /\ down' = down /\ pointer' \in Positions
                   /\ queue' = Append(queue, e)
  <2> DEFINE e == [type |-> type, of |-> "-"]
  <2>1. e \in Events /\ e.type \in OtherTypes \cup {"MotionNotify"}
    BY DEF Events
  <2>2. Send(<<e>>) /\ down' = down /\ pointer' = pointer
    BY <1>9 DEF Other
  <2> HIDE DEF e
  <2>3. QED
    BY <1>1, <1>2, <1>3, <2>1, <2>2
<1>10. QED
  BY <1>5, <1>6, <1>7, <1>8, <1>9 DEF Environment

LEMMA InvInit == Init => InputsInv
<1> SUFFICES ASSUME Init PROVE InputsInv
  OBVIOUS
<1>1. MaxEvents \in Nat /\ MaxInputs \in Nat /\ Origin \in Positions
  BY InputsAssumption
<1>2. \A S : <<>> \in Seq(S) /\ Len(<<>>) = 0
  BY EmptySeq
<1>3. queue \in Seq(Events) /\ inputs \in Seq(Entry) /\ Len(inputs) <= MaxInputs
  BY <1>1, <1>2 DEF Init
<1>4. typed \in Seq(Texts)
  BY <1>2 DEF Init
<1>5. budget \in 0..MaxEvents /\ at \in 0..9
  BY <1>1 DEF Init
<1>6. QED
  BY <1>1, <1>3, <1>4, <1>5 DEF Init, InputsInv

LEMMA InvStep == InputsInv /\ [Next]_vars => InputsInv'
<1> SUFFICES ASSUME InputsInv, [Next]_vars PROVE InputsInv'
  OBVIOUS
<1>1. CASE UNCHANGED vars
  BY <1>1 DEF vars, server, program, InputsInv
<1>2. CASE Environment
  <2>1. queue' \in Seq(Events)
    <3>1. queue \in Seq(Events)
      BY DEF InputsInv
    <3>2. \A k \in Keys : Press(k) \in Events /\ Release(k) \in Events
      BY DEF Events
    <3>3. \A s \in Seq(Events) : \A e \in Events : Append(s, e) \in Seq(Events)
      BY AppendProperties
    <3>4. QED
      BY <1>2, <3>1, <3>2, <3>3, SendIs
  <2>2. down' \in SUBSET Keys
    BY <1>2, SendIs DEF InputsInv
  <2>3. pointer' \in Positions /\ budget' \in 0..MaxEvents /\ UNCHANGED program
    BY <1>2, SendIs DEF InputsInv
  <2>4. QED
    BY <2>1, <2>2, <2>3 DEF program, InputsInv
<1>3. CASE Poll
  <2> DEFINE e == Head(queue)
  <2>1. queue' \in Seq(Events)
    <3>1. queue # <<>> /\ queue \in Seq(Events)
      BY <1>3, PollIs
    <3>2. Tail(queue) \in Seq(Events)
      BY <3>1, HeadTailProperties
    <3>3. WithoutMotions(Tail(queue)) \in Seq(Events)
      BY <3>2, WithoutMotionsIs DEF IsLeft
    <3>4. QED
      BY <1>3, <3>2, <3>3, PollIs
  <2>2. inputs' \in Seq(Entry) /\ Len(inputs') <= MaxInputs /\ err' \in BOOLEAN
    <3>1. /\ inputs \in Seq(Entry) /\ Len(inputs) <= MaxInputs /\ err \in BOOLEAN
          /\ MaxInputs \in Nat
      BY InputsAssumption DEF InputsInv
    <3>2. \A d \in Entry : add_input(d) =>
             inputs' \in Seq(Entry) /\ Len(inputs') <= MaxInputs /\ err' \in BOOLEAN
      BY AddIs
    <3>3. ASSUME NEW d
          PROVE  consume_input(inputs, d) \in Seq(Entry)
                 /\ Len(consume_input(inputs, d)) <= MaxInputs
      <4>1. /\ consume_input(inputs, d) \in Seq(Entry)
            /\ Len(consume_input(inputs, d)) <= Len(inputs)
        BY <3>1, ConsumeCounts
      <4>2. Len(consume_input(inputs, d)) \in Nat /\ Len(inputs) \in Nat
        BY <3>1, <4>1, LenProperties
      <4>3. QED
        BY <3>1, <4>1, <4>2
    <3>4. /\ \A k \in Keys : Key(KeysymOf[k], TextOf[k]) \in Entry
          /\ {Mouse("MOUSE1"), Request("CLOSE"), Request("RESIZE")} \subseteq Entry
      BY DEF Entry
    <3>5. QED
      BY <1>3, <3>1, <3>2, <3>3, <3>4, PollIs
  <2>3. /\ position' \in Positions
        /\ UNCHANGED <<down, pointer, budget, running, resize, at, typed>>
    BY <1>3, PollIs
  <2>4. QED
    BY <2>1, <2>2, <2>3 DEF InputsInv
<1>4. CASE Simulate
  <2>1. /\ inputs' \in Seq(Entry)
        /\ Len(inputs') <= Len(inputs)
    BY <1>4, ConsumeCounts DEF Simulate, InputsInv
  <2>2. Len(inputs') <= MaxInputs
    BY <2>1, LenProperties, InputsAssumption DEF InputsInv
  <2>3. resize' \in BOOLEAN
    BY <1>4 DEF Simulate, InputsInv
  <2>4. running' \in BOOLEAN /\ at' \in 0..9
    <3>1. running \in BOOLEAN /\ at \in 0..9 /\ 1 \in 0..9
      BY DEF InputsInv
    <3>2. (running' = FALSE /\ at' = at) \/ (at' = 1 /\ running' = running)
      BY <1>4 DEF Simulate
    <3>3. QED
      BY <3>1, <3>2
  <2>5. QED
    BY <1>4, <2>1, <2>2, <2>3, <2>4 DEF Simulate, InputsInv, server
<1>5. CASE DoBinds
  <2>1. /\ inputs \in Seq(Entry) /\ Len(inputs) <= MaxInputs
        /\ Len(inputs) \in Nat /\ MaxInputs \in Nat
    BY LenProperties, InputsAssumption DEF InputsInv
  <2>2. /\ at \in 1..8
        /\ \/ \E i \in at..8 : at' = i + 1 /\ inputs' = AfterBind(clicker_binds[i])
           \/ at' = 9 /\ inputs' = inputs
    BY <1>5, BindsLen DEF DoBinds
  <2>3. \A i \in 1..8 : /\ AfterBind(clicker_binds[i]) \in Seq(Entry)
                        /\ Len(AfterBind(clicker_binds[i])) <= Len(inputs)
                        /\ Len(AfterBind(clicker_binds[i])) \in Nat
    BY <2>1, BindCounts, LenProperties
  <2>4. at' \in 0..9 /\ inputs' \in Seq(Entry) /\ Len(inputs') <= MaxInputs
    <3>1. CASE at' = 9 /\ inputs' = inputs
      BY <2>1, <3>1
    <3>2. CASE \E i \in at..8 : at' = i + 1 /\ inputs' = AfterBind(clicker_binds[i])
      <4>1. PICK i \in at..8 : at' = i + 1 /\ inputs' = AfterBind(clicker_binds[i])
        BY <3>2
      <4>2. at \in 1..8
        BY <2>2
      <4>3. i \in 1..8 /\ i + 1 \in 0..9
        BY <4>2
      <4>4. /\ inputs' \in Seq(Entry) /\ Len(inputs') <= Len(inputs)
            /\ Len(inputs') \in Nat
        BY <2>3, <4>1, <4>3
      <4>5. Len(inputs') <= MaxInputs
        BY <2>1, <4>4
      <4>6. QED
        BY <4>1, <4>3, <4>4, <4>5
    <3>3. QED
      BY <2>2, <3>1, <3>2
  <2>5. UNCHANGED <<server, position, running, resize, err, typed>>
    BY <1>5 DEF DoBinds
  <2>6. QED
    BY <2>4, <2>5 DEF server, InputsInv
<1>6. CASE TextInput
  <2>1. /\ inputs \in Seq(Entry) /\ Len(inputs) <= MaxInputs
        /\ Len(inputs) \in Nat /\ MaxInputs \in Nat
        /\ typed \in Seq(Texts)
    BY LenProperties, InputsAssumption DEF InputsInv
  <2>2. /\ UNCHANGED <<server, position, running, resize, err>>
        /\ at' = 9 \/ at' = 0
    BY <1>6, TextInputIs
  <2>3. CASE inputs' = inputs /\ typed' = typed
    BY <2>1, <2>2, <2>3 DEF server, InputsInv
  <2>4. ASSUME NEW i \in 1..Len(inputs), inputs' = RemoveSwap(inputs, i),
               NEW k \in Keys, typed' = Append(typed, TextOf[k])
        PROVE  InputsInv'
    <3>1. /\ RemoveSwap(inputs, i) \in Seq(Entry)
          /\ Len(RemoveSwap(inputs, i)) = Len(inputs) - 1
      BY <2>1, RemoveSwapIs
    <3>2. inputs' \in Seq(Entry) /\ Len(inputs') <= MaxInputs
      BY <2>1, <2>4, <3>1
    <3>3. TextOf[k] \in Texts
      BY DEF Texts
    <3>4. typed' \in Seq(Texts)
      BY <2>1, <2>4, <3>3, AppendProperties
    <3>5. QED
      BY <2>2, <3>2, <3>4 DEF server, InputsInv
  <2>5. QED
    BY <1>6, <2>3, <2>4, TextInputIs
<1>7. QED
  BY <1>1, <1>2, <1>3, <1>4, <1>5, <1>6 DEF Next, MainLoop

LEMMA InvHolds == Spec => []InputsInv
BY InvInit, InvStep, PTL DEF Spec

\* The table never holds more than MAX_INPUTS entries, and each entry is one
\* that window_pol_event makes, wherever the last one was swapped to
\* (window.c:30-41, 285-318).
THEOREM TypeCorrect == Spec => []TypeOK
<1>1. InputsInv => TypeOK
  <2> SUFFICES ASSUME InputsInv PROVE TypeOK
    OBVIOUS
  <2>1. queue \in Seq(Events) /\ DOMAIN queue = 1..Len(queue)
    BY LenProperties DEF InputsInv
  <2>2. \A i \in DOMAIN queue : queue[i].type \in
           OtherTypes \cup {"KeyPress", "KeyRelease", "MotionNotify"}
    BY <2>1, EventIs, ElementOfSeq
  <2>3. inputs \in Seq(Entries)
    <3>1. Entry \subseteq Entries
      BY EntryIs
    <3>2. QED
      BY <3>1, SeqMonotonic DEF InputsInv
  <2>4. Len(clicker_binds) + 1 = 9
    BY BindsLen
  <2>5. QED
    BY <2>2, <2>3, <2>4 DEF InputsInv, TypeOK
<1>2. QED
  BY <1>1, InvHolds, PTL

-----------------------------------------------------------------------------
(* Letters *)

WithText(text) == {d \in Entry : d.text = text}

LEMMA PressesAre ==
    ASSUME NEW q \in Seq(Events), NEW t \in Seq(Entry), NEW w \in Seq(Texts), NEW l
    PROVE  /\ Cardinality({i \in DOMAIN q : q[i] \in PressesOf(l)}) = Count(q, PressesOf(l))
           /\ Cardinality({i \in DOMAIN t : t[i].text = l}) = Count(t, WithText(l))
           /\ Cardinality({i \in DOMAIN w : w[i] = l}) = Count(w, {l})
           /\ Count(q, PressesOf(l)) \in Nat
           /\ Count(t, WithText(l)) \in Nat
           /\ Count(w, {l}) \in Nat
<1>1. {i \in DOMAIN q : q[i] \in PressesOf(l)} = Places(q, PressesOf(l))
  BY LenProperties DEF Places
<1>2. {i \in DOMAIN t : t[i].text = l} = Places(t, WithText(l))
  <2>1. DOMAIN t = 1..Len(t) /\ \A i \in 1..Len(t) : t[i] \in Entry
    BY LenProperties, ElementOfSeq
  <2>2. QED
    BY <2>1 DEF Places, WithText
<1>3. {i \in DOMAIN w : w[i] = l} = Places(w, {l})
  BY LenProperties DEF Places
<1>4. QED
  BY <1>1, <1>2, <1>3, PlacesAre DEF Count

\* A key that brings a letter is known by nothing else, and no letter is "".
LEMMA LetterIs ==
    ASSUME NEW letter \in Letters
    PROVE  /\ letter # ""
           /\ \A d \in Entry : d \in WithText(letter) => d.what = "NOT_FOUND"
           /\ \A k \in Keys : Press(k) \in PressesOf(letter) <=> TextOf[k] = letter
           /\ \A e \in PressesOf(letter) : e.type = "KeyPress" /\ ~IsMotion(e)
<1>1. letter # "" /\ \A k \in Keys : TextOf[k] = letter => KeysymOf[k] = "NOT_FOUND"
  BY DEF Letters
<1>2. ASSUME NEW d \in Entry, d \in WithText(letter)
      PROVE  d.what = "NOT_FOUND"
  <2>1. d.text = letter
    BY <1>2 DEF WithText
  <2>2. QED
    BY <1>1, <2>1, EntryIs
<1>3. ASSUME NEW k \in Keys
      PROVE  Press(k) \in PressesOf(letter) <=> TextOf[k] = letter
  <2>1. \A j \in Keys : Press(k) = Press(j) => k = j
    BY EventsDiffer
  <2>2. QED
    BY <2>1 DEF PressesOf
<1>4. ASSUME NEW e \in PressesOf(letter)
      PROVE  e.type = "KeyPress" /\ ~IsMotion(e)
  <2>1. PICK k \in Keys : e = Press(k)
    BY DEF PressesOf
  <2>2. QED
    BY <2>1, EventsDiffer
<1>5. QED
  BY <1>1, <1>2, <1>3, <1>4

\* Where the presses of a letter are, by the sequence they are in.
LEMMA PolledLetters ==
    ASSUME InputsInv, Poll, NEW letter \in Letters
    PROVE  LET X == PressesOf(letter)
               D == WithText(letter)
               Moved(n) == /\ Count(queue', X) = Count(queue, X) - n
                           /\ \/ Count(inputs', D) = Count(inputs, D) + n
                              \/ err' /\ Count(inputs', D) = Count(inputs, D)
           IN  typed' = typed /\ (Moved(0) \/ Moved(1))
<1> DEFINE X == PressesOf(letter)
           D == WithText(letter)
           e == Head(queue)
<1>1. /\ queue # <<>> /\ queue \in Seq(Events) /\ e \in Events
      /\ queue' = IF IsMotion(e) THEN WithoutMotions(Tail(queue)) ELSE Tail(queue)
      /\ typed' = typed
  BY PollIs
<1>2. inputs \in Seq(Entry)
  BY DEF InputsInv
<1>3. Count(inputs, D) \in Nat /\ Count(queue, X) \in Nat
  BY <1>1, <1>2, PlacesAre
<1>4. Count(queue', X) = Count(queue, X) - (IF e \in X THEN 1 ELSE 0)
  <2>1. Tail(queue) \in Seq(Events)
    BY <1>1, HeadTailProperties
  <2>2. \A d \in X : ~IsMotion(d)
    BY LetterIs
  <2> HIDE DEF X
  <2>3. Count(Tail(queue), X) = Count(queue, X) - (IF e \in X THEN 1 ELSE 0)
    BY <1>1, CountTail
  <2>4. Count(WithoutMotions(Tail(queue)), X) = Count(Tail(queue), X)
    BY <2>1, <2>2, CountKept
  <2>5. QED
    BY <1>1, <2>3, <2>4
<1>5. ASSUME NEW d \in Entry, add_input(d)
      PROVE  \/ err' /\ Count(inputs', D) = Count(inputs, D)
             \/ Count(inputs', D) = Count(inputs, D) + (IF d \in D THEN 1 ELSE 0)
  BY <1>5, AddIs
<1>6. ASSUME NEW d, d.what # "NOT_FOUND"
      PROVE  Count(consume_input(inputs, d), D) = Count(inputs, D)
  <2>1. \A c \in Entry : c \in D => ~Same(c, d)
    BY <1>6, LetterIs DEF Same
  <2> HIDE DEF D
  <2>2. QED
    BY <1>2, <2>1, ConsumeCounts
<1>7. /\ \A k \in Keys : Press(k) \in X <=> TextOf[k] = letter
      /\ \A d \in X : d.type = "KeyPress"
      /\ letter # ""
  BY LetterIs
<1>8. /\ \A k \in Keys : /\ Key(KeysymOf[k], TextOf[k]) \in Entry
                         /\ Key(KeysymOf[k], TextOf[k]) \in D <=> TextOf[k] = letter
                         /\ Key(KeysymOf[k], "").what = KeysymOf[k]
      /\ \A d \in {Mouse("MOUSE1"), Request("CLOSE"), Request("RESIZE")} :
            d \in Entry /\ d \notin D
      /\ Mouse("MOUSE1").what # "NOT_FOUND"
  <2>1. \A d \in Entry : d \in D <=> d.text = letter
    BY DEF WithText
  <2>2. \A k \in Keys : Key(KeysymOf[k], TextOf[k]) \in Entry
    BY DEF Entry
  <2>3. {Mouse("MOUSE1"), Request("CLOSE"), Request("RESIZE")} \subseteq Entry
    BY DEF Entry
  <2> HIDE DEF D
  <2>4. \A k \in Keys : /\ Key(KeysymOf[k], TextOf[k]).text = TextOf[k]
                        /\ Key(KeysymOf[k], "").what = KeysymOf[k]
    BY DEF Key
  <2>5. /\ Mouse("MOUSE1").text = "" /\ Request("CLOSE").text = ""
        /\ Request("RESIZE").text = "" /\ Mouse("MOUSE1").what # "NOT_FOUND"
    BY DEF Mouse, Request
  <2>6. QED
    BY <1>7, <2>1, <2>2, <2>3, <2>4, <2>5
<1>9. \A k \in Keys : Release(k) \notin X
  BY <1>7, EventsDiffer
<1>10. e.type \in OtherTypes \/ IsMotion(e) => e \notin X
  BY <1>7, OtherTypesAre DEF IsMotion
<1> HIDE DEF X, D, e
<1>11. ASSUME NEW k \in Keys, e = Press(k), add_input(Key(KeysymOf[k], TextOf[k]))
       PROVE  \E n \in {0, 1} :
                 /\ Count(queue', X) = Count(queue, X) - n
                 /\ \/ Count(inputs', D) = Count(inputs, D) + n
                    \/ err' /\ Count(inputs', D) = Count(inputs, D)
  <2>1. /\ Key(KeysymOf[k], TextOf[k]) \in Entry
        /\ Key(KeysymOf[k], TextOf[k]) \in D <=> e \in X
    BY <1>7, <1>8, <1>11
  <2>2. \/ err' /\ Count(inputs', D) = Count(inputs, D)
        \/ Count(inputs', D) = Count(inputs, D) + (IF e \in X THEN 1 ELSE 0)
    BY <1>5, <1>11, <2>1
  <2>3. QED
    BY <1>4, <2>2
<1>12. \/ \E k \in Keys : e = Press(k) /\ add_input(Key(KeysymOf[k], TextOf[k]))
       \/ e \notin X /\ Count(inputs', D) = Count(inputs, D)
       \/ e \notin X /\ err' /\ Count(inputs', D) = Count(inputs, D)
  <2>1. \/ \E k \in Keys : e = Press(k) /\ add_input(Key(KeysymOf[k], TextOf[k]))
        \/ \E k \in Keys : /\ e = Release(k) /\ KeysymOf[k] # "NOT_FOUND"
                           /\ inputs' = consume_input(inputs, Key(KeysymOf[k], ""))
        \/ (\E k \in Keys : e = Release(k)) /\ inputs' = inputs
        \/ /\ e.type \in OtherTypes
           /\ \E d \in {Mouse("MOUSE1"), Request("CLOSE"), Request("RESIZE")} : add_input(d)
        \/ e.type \in OtherTypes /\ inputs' = consume_input(inputs, Mouse("MOUSE1"))
        \/ IsMotion(e) /\ inputs' = inputs
    BY PollIs, Zenon DEF e
  <2>2. CASE \E k \in Keys : /\ e = Release(k) /\ KeysymOf[k] # "NOT_FOUND"
                             /\ inputs' = consume_input(inputs, Key(KeysymOf[k], ""))
    <3>1. PICK k \in Keys : /\ e = Release(k) /\ KeysymOf[k] # "NOT_FOUND"
                            /\ inputs' = consume_input(inputs, Key(KeysymOf[k], ""))
      BY <2>2
    <3>2. Key(KeysymOf[k], "").what # "NOT_FOUND"
      BY <1>8, <3>1
    <3>3. QED
      BY <1>6, <1>9, <3>1, <3>2
  <2>3. CASE (\E k \in Keys : e = Release(k)) /\ inputs' = inputs
    BY <1>9, <2>3
  <2>4. CASE /\ e.type \in OtherTypes
             /\ \E d \in {Mouse("MOUSE1"), Request("CLOSE"), Request("RESIZE")} : add_input(d)
    <3>1. PICK d \in {Mouse("MOUSE1"), Request("CLOSE"), Request("RESIZE")} : add_input(d)
      BY <2>4
    <3>2. d \in Entry /\ d \notin D
      BY <1>8
    <3>3. QED
      BY <1>3, <1>5, <1>10, <2>4, <3>1, <3>2
  <2>5. CASE e.type \in OtherTypes /\ inputs' = consume_input(inputs, Mouse("MOUSE1"))
    BY <1>6, <1>8, <1>10, <2>5
  <2>6. CASE IsMotion(e) /\ inputs' = inputs
    BY <1>10, <2>6
  <2>7. QED
    BY <2>1, <2>2, <2>3, <2>4, <2>5, <2>6
<1>13. \E n \in {0, 1} :
          /\ Count(queue', X) = Count(queue, X) - n
          /\ \/ Count(inputs', D) = Count(inputs, D) + n
             \/ err' /\ Count(inputs', D) = Count(inputs, D)
  BY <1>3, <1>4, <1>11, <1>12
<1>14. QED
  BY <1>1, <1>13 DEF X, D

\* The steps of the main loop: a letter moves on or is refused.
LEMMA LetterStep ==
    ASSUME InputsInv, [Next]_vars, budget' = budget, NEW letter \in Letters
    PROVE  LET X == PressesOf(letter)
               D == WithText(letter)
               all == Count(queue, X) + Count(inputs, D) + Count(typed, {letter})
               then == Count(queue', X) + Count(inputs', D) + Count(typed', {letter})
           IN  then = all \/ (err' /\ then = all - 1)
<1> DEFINE X == PressesOf(letter)
           D == WithText(letter)
<1>1. queue \in Seq(Events) /\ inputs \in Seq(Entry) /\ typed \in Seq(Texts)
  BY DEF InputsInv
<1>2. /\ Count(queue, X) \in Nat /\ Count(inputs, D) \in Nat
      /\ Count(typed, {letter}) \in Nat
  BY <1>1, PlacesAre
<1>3. letter # "" /\ \A d \in Entry : d \in D => d.what = "NOT_FOUND"
  BY LetterIs
<1>a. \A d \in Entry : d \in D <=> d.text = letter
  BY DEF WithText
<1>b. /\ Count(queue', X) \in Nat /\ Count(inputs', D) \in Nat
      /\ Count(typed', {letter}) \in Nat
  <2>1. queue' \in Seq(Events) /\ inputs' \in Seq(Entry) /\ typed' \in Seq(Texts)
    BY InvStep DEF InputsInv
  <2>2. QED
    BY <2>1, PlacesAre
<1>4. CASE UNCHANGED vars
  BY <1>2, <1>4 DEF vars, server, program
<1>5. CASE Environment
  <2>1. budget' = budget - 1 /\ budget \in Nat
    BY <1>5, SendIs, InputsAssumption DEF InputsInv
  <2>2. QED
    BY <2>1
<1>6. CASE Poll
  <2>1. /\ typed' = typed
        /\ \/ /\ Count(queue', X) = Count(queue, X) - 0
              /\ \/ Count(inputs', D) = Count(inputs, D) + 0
                 \/ err' /\ Count(inputs', D) = Count(inputs, D)
           \/ /\ Count(queue', X) = Count(queue, X) - 1
              /\ \/ Count(inputs', D) = Count(inputs, D) + 1
                 \/ err' /\ Count(inputs', D) = Count(inputs, D)
    BY <1>6, PolledLetters
  <2>2. \/ Count(queue', X) + Count(inputs', D) + Count(typed', {letter})
              = Count(queue, X) + Count(inputs, D) + Count(typed, {letter})
        \/ /\ err'
           /\ Count(queue', X) + Count(inputs', D) + Count(typed', {letter})
                 = (Count(queue, X) + Count(inputs, D) + Count(typed, {letter})) - 1
    <3> HIDE DEF X, D
    <3>1. \/ Count(queue', X) + Count(inputs', D) = Count(queue, X) + Count(inputs, D)
          \/ err' /\ Count(queue', X) + Count(inputs', D)
                        = Count(queue, X) + Count(inputs, D) - 1
      BY <1>2, <2>1
    <3>2. QED
      BY <1>2, <1>b, <2>1, <3>1
  <2>3. QED
    BY <2>2, Zenon
<1>7. CASE Simulate
  <2>1. /\ queue' = queue /\ typed' = typed
        /\ inputs' = consume_input(inputs, Request("RESIZE"))
    BY <1>7 DEF Simulate, server
  <2>2. Request("RESIZE").what # "NOT_FOUND"
    BY DEF Request
  <2>3. \A d \in Entry : d \in D => ~Same(d, Request("RESIZE"))
    BY <1>3, <2>2 DEF Same
  <2> HIDE DEF D
  <2>4. Count(inputs', D) = Count(inputs, D)
    BY <1>1, <2>1, <2>3, ConsumeCounts
  <2>5. QED
    BY <1>2, <2>1, <2>4 DEF D
<1>8. CASE DoBinds
  <2>1. queue' = queue /\ typed' = typed
    BY <1>8 DEF DoBinds, server
  <2>2. inputs' = inputs \/ \E i \in 1..8 : inputs' = AfterBind(clicker_binds[i])
    BY <1>8, TableAfterBinds
  <2> HIDE DEF D
  <2>3. Count(inputs', D) = Count(inputs, D)
    BY <1>1, <1>3, <2>2, BindCounts
  <2>4. QED
    BY <1>2, <2>1, <2>3 DEF D
<1>9. CASE TextInput
  <2>1. queue' = queue
    BY <1>9, TextInputIs DEF server
  <2>2. CASE inputs' = inputs /\ typed' = typed
    BY <1>2, <2>1, <2>2
  <2>3. ASSUME NEW i \in 1..Len(inputs), inputs[i] \in Entry,
               typed' = Append(typed, inputs[i].text),
               inputs' = RemoveSwap(inputs, i), inputs[i].text \in Texts
        PROVE  Count(inputs', D) + Count(typed', {letter})
                  = Count(inputs, D) + Count(typed, {letter})
    <3> HIDE DEF D
    <3>1. Count(inputs', D) = Count(inputs, D) - (IF inputs[i] \in D THEN 1 ELSE 0)
      BY <1>1, <2>3, CountRemoved
    <3>2. Count(typed', {letter})
             = Count(typed, {letter}) + (IF inputs[i].text \in {letter} THEN 1 ELSE 0)
      BY <1>1, <2>3, CountAppend
    <3>3. inputs[i] \in D <=> inputs[i].text \in {letter}
      BY <1>a, <2>3
    <3>4. QED
      BY <1>2, <3>1, <3>2, <3>3
  <2>4. \/ inputs' = inputs /\ typed' = typed
        \/ \E i \in 1..Len(inputs) :
              /\ inputs[i] \in Entry /\ inputs[i].text \in Texts
              /\ typed' = Append(typed, inputs[i].text)
              /\ inputs' = RemoveSwap(inputs, i)
    BY <1>9, TextInputIs DEF Texts
  <2>5. \/ inputs' = inputs /\ typed' = typed
        \/ Count(inputs', D) + Count(typed', {letter})
              = Count(inputs, D) + Count(typed, {letter})
    <3> HIDE DEF D
    <3>1. QED
      BY <2>3, <2>4
  <2> HIDE DEF D
  <2>6. CASE Count(inputs', D) + Count(typed', {letter})
                = Count(inputs, D) + Count(typed, {letter})
    BY <1>2, <1>b, <2>1, <2>6 DEF D
  <2>7. QED
    BY <2>2, <2>5, <2>6 DEF D
<1>10. QED
  BY <1>4, <1>5, <1>6, <1>7, <1>8, <1>9 DEF Next, MainLoop

\* A letter that was pressed is in the queue, in the table or in the text,
\* once: no bind, release or insertion takes the wrong entry when it moves the
\* last one into the gap (window.c:312-316, editor.c:57-61), and only a full
\* table, which says so, refuses one.
THEOREM LettersKept == Spec => LettersArePreserved
<1>1. InputsInv /\ InputsInv' /\ [Next]_vars
         => [budget' = budget =>
                \A letter \in Letters :
                   \/ Presses(letter)' = Presses(letter)
                   \/ err' /\ Presses(letter)' = Presses(letter) - 1]_vars
  <2> SUFFICES ASSUME InputsInv, InputsInv', [Next]_vars, budget' = budget,
                      NEW letter \in Letters
               PROVE  \/ Presses(letter)' = Presses(letter)
                      \/ err' /\ Presses(letter)' = Presses(letter) - 1
    OBVIOUS
  <2>1. /\ queue \in Seq(Events) /\ inputs \in Seq(Entry) /\ typed \in Seq(Texts)
        /\ queue' \in Seq(Events) /\ inputs' \in Seq(Entry) /\ typed' \in Seq(Texts)
    BY DEF InputsInv
  <2>2. Presses(letter) = Count(queue, PressesOf(letter))
                             + Count(inputs, WithText(letter)) + Count(typed, {letter})
    BY <2>1, PressesAre DEF Presses
  <2>3. Presses(letter)' = Count(queue', PressesOf(letter))
                              + Count(inputs', WithText(letter)) + Count(typed', {letter})
    BY <2>1, PressesAre DEF Presses
  <2>4. QED
    BY <2>2, <2>3, LetterStep
<1>2. QED
  BY <1>1, InvHolds, PTL DEF Spec, LettersArePreserved

-----------------------------------------------------------------------------
(* Commands *)

\* The entries of the key of the bind.
OfBackspace == {d \in Entry : d.what = "BACKSPACE"}

LEMMA EnteredIs ==
    ASSUME NEW t \in Seq(Entry), NEW w \in Seq(Texts), NEW l
    PROVE  /\ Cardinality({i \in DOMAIN t : t[i].what = "BACKSPACE"}) = Count(t, OfBackspace)
           /\ Cardinality({i \in DOMAIN w : w[i] = l}) = Count(w, {l})
<1>1. {i \in DOMAIN t : t[i].what = "BACKSPACE"} = Places(t, OfBackspace)
  <2>1. DOMAIN t = 1..Len(t) /\ \A i \in 1..Len(t) : t[i] \in Entry
    BY LenProperties, ElementOfSeq
  <2>2. QED
    BY <2>1 DEF Places, OfBackspace
<1>2. {i \in DOMAIN w : w[i] = l} = Places(w, {l})
  BY LenProperties DEF Places
<1>3. QED
  BY <1>1, <1>2 DEF Count

LEMMA BackspacesAreSame ==
    \A d \in Entry : d \in OfBackspace <=> Same(d, Key("BACKSPACE", ""))
<1> SUFFICES ASSUME NEW d \in Entry
             PROVE  d \in OfBackspace <=> Same(d, Key("BACKSPACE", ""))
  OBVIOUS
<1>1. d \in OfBackspace <=> d.what = "BACKSPACE"
  BY DEF OfBackspace
<1>2. Same(d, Key("BACKSPACE", "")) <=> d.tag = "keyboard" /\ d.what = "BACKSPACE"
  BY DEF Same, Key
<1>3. d.what = "BACKSPACE" => d.tag = "keyboard"
  BY EntryIs
<1>4. QED
  BY <1>1, <1>2, <1>3

LEMMA PastBackspaceIs ==
    ASSUME NEW n \in Nat
    PROVE  PastBackspace(n) <=> n > 7
<1>1. PastBackspace(n) <=> \A i \in 1..8 : IsBackspace(clicker_binds[i]) => n > i
  BY BindsLen DEF PastBackspace, IsBackspace
<1>2. \A i \in 1..8 : IsBackspace(clicker_binds[i]) <=> i = 7
  BY BindsAre
<1>3. QED
  BY <1>1, <1>2

\* A frame that comes past the bind has taken one entry, if there was one.
LEMMA BindTakesOne ==
    ASSUME InputsInv, DoBinds, at <= 7, at' > 7
    PROVE  Count(inputs', OfBackspace)
              = IF Count(inputs, OfBackspace) = 0 THEN 0 ELSE Count(inputs, OfBackspace) - 1
<1> DEFINE X == OfBackspace
           e == Key("BACKSPACE", "")
<1>1. inputs \in Seq(Entry) /\ DOMAIN inputs = 1..Len(inputs) /\ at \in 1..7
  <2>1. at \in 1..8
    BY BindsLen DEF DoBinds
  <2>2. QED
    BY <2>1, LenProperties DEF InputsInv
<1>2. \A i \in 1..Len(inputs) : inputs[i] \in Entry
  BY <1>1, ElementOfSeq
<1>3. Ready(7) <=> \E i \in 1..Len(inputs) : Same(inputs[i], e)
  <2>1. DOMAIN clicker_binds[7] = {1} /\ clicker_binds[7][1] = e
    <3>1. \A d : DOMAIN <<d>> = {1}
      OBVIOUS
    <3>2. IsBackspace(clicker_binds[7]) /\ clicker_binds[7][1] = e
      <4>1. \A i \in 1..8 : IsBackspace(clicker_binds[i]) <=> i = 7
        BY BindsAre
      <4>2. clicker_binds[7][1] = e
        BY BindsAre
      <4>3. 7 \in 1..8
        OBVIOUS
      <4>4. QED
        BY <4>1, <4>2, <4>3, Zenon
    <3>3. clicker_binds[7] = <<e>>
      BY <3>2 DEF IsBackspace
    <3>4. QED
      BY <3>1, <3>2, <3>3
  <2>2. QED
    BY <1>1, <2>1 DEF Ready, contains_input
<1> HIDE DEF X, e
<1>a. \A d \in Entry : d \in X <=> Same(d, e)
  BY BackspacesAreSame DEF X, e
<1>b. Count(inputs, X) = 0 <=> \A i \in 1..Len(inputs) : inputs[i] \notin X
  BY <1>1, PlacesAre
<1>4. ~Ready(7) => Count(inputs, X) = 0
  BY <1>2, <1>3, <1>a, <1>b
<1>5. AfterBind(clicker_binds[7]) = consume_input(inputs, e)
  <2>1. Len(clicker_binds[7]) = 1 /\ Taken(clicker_binds[7][1]) = e
    BY BindsAre DEF e
  <2>2. 7 \in 1..8
    OBVIOUS
  <2>3. QED
    BY <1>1, <2>1, <2>2, AfterBindIs
<1>6. Count(consume_input(inputs, e), X)
         = IF Count(inputs, X) = 0 THEN 0 ELSE Count(inputs, X) - 1
  BY <1>1, <1>a, ConsumeCounts
<1>7. ASSUME Count(inputs, X) = 0
      PROVE  Count(AfterBind(clicker_binds[8]), X) = 0
  <2>1. /\ AfterBind(clicker_binds[8]) \in Seq(Entry)
        /\ Count(AfterBind(clicker_binds[8]), X) <= 0
    BY <1>1, <1>7, BindCounts
  <2>2. QED
    BY <2>1, PlacesAre
<1>8. \/ \E i \in at..8 : /\ \A j \in at..(i - 1) : ~Ready(j)
                          /\ at' = i + 1
                          /\ inputs' = AfterBind(clicker_binds[i])
      \/ (\A i \in at..8 : ~Ready(i)) /\ inputs' = inputs
  BY BindsLen DEF DoBinds
<1>9. CASE (\A i \in at..8 : ~Ready(i)) /\ inputs' = inputs
  <2>1. at \in 1..7
    BY <1>1
  <2>2. ~Ready(7)
    BY <1>9, <2>1
  <2>3. QED
    BY <1>4, <1>9, <2>2 DEF X
<1>10. ASSUME NEW i \in at..8, \A j \in at..(i - 1) : ~Ready(j), at' = i + 1,
              inputs' = AfterBind(clicker_binds[i])
       PROVE  Count(inputs', X) = IF Count(inputs, X) = 0 THEN 0 ELSE Count(inputs, X) - 1
  <2>1. i = 7 \/ (i = 8 /\ 7 \in at..(i - 1))
    BY <1>1, <1>10
  <2>2. CASE i = 7
    BY <1>5, <1>6, <1>10, <2>2
  <2>3. CASE i = 8 /\ 7 \in at..(i - 1)
    BY <1>4, <1>7, <1>10, <2>3
  <2>4. QED
    BY <2>1, <2>2, <2>3
<1>11. QED
  BY <1>8, <1>9, <1>10 DEF X

\* The bind of a one-key command uses up one entry of its key in every frame,
\* before the text is read, and the text of such a key is inserted only with
\* another entry of it (editor.c:24-66, 145-193).
THEOREM CommandsNotText == Spec => CommandsAreNotText
<1> DEFINE One == at # 0 /\ ~PastBackspace(at) /\ PastBackspace(at') =>
                     IF Entered = 0 THEN Entered' = 0 ELSE Entered' = Entered - 1
           Two == \A t \in Backspaces :
                     TypedOf(t)' # TypedOf(t) =>
                        PastBackspace(at) /\ Entered' = Entered - 1
<1>1. InputsInv /\ InputsInv' /\ [Next]_vars => [One /\ Two]_vars
  <2> SUFFICES ASSUME InputsInv, InputsInv', [Next]_vars
               PROVE  (One /\ Two) \/ UNCHANGED vars
    OBVIOUS
  <2>1. /\ inputs \in Seq(Entry) /\ typed \in Seq(Texts) /\ at \in Nat /\ at \in 0..9
        /\ inputs' \in Seq(Entry) /\ typed' \in Seq(Texts) /\ at' \in Nat
    BY DEF InputsInv
  <2>2. /\ Entered = Count(inputs, OfBackspace)
        /\ Entered' = Count(inputs', OfBackspace)
        /\ \A t : TypedOf(t) = Count(typed, {t}) /\ TypedOf(t)' = Count(typed', {t})
    BY <2>1, EnteredIs DEF Entered, TypedOf
  <2>3. (PastBackspace(at) <=> at > 7) /\ (PastBackspace(at') <=> at' > 7)
    BY <2>1, PastBackspaceIs
  <2> DEFINE One1 == at # 0 /\ ~(at > 7) /\ at' > 7 =>
                        Count(inputs', OfBackspace)
                           = IF Count(inputs, OfBackspace) = 0 THEN 0
                             ELSE Count(inputs, OfBackspace) - 1
             Two1 == \A t \in Backspaces :
                        Count(typed', {t}) # Count(typed, {t}) =>
                           /\ at > 7
                           /\ Count(inputs', OfBackspace) = Count(inputs, OfBackspace) - 1
  <2>4. One1 /\ Two1 => One /\ Two
    BY <2>2, <2>3
  <2>5. ASSUME at' = at, typed' = typed
        PROVE  One1 /\ Two1
    BY <2>5
  <2>6. CASE Environment
    <3>1. UNCHANGED program
      BY <2>6, SendIs
    <3>2. QED
      BY <2>4, <2>5, <3>1 DEF program
  <2>7. CASE Poll
    BY <2>4, <2>5, <2>7 DEF Poll
  <2>8. CASE Simulate
    BY <2>4, <2>8 DEF Simulate
  <2>9. CASE DoBinds
    <3>1. typed' = typed
      BY <2>9 DEF DoBinds
    <3>2. at <= 7 <=> ~(at > 7)
      BY <2>1
    <3>3. One1
      BY <2>9, <3>2, BindTakesOne
    <3>4. QED
      BY <2>4, <3>1, <3>3
  <2>10. CASE TextInput
    <3>1. at = 9
      BY <2>10, TextInputIs
    <3>2. ASSUME NEW i \in 1..Len(inputs), inputs[i] \in Entry,
                 NEW k \in Keys, inputs[i].what = KeysymOf[k], inputs[i].text = TextOf[k],
                 typed' = Append(typed, inputs[i].text), inputs' = RemoveSwap(inputs, i),
                 NEW t \in Backspaces, Count(typed', {t}) # Count(typed, {t})
          PROVE  Count(inputs', OfBackspace) = Count(inputs, OfBackspace) - 1
      <4>1. inputs[i].text \in Texts
        BY <3>2 DEF Texts
      <4>2. Count(typed', {t})
               = Count(typed, {t}) + (IF inputs[i].text \in {t} THEN 1 ELSE 0)
        BY <2>1, <3>2, <4>1, CountAppend
      <4>3. Count(typed, {t}) \in Nat
        BY <2>1, PlacesAre
      <4>4. TextOf[k] = t
        BY <3>2, <4>2, <4>3
      <4>5. KeysymOf[k] = "BACKSPACE"
        BY <4>4 DEF Backspaces
      <4>6. inputs[i] \in OfBackspace
        BY <3>2, <4>5 DEF OfBackspace
      <4>7. QED
        BY <2>1, <3>2, <4>6, CountRemoved
    <3>3. \/ typed' = typed
          \/ \E i \in 1..Len(inputs) :
                /\ inputs[i] \in Entry
                /\ \E k \in Keys : inputs[i].what = KeysymOf[k] /\ inputs[i].text = TextOf[k]
                /\ typed' = Append(typed, inputs[i].text)
                /\ inputs' = RemoveSwap(inputs, i)
      BY <2>10, TextInputIs
    <3>4. Two1
      <4>1. CASE typed' = typed
        BY <4>1
      <4>2. CASE \E i \in 1..Len(inputs) :
                    /\ inputs[i] \in Entry
                    /\ \E k \in Keys : inputs[i].what = KeysymOf[k] /\ inputs[i].text = TextOf[k]
                    /\ typed' = Append(typed, inputs[i].text)
                    /\ inputs' = RemoveSwap(inputs, i)
        BY <3>1, <3>2, <4>2
      <4>3. QED
        BY <3>3, <4>1, <4>2
    <3>5. QED
      BY <2>4, <3>1, <3>4
  <2>11. QED
    BY <2>6, <2>7, <2>8, <2>9, <2>10 DEF Next, MainLoop
<1>2. QED
  BY <1>1, InvHolds, PTL DEF Spec, CommandsAreNotText

-----------------------------------------------------------------------------
(* Ctrl *)

\* The keys that are Ctrl, and their entries.
Ctrls == {k \in Keys : KeysymOf[k] = "CTRL_LEFT"}

OfCtrl == {d \in Entry : d.what = "CTRL_LEFT"}

Has(q, e) == \E i \in 1..Len(q) : q[i] = e

\* A key is in q once pressed and once released at most, in that order.
InTurn(q, k) ==
    \A i, j \in 1..Len(q) :
       /\ q[i] = Press(k) /\ q[j] = Press(k) => i = j
       /\ q[i] = Release(k) /\ q[j] = Release(k) => i = j
       /\ q[i] = Press(k) /\ q[j] = Release(k) => i < j

LEMMA HasAppend ==
    ASSUME NEW q \in Seq(Events), NEW e \in Events
    PROVE  /\ Append(q, e) \in Seq(Events)
           /\ \A d : Has(Append(q, e), d) <=> Has(q, d) \/ d = e
<1> DEFINE t == Append(q, e)
<1>1. /\ Len(q) \in Nat /\ Len(t) = Len(q) + 1
      /\ t \in Seq(Events)
      /\ \A i \in 1..Len(q) : t[i] = q[i]
      /\ t[Len(q) + 1] = e
  BY AppendProperties, LenProperties
<1> HIDE DEF t
<1>2. Len(q) + 1 \in 1..Len(t) /\ \A i \in 1..Len(q) : i \in 1..Len(t)
  BY <1>1
<1>3. \A i \in 1..Len(t) : i \in 1..Len(q) \/ i = Len(q) + 1
  BY <1>1
<1>4. \A d : Has(t, d) <=> Has(q, d) \/ d = e
  BY <1>1, <1>2, <1>3, Zenon DEF Has
<1>5. QED
  BY <1>1, <1>4 DEF t

LEMMA InTurnAppend ==
    ASSUME NEW q \in Seq(Events), NEW e \in Events, NEW k, InTurn(q, k),
           e = Press(k) => ~Has(q, Press(k)) /\ ~Has(q, Release(k)),
           e = Release(k) => ~Has(q, Release(k))
    PROVE  InTurn(Append(q, e), k)
<1> DEFINE t == Append(q, e)
           n == Len(q) + 1
<1>1. /\ Len(q) \in Nat /\ Len(t) = n
      /\ \A i \in 1..Len(q) : t[i] = q[i]
      /\ t[n] = e
  BY AppendProperties, LenProperties
<1> HIDE DEF t
<1>2. \A i \in 1..Len(t) : (i \in 1..Len(q) /\ i < n) \/ i = n
  BY <1>1
<1>3. SUFFICES ASSUME NEW i \in 1..Len(t), NEW j \in 1..Len(t)
               PROVE  /\ t[i] = Press(k) /\ t[j] = Press(k) => i = j
                      /\ t[i] = Release(k) /\ t[j] = Release(k) => i = j
                      /\ t[i] = Press(k) /\ t[j] = Release(k) => i < j
  BY DEF InTurn, t
<1>4. Press(k) # Release(k)
  BY EventsDiffer
<1>5. CASE i \in 1..Len(q) /\ j \in 1..Len(q)
  BY <1>1, <1>5 DEF InTurn
<1>6. CASE i \in 1..Len(q) /\ j = n
  <2>1. t[i] = q[i] /\ t[j] = e /\ i < j
    BY <1>1, <1>6
  <2>2. /\ t[i] = Press(k) => Has(q, Press(k))
        /\ t[i] = Release(k) => Has(q, Release(k))
    BY <1>6, <2>1 DEF Has
  <2>3. QED
    BY <2>1, <2>2
<1>7. CASE i = n /\ j \in 1..Len(q)
  <2>1. t[j] = q[j] /\ t[i] = e
    BY <1>1, <1>7
  <2>2. /\ t[j] = Press(k) => Has(q, Press(k))
        /\ t[j] = Release(k) => Has(q, Release(k))
    BY <1>7, <2>1 DEF Has
  <2>3. QED
    BY <2>1, <2>2
<1>8. CASE i = n /\ j = n
  BY <1>1, <1>4, <1>8
<1>9. QED
  BY <1>2, <1>5, <1>6, <1>7, <1>8

LEMMA InTurnTail ==
    ASSUME NEW q \in Seq(Events), q # <<>>, NEW k, InTurn(q, k)
    PROVE  /\ InTurn(Tail(q), k)
           /\ \A d \in {Press(k), Release(k)} :
                 Has(Tail(q), d) <=> Has(q, d) /\ Head(q) # d
           /\ Head(q) = Release(k) => ~Has(q, Press(k))
           /\ \A d : Has(Tail(q), d) => Has(q, d)
           /\ \A d : Has(q, d) => Has(Tail(q), d) \/ Head(q) = d
           /\ Has(q, Head(q))
<1> DEFINE t == Tail(q)
<1>1. /\ Len(q) \in Nat /\ Len(q) > 0
      /\ Len(t) = Len(q) - 1
      /\ \A i \in 1..Len(t) : t[i] = q[i + 1]
      /\ Head(q) = q[1]
  BY HeadTailProperties, EmptySeq
<1> HIDE DEF t
<1>2. /\ 1 \in 1..Len(q)
      /\ \A i \in 1..Len(t) : i + 1 \in 1..Len(q) /\ i + 1 # 1
      /\ \A i \in 1..Len(q) : i = 1 \/ (i - 1 \in 1..Len(t) /\ i - 1 + 1 = i)
      /\ \A i \in 1..Len(q) : ~(i < 1)
  BY <1>1
<1>3. InTurn(t, k)
  <2> SUFFICES ASSUME NEW i \in 1..Len(t), NEW j \in 1..Len(t)
               PROVE  /\ t[i] = Press(k) /\ t[j] = Press(k) => i = j
                      /\ t[i] = Release(k) /\ t[j] = Release(k) => i = j
                      /\ t[i] = Press(k) /\ t[j] = Release(k) => i < j
    BY DEF InTurn
  <2>1. /\ i + 1 \in 1..Len(q) /\ t[i] = q[i + 1]
        /\ j + 1 \in 1..Len(q) /\ t[j] = q[j + 1]
    BY <1>1, <1>2
  <2>2. /\ t[i] = Press(k) /\ t[j] = Press(k) => i + 1 = j + 1
        /\ t[i] = Release(k) /\ t[j] = Release(k) => i + 1 = j + 1
        /\ t[i] = Press(k) /\ t[j] = Release(k) => i + 1 < j + 1
    BY <2>1 DEF InTurn
  <2>3. i \in Nat /\ j \in Nat
    BY <1>1
  <2>4. QED
    BY <2>2, <2>3
<1>4. \A d : Has(t, d) => Has(q, d)
  BY <1>1, <1>2 DEF Has
<1>5. ASSUME NEW d, Has(q, d)
      PROVE  Has(t, d) \/ Head(q) = d
  <2>1. PICK i \in 1..Len(q) : q[i] = d
    BY <1>5 DEF Has
  <2>2. CASE i = 1
    BY <1>1, <2>1, <2>2
  <2>3. CASE i # 1
    <3>1. i - 1 \in 1..Len(t) /\ i - 1 + 1 = i
      BY <1>2, <2>3
    <3>2. t[i - 1] = d
      BY <1>1, <2>1, <3>1
    <3>3. QED
      BY <3>1, <3>2 DEF Has
  <2>4. QED
    BY <2>2, <2>3
<1>6. ASSUME NEW d \in {Press(k), Release(k)}, Has(t, d)
      PROVE  Head(q) # d
  <2>1. PICK i \in 1..Len(t) : t[i] = d
    BY <1>6 DEF Has
  <2>2. q[i + 1] = d /\ i + 1 \in 1..Len(q) /\ i + 1 # 1
    BY <1>1, <1>2, <2>1
  <2>3. q[1] # d
    BY <1>2, <2>2 DEF InTurn
  <2>4. QED
    BY <1>1, <2>3
<1>7. ASSUME Head(q) = Release(k), Has(q, Press(k))
      PROVE  FALSE
  <2>1. PICK i \in 1..Len(q) : q[i] = Press(k)
    BY <1>7 DEF Has
  <2>2. i < 1
    BY <1>1, <1>2, <1>7, <2>1 DEF InTurn
  <2>3. QED
    BY <1>2, <2>2
<1>8. Has(q, Head(q))
  BY <1>1, <1>2 DEF Has
<1>9. QED
  BY <1>3, <1>4, <1>5, <1>6, <1>7, <1>8 DEF t

LEMMA InTurnKept ==
    ASSUME NEW q \in Seq(Events), NEW k, InTurn(q, k)
    PROVE  /\ InTurn(WithoutMotions(q), k)
           /\ \A d : ~IsMotion(d) => (Has(WithoutMotions(q), d) <=> Has(q, d))
<1> DEFINE t == WithoutMotions(q)
<1>1. PICK f : IsLeft(q, Len(q), t, f)
  BY WithoutMotionsIs
<1> HIDE DEF t
<1>2. /\ Len(t) \in Nat /\ Len(q) \in Nat
      /\ f \in [1..Len(t) -> 1..Len(q)]
      /\ \A i \in 1..Len(t) : t[i] = q[f[i]]
      /\ \A i, j \in 1..Len(t) : i < j => f[i] < f[j]
      /\ \A i \in 1..Len(q) : ~IsMotion(q[i]) => \E j \in 1..Len(t) : f[j] = i
  BY <1>1, LenProperties DEF IsLeft
<1>3. InTurn(t, k)
  <2> SUFFICES ASSUME NEW i \in 1..Len(t), NEW j \in 1..Len(t)
               PROVE  /\ t[i] = Press(k) /\ t[j] = Press(k) => i = j
                      /\ t[i] = Release(k) /\ t[j] = Release(k) => i = j
                      /\ t[i] = Press(k) /\ t[j] = Release(k) => i < j
    BY DEF InTurn
  <2>1. f[i] \in 1..Len(q) /\ f[j] \in 1..Len(q) /\ t[i] = q[f[i]] /\ t[j] = q[f[j]]
    BY <1>2
  <2>2. /\ t[i] = Press(k) /\ t[j] = Press(k) => f[i] = f[j]
        /\ t[i] = Release(k) /\ t[j] = Release(k) => f[i] = f[j]
        /\ t[i] = Press(k) /\ t[j] = Release(k) => f[i] < f[j]
    BY <2>1 DEF InTurn
  <2>3. i \in Nat /\ j \in Nat /\ f[i] \in Nat /\ f[j] \in Nat
    BY <1>2, <2>1
  <2>4. (i < j => f[i] < f[j]) /\ (j < i => f[j] < f[i]) /\ (i = j => f[i] = f[j])
    BY <1>2
  <2>5. QED
    BY <2>2, <2>3, <2>4
<1>4. ASSUME NEW d, ~IsMotion(d)
      PROVE  Has(t, d) <=> Has(q, d)
  <2>1. ASSUME Has(t, d) PROVE Has(q, d)
    BY <1>2, <2>1 DEF Has
  <2>2. ASSUME Has(q, d) PROVE Has(t, d)
    <3>1. PICK i \in 1..Len(q) : q[i] = d
      BY <2>2 DEF Has
    <3>2. PICK j \in 1..Len(t) : f[j] = i
      BY <1>2, <1>4, <3>1
    <3>3. t[j] = d
      BY <1>2, <3>1, <3>2
    <3>4. QED
      BY <3>3 DEF Has
  <2>3. QED
    BY <2>1, <2>2
<1>5. QED
  BY <1>3, <1>4 DEF t

\* What the queue holds of a key goes with whether it is held.
Follows(q, d, k) ==
    /\ InTurn(q, k)
    /\ k \in d => ~Has(q, Release(k))
    /\ Has(q, Press(k)) /\ k \notin d => Has(q, Release(k))

\* The Ctrl keys that the program has to take for held.
Seen(q, d) ==
    {k \in Ctrls : ~Has(q, Press(k)) /\ (k \in d \/ Has(q, Release(k)))}

CtrlInv ==
    /\ \A k \in Ctrls : Follows(queue, down, k)
    /\ Count(inputs, OfCtrl) <= Cardinality(Seen(queue, down))

LEMMA SeenIs ==
    ASSUME NEW q, NEW d
    PROVE  IsFiniteSet(Seen(q, d)) /\ Cardinality(Seen(q, d)) \in Nat
<1>1. Seen(q, d) \subseteq Keys
  BY DEF Seen, Ctrls
<1>2. QED
  BY <1>1, InputsAssumption, FS_Subset, FS_CardinalityType

\* What the user and the server do is not seen before it is polled.
LEMMA NotSeen ==
    ASSUME InputsInv, CtrlInv, Environment,
           ~Hasty, \A k \in Ctrls : k \notin Repeating
    PROVE  CtrlInv'
<1>1. queue \in Seq(Events) /\ \A k \in Ctrls : Follows(queue, down, k)
  BY DEF InputsInv, CtrlInv
<1>2. \A k \in Keys : Press(k) \in Events /\ Release(k) \in Events
  BY DEF Events
<1>3. Ctrls \subseteq Keys
  BY DEF Ctrls
<1>4. ASSUME \A k \in Ctrls :
                /\ Follows(queue', down', k)
                /\ ~Has(queue', Press(k)) /\ (k \in down' \/ Has(queue', Release(k)))
                      <=> ~Has(queue, Press(k)) /\ (k \in down \/ Has(queue, Release(k)))
      PROVE  CtrlInv'
  <2>1. Seen(queue', down') = Seen(queue, down)
    BY <1>4 DEF Seen
  <2>2. inputs' = inputs
    BY SendIs DEF program
  <2>3. Count(inputs', OfCtrl) <= Cardinality(Seen(queue', down'))
    BY <2>1, <2>2 DEF CtrlInv
  <2>4. QED
    BY <1>4, <2>3 DEF CtrlInv
<1>5. ASSUME NEW j \in Keys, j \notin down, ~Queued(Release(j)),
             down' = down \cup {j}, queue' = Append(queue, Press(j))
      PROVE  CtrlInv'
  <2> SUFFICES ASSUME NEW k \in Ctrls
               PROVE  /\ Follows(queue', down', k)
                      /\ ~Has(queue', Press(k)) /\ (k \in down' \/ Has(queue', Release(k)))
                            <=> ~Has(queue, Press(k)) /\ (k \in down \/ Has(queue, Release(k)))
    BY <1>4
  <2>1. ~Has(queue, Release(j))
    BY <1>1, <1>5, LenProperties DEF Queued, Has
  <2>2. \A d : Has(queue', d) <=> Has(queue, d) \/ d = Press(j)
    BY <1>1, <1>2, <1>5, HasAppend
  <2>3. /\ Press(j) = Press(k) <=> j = k
        /\ Press(j) # Release(k)
    BY EventsDiffer
  <2>4. InTurn(queue, k) /\ (Has(queue, Press(k)) /\ k \notin down => Has(queue, Release(k)))
        /\ (k \in down => ~Has(queue, Release(k)))
    BY <1>1 DEF Follows
  <2>5. InTurn(queue', k)
    BY <1>1, <1>2, <1>5, <2>1, <2>3, <2>4, InTurnAppend
  <2>6. k \in down' <=> k \in down \/ k = j
    BY <1>5
  <2>7. QED
    BY <1>5, <2>1, <2>2, <2>3, <2>4, <2>5, <2>6, Zenon DEF Follows
<1>6. ASSUME NEW j \in Keys, j \in down,
             down' = down \ {j}, queue' = Append(queue, Release(j))
      PROVE  CtrlInv'
  <2> SUFFICES ASSUME NEW k \in Ctrls
               PROVE  /\ Follows(queue', down', k)
                      /\ ~Has(queue', Press(k)) /\ (k \in down' \/ Has(queue', Release(k)))
                            <=> ~Has(queue, Press(k)) /\ (k \in down \/ Has(queue, Release(k)))
    BY <1>4
  <2>1. \A d : Has(queue', d) <=> Has(queue, d) \/ d = Release(j)
    BY <1>1, <1>2, <1>6, HasAppend
  <2>2. /\ Release(j) = Release(k) <=> j = k
        /\ Press(k) # Release(j)
    BY EventsDiffer
  <2>3. InTurn(queue, k) /\ (Has(queue, Press(k)) /\ k \notin down => Has(queue, Release(k)))
        /\ (k \in down => ~Has(queue, Release(k)))
    BY <1>1 DEF Follows
  <2>4. InTurn(queue', k)
    BY <1>1, <1>2, <1>6, <2>2, <2>3, InTurnAppend
  <2>5. k \in down' <=> k \in down /\ k # j
    BY <1>6
  <2>6. QED
    BY <1>6, <2>1, <2>2, <2>3, <2>4, <2>5, Zenon DEF Follows
<1>7. ASSUME NEW q \in Seq(Events), NEW e \in Events,
             \A k \in Ctrls : e # Press(k) /\ e # Release(k)
      PROVE  \A k \in Ctrls :
                /\ InTurn(q, k) => InTurn(Append(q, e), k)
                /\ Has(Append(q, e), Press(k)) <=> Has(q, Press(k))
                /\ Has(Append(q, e), Release(k)) <=> Has(q, Release(k))
  BY <1>7, InTurnAppend, HasAppend
<1>8. ASSUME NEW j \in Keys, j \in Repeating, down' = down,
             queue' = Append(Append(queue, Release(j)), Press(j))
      PROVE  CtrlInv'
  <2> SUFFICES ASSUME NEW k \in Ctrls
               PROVE  /\ Follows(queue', down', k)
                      /\ ~Has(queue', Press(k)) /\ (k \in down' \/ Has(queue', Release(k)))
                            <=> ~Has(queue, Press(k)) /\ (k \in down \/ Has(queue, Release(k)))
    BY <1>4
  <2> DEFINE once == Append(queue, Release(j))
  <2>1. \A i \in Ctrls : /\ Release(j) # Press(i) /\ Release(j) # Release(i)
                         /\ Press(j) # Press(i) /\ Press(j) # Release(i)
    BY <1>8, EventsDiffer
  <2>2. once \in Seq(Events)
    BY <1>1, <1>2, HasAppend
  <2>3. /\ InTurn(queue, k) => InTurn(once, k)
        /\ Has(once, Press(k)) <=> Has(queue, Press(k))
        /\ Has(once, Release(k)) <=> Has(queue, Release(k))
    BY <1>1, <1>2, <1>7, <2>1
  <2> HIDE DEF once
  <2>4. /\ InTurn(once, k) => InTurn(Append(once, Press(j)), k)
        /\ Has(Append(once, Press(j)), Press(k)) <=> Has(once, Press(k))
        /\ Has(Append(once, Press(j)), Release(k)) <=> Has(once, Release(k))
    BY <1>2, <1>7, <2>1, <2>2
  <2>5. queue' = Append(once, Press(j))
    BY <1>8 DEF once
  <2>6. QED
    BY <1>1, <1>8, <2>3, <2>4, <2>5 DEF Follows
<1>9. ASSUME NEW e \in Events, e.type \in OtherTypes \cup {"MotionNotify"},
             down' = down, queue' = Append(queue, e)
      PROVE  CtrlInv'
  <2>1. \A k \in Ctrls : e # Press(k) /\ e # Release(k)
    BY <1>9, OtherTypesAre, EventsDiffer
  <2>2. QED
    BY <1>1, <1>4, <1>7, <1>9, <2>1 DEF Follows
<1>10. QED
  <2>1. \/ \E k \in Keys : /\ k \notin down /\ ~Queued(Release(k))
                           /\ down' = down \cup {k} /\ queue' = Append(queue, Press(k))
        \/ \E k \in Keys : /\ k \in down
                           /\ down' = down \ {k} /\ queue' = Append(queue, Release(k))
        \/ \E k \in Keys : /\ k \in Repeating /\ down' = down
                           /\ queue' = Append(Append(queue, Release(k)), Press(k))
        \/ \E e \in Events : /\ e.type \in OtherTypes \cup {"MotionNotify"}
                             /\ down' = down /\ queue' = Append(queue, e)
    BY SendIs, Zenon
  <2>2. QED
    BY <1>5, <1>6, <1>8, <1>9, <2>1

\* The table has no more Ctrls than before, but for the press of one.
LEMMA PolledCtrls ==
    ASSUME InputsInv, Poll
    PROVE  LET e == Head(queue)
           IN  /\ Count(inputs', OfCtrl)
                     <= Count(inputs, OfCtrl)
                           + (IF \E k \in Ctrls : e = Press(k) THEN 1 ELSE 0)
               /\ \A k \in Ctrls :
                     e = Release(k) /\ ~FakeRelease(k) =>
                        Count(inputs', OfCtrl)
                           = IF Count(inputs, OfCtrl) = 0 THEN 0
                             ELSE Count(inputs, OfCtrl) - 1
<1> DEFINE e == Head(queue)
           D == OfCtrl
           n == Count(inputs, D)
<1>1. inputs \in Seq(Entry) /\ n \in Nat
  BY PlacesAre DEF InputsInv
<1>2. \A d \in Entry : d \in D <=> d.what = "CTRL_LEFT"
  BY DEF OfCtrl
<1>3. \A d \in Entry : d \in D <=> Same(d, Key("CTRL_LEFT", ""))
  <2>1. \A d \in Entry : d.what = "CTRL_LEFT" => d.tag = "keyboard"
    BY EntryIs
  <2>2. Key("CTRL_LEFT", "").tag = "keyboard" /\ Key("CTRL_LEFT", "").what = "CTRL_LEFT"
    BY DEF Key
  <2> HIDE DEF D
  <2>3. QED
    BY <1>2, <2>1, <2>2 DEF Same
<1> HIDE DEF e, D
<1>4. Count(consume_input(inputs, Key("CTRL_LEFT", "")), D) = IF n = 0 THEN 0 ELSE n - 1
  <2>1. ASSUME NEW c, \A d \in Entry : d \in D <=> Same(d, c)
        PROVE  Count(consume_input(inputs, c), D) = IF n = 0 THEN 0 ELSE n - 1
    BY <1>1, <2>1, ConsumeCounts
  <2>2. QED
    BY <1>3, <2>1
<1>5. \A d : Count(consume_input(inputs, d), D) <= n
  BY <1>1, ConsumeCounts
<1>6. ASSUME NEW d \in Entry, add_input(d)
      PROVE  Count(inputs', D) <= n + (IF d \in D THEN 1 ELSE 0)
  <2>1. \/ inputs' = inputs
        \/ Count(inputs', D) = n + (IF d \in D THEN 1 ELSE 0)
    BY <1>6, AddIs
  <2>2. QED
    BY <1>1, <2>1
<1>7. \A k \in Keys : k \in Ctrls <=> KeysymOf[k] = "CTRL_LEFT"
  BY DEF Ctrls
<1>8. \A j, k : Press(j) # Release(k) /\ (Release(j) = Release(k) => j = k)
  BY EventsDiffer
<1>9. \A k : e = Press(k) \/ e = Release(k) => e.type \notin OtherTypes /\ ~IsMotion(e)
  BY EventsDiffer, OtherTypesAre
<1>10. ASSUME NEW k \in Keys, e = Press(k), add_input(Key(KeysymOf[k], TextOf[k]))
       PROVE  Count(inputs', D) <= n + (IF \E j \in Ctrls : e = Press(j) THEN 1 ELSE 0)
  <2>1. /\ Key(KeysymOf[k], TextOf[k]) \in Entry
        /\ Key(KeysymOf[k], TextOf[k]).what = KeysymOf[k]
    BY DEF Entry, Key
  <2>2. Count(inputs', D)
           <= n + (IF Key(KeysymOf[k], TextOf[k]) \in D THEN 1 ELSE 0)
    BY <1>6, <1>10, <2>1
  <2>3. Key(KeysymOf[k], TextOf[k]) \in D => \E j \in Ctrls : e = Press(j)
    BY <1>2, <1>7, <1>10, <2>1
  <2>4. inputs' \in Seq(Entry)
    BY <1>10, <2>1, AddIs
  <2>5. Count(inputs', D) \in Nat
    BY <2>4, PlacesAre
  <2>6. QED
    BY <1>1, <2>2, <2>3, <2>5
<1>11. \A d \in {Mouse("MOUSE1"), Request("CLOSE"), Request("RESIZE")} :
          d \in Entry /\ d \notin D
  <2>1. {Mouse("MOUSE1"), Request("CLOSE"), Request("RESIZE")} \subseteq Entry
    BY DEF Entry
  <2>2. /\ Mouse("MOUSE1").what # "CTRL_LEFT" /\ Request("CLOSE").what # "CTRL_LEFT"
        /\ Request("RESIZE").what # "CTRL_LEFT"
    BY DEF Mouse, Request
  <2>3. QED
    BY <1>2, <2>1, <2>2
<1>12. \/ \E k \in Keys : e = Press(k) /\ add_input(Key(KeysymOf[k], TextOf[k]))
       \/ \E k \in Keys : /\ e = Release(k) /\ ~FakeRelease(k) /\ KeysymOf[k] # "NOT_FOUND"
                          /\ inputs' = consume_input(inputs, Key(KeysymOf[k], ""))
       \/ \E k \in Keys : /\ e = Release(k)
                          /\ FakeRelease(k) \/ KeysymOf[k] = "NOT_FOUND"
                          /\ inputs' = inputs
       \/ /\ e.type \in OtherTypes
          /\ \E d \in {Mouse("MOUSE1"), Request("CLOSE"), Request("RESIZE")} : add_input(d)
       \/ e.type \in OtherTypes /\ inputs' = consume_input(inputs, Mouse("MOUSE1"))
       \/ IsMotion(e) /\ inputs' = inputs
  BY PollIs, Zenon DEF e
<1>13. Count(inputs', D) <= n + (IF \E k \in Ctrls : e = Press(k) THEN 1 ELSE 0)
  <2>1. n <= n + (IF \E k \in Ctrls : e = Press(k) THEN 1 ELSE 0)
    BY <1>1
  <2>2. \A d : /\ Count(consume_input(inputs, d), D) \in Nat
               /\ Count(consume_input(inputs, d), D)
                     <= n + (IF \E k \in Ctrls : e = Press(k) THEN 1 ELSE 0)
    <3>1. \A d : consume_input(inputs, d) \in Seq(Entry)
      BY <1>1, ConsumeCounts
    <3>2. \A d : Count(consume_input(inputs, d), D) \in Nat
      BY <3>1, PlacesAre
    <3>3. QED
      BY <1>1, <1>5, <3>2
  <2>3. ASSUME NEW d \in {Mouse("MOUSE1"), Request("CLOSE"), Request("RESIZE")}, add_input(d)
        PROVE  Count(inputs', D) <= n + (IF \E k \in Ctrls : e = Press(k) THEN 1 ELSE 0)
    <3>1. Count(inputs', D) <= n + 0 /\ inputs' \in Seq(Entry)
      BY <1>6, <1>11, <2>3, AddIs
    <3>2. Count(inputs', D) \in Nat
      BY <3>1, PlacesAre
    <3>3. QED
      BY <1>1, <3>1, <3>2
  <2>4. QED
    BY <1>10, <1>12, <2>1, <2>2, <2>3
<1>14. ASSUME NEW k \in Ctrls, e = Release(k), ~FakeRelease(k)
       PROVE  Count(inputs', D) = IF n = 0 THEN 0 ELSE n - 1
  <2>1. k \in Keys /\ KeysymOf[k] = "CTRL_LEFT"
    BY DEF Ctrls
  <2>2. \E j \in Keys : /\ e = Release(j)
                        /\ inputs' = consume_input(inputs, Key(KeysymOf[j], ""))
    BY <1>8, <1>9, <1>12, <1>14, <2>1
  <2>3. inputs' = consume_input(inputs, Key("CTRL_LEFT", ""))
    BY <1>8, <1>14, <2>1, <2>2
  <2>4. QED
    BY <1>4, <2>3
<1>15. QED
  BY <1>13, <1>14 DEF e, D

\* A press that is polled is seen from then on, a release no longer.
LEMMA SeenStep ==
    ASSUME InputsInv, CtrlInv, Poll
    PROVE  LET e == Head(queue)
           IN  /\ \A k \in Ctrls : Follows(queue', down', k)
               /\ \A k \in Ctrls :
                     e = Press(k) => /\ k \notin Seen(queue, down)
                                     /\ Seen(queue', down') = Seen(queue, down) \cup {k}
               /\ \A k \in Ctrls :
                     e = Release(k) => /\ ~FakeRelease(k)
                                       /\ k \in Seen(queue, down)
                                       /\ Seen(queue', down') = Seen(queue, down) \ {k}
               /\ (\A k \in Ctrls : e # Press(k) /\ e # Release(k))
                     => Seen(queue', down') = Seen(queue, down)
<1> DEFINE e == Head(queue)
           t == Tail(queue)
<1>1. /\ queue # <<>> /\ queue \in Seq(Events) /\ t \in Seq(Events)
      /\ queue' = IF IsMotion(e) THEN WithoutMotions(t) ELSE t
      /\ down' = down
  <2>1. queue # <<>> /\ queue \in Seq(Events)
    BY PollIs
  <2>2. t \in Seq(Events)
    BY <2>1, HeadTailProperties
  <2>3. QED
    BY <2>1, <2>2, PollIs
<1>2. \A k \in Ctrls : Follows(queue, down, k)
  BY DEF CtrlInv
<1> HIDE DEF e
<1>3. ASSUME NEW k \in Ctrls
      PROVE  /\ InTurn(queue', k)
             /\ Has(queue', Press(k)) <=> Has(queue, Press(k)) /\ e # Press(k)
             /\ Has(queue', Release(k)) <=> Has(queue, Release(k)) /\ e # Release(k)
  <2>1. InTurn(queue, k)
    BY <1>2 DEF Follows
  <2>2. /\ InTurn(t, k)
        /\ \A d \in {Press(k), Release(k)} : Has(t, d) <=> Has(queue, d) /\ e # d
    BY <1>1, <2>1, InTurnTail DEF e
  <2> HIDE DEF t
  <2>3. /\ InTurn(WithoutMotions(t), k)
        /\ \A d : ~IsMotion(d) => (Has(WithoutMotions(t), d) <=> Has(t, d))
    BY <1>1, <2>2, InTurnKept
  <2>4. ~IsMotion(Press(k)) /\ ~IsMotion(Release(k))
    BY EventsDiffer
  <2>5. /\ InTurn(queue', k)
        /\ Has(queue', Press(k)) <=> Has(t, Press(k))
        /\ Has(queue', Release(k)) <=> Has(t, Release(k))
    BY <1>1, <2>2, <2>3, <2>4
  <2>6. QED
    BY <2>2, <2>5
<1>4. ASSUME NEW k \in Ctrls
      PROVE  /\ e = Press(k) => Has(queue, Press(k))
             /\ e = Release(k) => Has(queue, Release(k)) /\ ~Has(queue, Press(k))
  <2>1. InTurn(queue, k)
    BY <1>2 DEF Follows
  <2>2. /\ Has(queue, e)
        /\ e = Release(k) => ~Has(queue, Press(k))
    BY <1>1, <2>1, InTurnTail DEF e
  <2>3. QED
    BY <2>2
<1>5. \A j, k : /\ Press(j) # Release(k)
                /\ Press(j) = Press(k) <=> j = k
                /\ Release(j) = Release(k) <=> j = k
  BY EventsDiffer
<1>6. ASSUME NEW k \in Ctrls
      PROVE  /\ k \in down => ~Has(queue, Release(k))
             /\ Has(queue, Press(k)) /\ k \notin down => Has(queue, Release(k))
  BY <1>2 DEF Follows
<1>7. \A k \in Ctrls : Follows(queue', down', k)
  <2> SUFFICES ASSUME NEW k \in Ctrls PROVE Follows(queue', down', k)
    OBVIOUS
  <2>1. k \in down => ~Has(queue', Release(k))
    BY <1>3, <1>6
  <2>2. Has(queue', Press(k)) /\ k \notin down => Has(queue', Release(k))
    BY <1>3, <1>4, <1>6
  <2>3. QED
    BY <1>1, <1>3, <2>1, <2>2 DEF Follows
<1> DEFINE S == Seen(queue, down)
           T == Seen(queue', down')
<1>8. /\ S \subseteq Ctrls /\ T \subseteq Ctrls
      /\ \A k \in Ctrls : /\ k \in S <=> /\ ~Has(queue, Press(k))
                                         /\ k \in down \/ Has(queue, Release(k))
                          /\ k \in T <=> /\ ~Has(queue', Press(k))
                                         /\ k \in down \/ Has(queue', Release(k))
  BY <1>1 DEF Seen
<1> HIDE DEF S, T
<1>9. ASSUME NEW k \in Ctrls, e = Press(k)
      PROVE  k \notin S /\ T = S \cup {k}
  <2>1. k \notin S /\ k \in T
    BY <1>3, <1>4, <1>5, <1>6, <1>8, <1>9
  <2>2. ASSUME NEW j \in Ctrls, j # k
        PROVE  j \in T <=> j \in S
    BY <1>3, <1>5, <1>8, <1>9, <2>2
  <2>3. QED
    BY <1>8, <2>1, <2>2
<1>10. ASSUME NEW k \in Ctrls, e = Release(k)
       PROVE  ~FakeRelease(k) /\ k \in S /\ T = S \ {k}
  <2>1. k \in S /\ k \notin T
    BY <1>3, <1>4, <1>6, <1>8, <1>10
  <2>2. ASSUME NEW j \in Ctrls, j # k
        PROVE  j \in T <=> j \in S
    BY <1>3, <1>5, <1>8, <1>10, <2>2
  <2>3. ~FakeRelease(k)
    <3>1. ~Has(queue, Press(k)) /\ Len(queue) \in Nat
      BY <1>1, <1>4, <1>10, LenProperties
    <3>2. Len(queue) > 1 => 2 \in 1..Len(queue)
      BY <3>1
    <3>3. QED
      BY <3>1, <3>2 DEF FakeRelease, Has
  <2>4. QED
    BY <1>8, <2>1, <2>2, <2>3
<1>11. ASSUME \A k \in Ctrls : e # Press(k) /\ e # Release(k)
       PROVE  T = S
  <2>1. ASSUME NEW j \in Ctrls
        PROVE  j \in T <=> j \in S
    BY <1>3, <1>8, <1>11, <2>1
  <2>2. QED
    BY <1>8, <2>1
<1>12. QED
  BY <1>7, <1>9, <1>10, <1>11 DEF e, S, T

LEMMA CtrlStep ==
    ASSUME InputsInv, CtrlInv, [Next]_vars,
           ~Hasty, \A k \in Ctrls : k \notin Repeating
    PROVE  CtrlInv'
<1> DEFINE D == OfCtrl
           S == Seen(queue, down)
           T == Seen(queue', down')
<1>1. /\ inputs \in Seq(Entry) /\ inputs' \in Seq(Entry)
      /\ \A k \in Ctrls : Follows(queue, down, k)
      /\ Count(inputs, D) <= Cardinality(S)
  BY InvStep DEF InputsInv, CtrlInv
<1>2. Count(inputs, D) \in Nat /\ Count(inputs', D) \in Nat
  BY <1>1, PlacesAre
<1>3. /\ IsFiniteSet(S) /\ Cardinality(S) \in Nat
      /\ IsFiniteSet(T) /\ Cardinality(T) \in Nat
  BY SeenIs
<1>4. ASSUME queue' = queue, down' = down, Count(inputs', D) <= Count(inputs, D)
      PROVE  CtrlInv'
  BY <1>1, <1>2, <1>3, <1>4 DEF CtrlInv
<1>5. CASE UNCHANGED vars
  BY <1>2, <1>4, <1>5 DEF vars, server, program
<1>6. CASE Environment
  BY <1>6, NotSeen
<1>7. CASE Poll
  <2> DEFINE e == Head(queue)
  <2>1. \A k \in Ctrls : Follows(queue', down', k)
    BY <1>7, SeenStep
  <2>2. Count(inputs', D) <= Cardinality(T)
    <3>1. CASE \E k \in Ctrls : e = Press(k)
      <4>1. PICK k \in Ctrls : e = Press(k)
        BY <3>1
      <4>2. k \notin S /\ T = S \cup {k}
        BY <1>7, <4>1, SeenStep
      <4>3. Cardinality(T) = Cardinality(S) + 1
        BY <1>3, <4>2, FS_AddElement
      <4>4. Count(inputs', D) <= Count(inputs, D) + 1
        BY <1>7, <3>1, PolledCtrls
      <4> HIDE DEF S, T, D
      <4>5. QED
        BY <1>1, <1>2, <1>3, <4>3, <4>4
    <3>2. CASE \E k \in Ctrls : e = Release(k)
      <4>1. PICK k \in Ctrls : e = Release(k)
        BY <3>2
      <4>2. ~FakeRelease(k) /\ k \in S /\ T = S \ {k}
        BY <1>7, <4>1, SeenStep
      <4>3. Cardinality(T) = Cardinality(S) - 1
        BY <1>3, <4>2, FS_RemoveElement
      <4>4. Count(inputs', D) = IF Count(inputs, D) = 0 THEN 0 ELSE Count(inputs, D) - 1
        BY <1>7, <4>1, <4>2, PolledCtrls
      <4> HIDE DEF S, T, D
      <4>5. QED
        BY <1>1, <1>2, <1>3, <4>3, <4>4
    <3>3. CASE \A k \in Ctrls : e # Press(k) /\ e # Release(k)
      <4>1. T = S
        BY <1>7, <3>3, SeenStep
      <4>2. Count(inputs', D) <= Count(inputs, D) + 0
        BY <1>7, <3>3, PolledCtrls
      <4> HIDE DEF S, T, D
      <4>3. QED
        BY <1>1, <1>2, <1>3, <4>1, <4>2
    <3>4. QED
      BY <3>1, <3>2, <3>3
  <2>3. QED
    BY <2>1, <2>2 DEF CtrlInv
<1>8. CASE Simulate
  <2>1. queue' = queue /\ down' = down /\ inputs' = consume_input(inputs, Request("RESIZE"))
    BY <1>8 DEF Simulate, server
  <2>2. Count(inputs', D) <= Count(inputs, D)
    BY <1>1, <2>1, ConsumeCounts
  <2>3. QED
    BY <1>4, <2>1, <2>2
<1>9. CASE DoBinds
  <2>1. queue' = queue /\ down' = down
    BY <1>9 DEF DoBinds, server
  <2>2. inputs' = inputs \/ \E i \in 1..8 : inputs' = AfterBind(clicker_binds[i])
    BY <1>9, TableAfterBinds
  <2>3. Count(inputs', D) <= Count(inputs, D)
    BY <1>1, <1>2, <2>2, BindCounts
  <2>4. QED
    BY <1>4, <2>1, <2>3
<1>10. CASE TextInput
  <2>1. queue' = queue /\ down' = down
    BY <1>10, TextInputIs DEF server
  <2>2. inputs' = inputs \/ \E i \in 1..Len(inputs) : inputs' = RemoveSwap(inputs, i)
    BY <1>10, TextInputIs
  <2>3. \A i \in 1..Len(inputs) : Count(RemoveSwap(inputs, i), D)
                                     = Count(inputs, D) - (IF inputs[i] \in D THEN 1 ELSE 0)
    BY <1>1, CountRemoved
  <2> HIDE DEF D
  <2>4. Count(inputs', D) <= Count(inputs, D)
    BY <1>2, <2>2, <2>3
  <2>5. QED
    BY <1>4, <2>1, <2>4 DEF D
<1>11. QED
  BY <1>5, <1>6, <1>7, <1>8, <1>9, <1>10 DEF Next, MainLoop

\* With Ctrl in the table there is a Ctrl key that is seen.
LEMMA CtrlIsCounted ==
    ASSUME InputsInv, contains_input(inputs, Key("CTRL_LEFT", ""))
    PROVE  Count(inputs, OfCtrl) # 0
<1>1. inputs \in Seq(Entry) /\ DOMAIN inputs = 1..Len(inputs)
  BY LenProperties DEF InputsInv
<1>2. PICK i \in 1..Len(inputs) : Same(inputs[i], Key("CTRL_LEFT", ""))
  BY <1>1 DEF contains_input
<1>3. inputs[i] \in Entry
  BY <1>1, ElementOfSeq
<1>4. inputs[i].what = "CTRL_LEFT"
  BY <1>2 DEF Same, Key
<1>5. inputs[i] \in OfCtrl
  BY <1>3, <1>4 DEF OfCtrl
<1>6. QED
  BY <1>1, <1>5, PlacesAre

LEMMA CtrlIsSeen ==
    ASSUME InputsInv, CtrlInv, Count(inputs, OfCtrl) # 0
    PROVE  \E k \in Ctrls : k \in down \/ Has(queue, Release(k))
<1> DEFINE S == Seen(queue, down)
           n == Count(inputs, OfCtrl)
<1>1. n \in Nat
  BY PlacesAre DEF InputsInv
<1>2. IsFiniteSet(S) /\ Cardinality(S) \in Nat /\ n <= Cardinality(S) /\ n # 0
  BY SeenIs DEF CtrlInv
<1> HIDE DEF S, n
<1>3. S # {}
  BY <1>1, <1>2, FS_EmptySet
<1>4. QED
  BY <1>3 DEF S, Seen

LEMMA NothingIn ==
    ASSUME NEW q, q = <<>>
    PROVE  \A i : i \notin 1..Len(q)
<1>1. Len(q) = 0
  BY EmptySeq
<1>2. QED
  BY <1>1

\* Unless a key is pressed again before its release is read, or Ctrl repeats,
\* the release of Ctrl is never taken for a fake one and takes the entry of its
\* press along: with all events read the table holds no more Ctrls than are
\* held (window.c:166-175).
THEOREM CtrlDoesNotStick ==
    ASSUME ~Hasty, \A k \in Keys : KeysymOf[k] = "CTRL_LEFT" => k \notin Repeating
    PROVE  Spec => []NoStuckCtrl
<1>a. \A k \in Ctrls : k \notin Repeating
  BY DEF Ctrls
<1>1. Init => CtrlInv
  <2> SUFFICES ASSUME Init PROVE CtrlInv
    OBVIOUS
  <2>0. Len(<<>>) = 0 /\ 1..0 = {}
    BY EmptySeq
  <2>1. queue = <<>> /\ down = {} /\ inputs = <<>> /\ <<>> \in Seq(Entry)
    BY EmptySeq DEF Init
  <2>2. \A k \in Ctrls : Follows(queue, down, k)
    BY <2>0, <2>1 DEF Follows, InTurn, Has
  <2>3. Count(inputs, OfCtrl) = 0
    BY <2>0, <2>1, PlacesAre
  <2>4. QED
    BY <2>2, <2>3, SeenIs DEF CtrlInv
<1>2. InputsInv /\ CtrlInv /\ [Next]_vars => CtrlInv'
  BY <1>a, CtrlStep
<1>3. InputsInv /\ CtrlInv => NoStuckCtrl
  <2> SUFFICES ASSUME InputsInv, CtrlInv, queue = <<>>,
                      contains_input(inputs, Key("CTRL_LEFT", ""))
               PROVE  \E k \in down : KeysymOf[k] = "CTRL_LEFT"
    BY DEF NoStuckCtrl
  <2>1. PICK k \in Ctrls : k \in down \/ Has(queue, Release(k))
    BY CtrlIsCounted, CtrlIsSeen
  <2>2. ~Has(queue, Release(k))
    BY NothingIn DEF Has
  <2>3. QED
    BY <2>1, <2>2 DEF Ctrls
<1>4. QED
  BY <1>1, <1>2, <1>3, InvHolds, PTL DEF Spec

=============================================================================
