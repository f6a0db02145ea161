---------------------------- MODULE ButtonsProofs ----------------------------
(***************************************************************************)
(* Theorems about the registry of buttons, for any size of the table and   *)
(* any buttons: what the purge leaves, that ids stay unique, and which     *)
(* button a click can run.                                                 *)
(***************************************************************************)
EXTENDS Buttons, Loops, SequenceTheorems

Button == [id : Ids, box : Boxes, birth : Nat]

-----------------------------------------------------------------------------
(* The purge *)

\* Removing an entry of the table: the last takes its place.
LEMMA RemoveSwapIs ==
    ASSUME NEW t \in Seq(Button), NEW i
    PROVE  /\ RemoveSwap(t, i) \in Seq(Button)
           /\ i \in DOMAIN t =>
                /\ Len(RemoveSwap(t, i)) = Len(t) - 1
                /\ \A k \in 1..(Len(t) - 1) :
                      RemoveSwap(t, i)[k] = IF k = i THEN t[Len(t)] ELSE t[k]
<1> DEFINE s == [t EXCEPT ![i] = Last(t)]
<1>1. RemoveSwap(t, i) = SubSeq(s, 1, Len(s) - 1)
  BY DEF RemoveSwap, Front
<1>2. CASE t = <<>>
  <2>1. s = <<>>
    BY <1>2
  <2>2. SubSeq(s, 1, Len(s) - 1) = <<>>
    BY <2>1
  <2>3. QED
    BY <1>1, <1>2, <2>2
<1>3. CASE t # <<>>
  <2>1. Len(t) \in Nat /\ Len(t) > 0 /\ Last(t) = t[Len(t)] /\ Last(t) \in Button
    BY <1>3 DEF Last
  <2>2. s \in Seq(Button) /\ Len(s) = Len(t)
    <3>1. CASE i \in 1..Len(t)
      BY <2>1, <3>1, ExceptSeq
    <3>2. CASE i \notin 1..Len(t)
      <4>1. s = t
        BY <3>2
      <4>2. QED
        BY <4>1
    <3>3. QED
      BY <3>1, <3>2
  <2>3. \A k \in 1..Len(t) : s[k] = IF k = i THEN t[Len(t)] ELSE t[k]
    BY <2>1
  <2> HIDE DEF s
  <2>4. \A k \in 1..(Len(s) - 1) : s[k] \in Button
    BY <2>1, <2>2
  <2>5. /\ SubSeq(s, 1, Len(s) - 1) \in Seq(Button)
        /\ Len(SubSeq(s, 1, Len(s) - 1)) = Len(s) - 1
        /\ \A k \in 1..(Len(s) - 1) : SubSeq(s, 1, Len(s) - 1)[k] = s[k]
    BY <2>1, <2>2, <2>4, SubSeqProperties
  <2>6. QED
    BY <1>1, <2>1, <2>2, <2>3, <2>5
<1>4. QED
  BY <1>2, <1>3

\* The n-th turn of the loop over the table, from its end.
PurgeTurn(table, n, t) ==
    IF t[Len(table) - n + 1].id \in dead THEN RemoveSwap(t, Len(table) - n + 1) ELSE t

LEMMA PurgeExists ==
    ASSUME NEW table \in Seq(Button)
    PROVE  \E f \in [0..Len(table) -> Seq(Button)] :
              /\ PurgeDead(table) = f[Len(table)]
              /\ f[0] = table
              /\ \A n \in 1..Len(table) : f[n] = PurgeTurn(table, n, f[n - 1])
<1> DEFINE S == Seq(Button)
           m == Len(table)
           F == [n \in 1..Len(table) |-> [t \in S |-> PurgeTurn(table, n, t)]]
           Is(f) == f = [n \in 0..Len(table) |->
                      IF n = 0 THEN table
                      ELSE LET t == f[n - 1]
                               i == Len(table) - n + 1
                           IN  IF t[i].id \in dead THEN RemoveSwap(t, i) ELSE t]
           after == CHOOSE f : Is(f)
<1>1. m \in Nat
  OBVIOUS
<1>2. \A n \in 1..m : \A t \in S : PurgeTurn(table, n, t) \in S
  BY RemoveSwapIs DEF PurgeTurn
<1>3. F \in [1..m -> [S -> S]]
  BY <1>2
<1>4. PICK g : AreTurns(g, S, F, table, m)
  <2> HIDE DEF S, F, m
  <2>0. table \in S
    BY DEF S
  <2>1. QED
    BY <1>1, <1>3, <2>0, TurnsExist
<1>5. Is(g)
  <2>1. ASSUME NEW n \in 0..m, n # 0
        PROVE  g[n] = PurgeTurn(table, n, g[n - 1])
    <3>1. n - 1 \in 0..m /\ n \in 1..m
      BY <1>1, <2>1
    <3>2. g[n - 1] \in S /\ g[n] = F[n][g[n - 1]]
      BY <1>4, <3>1 DEF AreTurns
    <3>3. QED
      BY <3>1, <3>2
  <2>2. g = [n \in 0..m |-> IF n = 0 THEN table ELSE PurgeTurn(table, n, g[n - 1])]
    BY <1>4, <2>1 DEF AreTurns
  <2>3. QED
    BY <2>2 DEF PurgeTurn
<1>6. Is(after)
  BY <1>5
<1>7. PurgeDead(table) = after[Len(table)]
  BY DEF PurgeDead
<1> HIDE DEF after
<1>8. after = [n \in 0..m |-> IF n = 0 THEN table ELSE PurgeTurn(table, n, after[n - 1])]
  BY <1>6 DEF PurgeTurn
<1>9. after[0] = table /\ \A n \in 1..m : after[n] = PurgeTurn(table, n, after[n - 1])
  BY <1>1, <1>8
<1>10. \A n \in 0..m : after[n] \in S
  <2> DEFINE T == {n \in 0..m : after[n] \in S}
  <2>1. 0 \in T
    BY <1>1, <1>9
  <2>2. \A n \in 1..m : n - 1 \in T => n \in T
    BY <1>2, <1>9
  <2> HIDE DEF T, m
  <2>3. \A n \in 0..m : n \in T
    BY <1>1, <2>1, <2>2, EveryTurn
  <2>4. QED
    BY <2>3 DEF T
<1>11. after \in [0..m -> S]
  BY <1>8, <1>10
<1>12. QED
  BY <1>7, <1>9, <1>11

\* No id and no birth twice.
UniqueIn(t) ==
    \A i, j \in DOMAIN t : t[i].id = t[j].id \/ t[i].birth = t[j].birth => i = j

\* Where the loop is when the places above p have been looked at: they hold
\* no dead button, those below are as they were, and of the others none was
\* lost and none came.
PurgedAbove(table, t, p) ==
    /\ Len(t) \in p..Len(table)
    /\ \A k \in 1..p : t[k] = table[k]
    /\ \A k \in (p + 1)..Len(t) : t[k].id \notin dead
    /\ \A k \in 1..Len(t) : \E j \in 1..Len(table) : t[k] = table[j]
    /\ \A j \in 1..Len(table) :
          j <= p \/ table[j].id \notin dead =>
              \E k \in 1..Len(t) : t[k] = table[j]
    /\ UniqueIn(table) => UniqueIn(t)
    /\ (\A j \in 1..Len(table) : table[j].id \notin dead) => t = table

LEMMA PurgeStep ==
    ASSUME NEW table \in Seq(Button), NEW t \in Seq(Button),
           NEW n \in 1..Len(table),
           PurgedAbove(table, t, Len(table) - (n - 1))
    PROVE  PurgedAbove(table, PurgeTurn(table, n, t), Len(table) - n)
<1> DEFINE p == Len(table) - n
           i == Len(table) - n + 1
           u == RemoveSwap(t, i)
<1>1. /\ Len(table) \in Nat /\ Len(t) \in Nat
      /\ p \in Nat /\ i = p + 1 /\ i \in 1..Len(table)
      /\ Len(table) - (n - 1) = i
  OBVIOUS
<1>2. PurgedAbove(table, t, i)
  BY <1>1
<1> HIDE DEF p, i
<1>3. i \in 1..Len(t) /\ t[i] = table[i] /\ Len(t) <= Len(table)
  BY <1>1, <1>2 DEF PurgedAbove
<1>4. CASE t[i].id \notin dead
  <2>1. PurgeTurn(table, n, t) = t
    BY <1>4 DEF PurgeTurn, i
  <2>2. Len(t) \in p..Len(table) /\ \A k \in 1..p : t[k] = table[k]
    <3>1. Len(t) \in p..Len(table) /\ \A k \in 1..p : k \in 1..i
      BY <1>1, <1>3
    <3>2. QED
      BY <1>2, <3>1 DEF PurgedAbove
  <2>3. ASSUME NEW k \in (p + 1)..Len(t)
        PROVE  t[k].id \notin dead
    <3>1. k = i \/ k \in (i + 1)..Len(t)
      BY <1>1
    <3>2. QED
      BY <1>2, <1>4, <3>1 DEF PurgedAbove
  <2>4. ASSUME NEW j \in 1..Len(table), j <= p \/ table[j].id \notin dead
        PROVE  \E k \in 1..Len(t) : t[k] = table[j]
    <3>1. j <= p => j <= i
      BY <1>1
    <3>2. QED
      BY <1>2, <2>4, <3>1 DEF PurgedAbove
  <2>5. PurgedAbove(table, t, p)
    BY <1>2, <2>2, <2>3, <2>4 DEF PurgedAbove
  <2>6. QED
    BY <2>1, <2>5 DEF p
<1>5. CASE t[i].id \in dead
  <2>1. PurgeTurn(table, n, t) = u
    BY <1>5 DEF PurgeTurn, i
  <2> DEFINE From(k) == IF k = i THEN Len(t) ELSE k
  <2>2. /\ u \in Seq(Button)
        /\ Len(u) = Len(t) - 1
        /\ \A k \in 1..Len(u) : u[k] = t[From(k)]
    <3>1. i \in DOMAIN t
      BY <1>3
    <3>2. /\ u \in Seq(Button)
          /\ Len(u) = Len(t) - 1
          /\ \A k \in 1..(Len(t) - 1) : u[k] = IF k = i THEN t[Len(t)] ELSE t[k]
      BY <3>1, RemoveSwapIs
    <3>3. QED
      BY <3>2
  <2>3. Len(u) \in p..Len(table)
    BY <1>1, <1>3, <2>2
  <2> HIDE DEF u
  <2>4. ASSUME NEW k \in 1..p
        PROVE  u[k] = table[k]
    <3>1. k \in 1..Len(u) /\ k \in 1..i /\ From(k) = k
      BY <1>1, <2>2, <2>3
    <3>2. QED
      BY <1>2, <2>2, <3>1 DEF PurgedAbove
  <2>5. ASSUME NEW k \in 1..Len(u)
        PROVE  From(k) \in 1..Len(t)
    BY <1>1, <2>2
  <2>6. ASSUME NEW k \in (p + 1)..Len(u)
        PROVE  u[k].id \notin dead
    <3>1. k \in 1..Len(u) /\ From(k) \in (i + 1)..Len(t)
      BY <1>1, <2>2
    <3>2. QED
      BY <1>2, <2>2, <3>1 DEF PurgedAbove
  <2>7. ASSUME NEW k \in 1..Len(u)
        PROVE  \E j \in 1..Len(table) : u[k] = table[j]
    <3>1. u[k] = t[From(k)] /\ From(k) \in 1..Len(t)
      BY <2>2, <2>5
    <3> HIDE DEF From
    <3>2. QED
      BY <1>2, <3>1 DEF PurgedAbove
  <2>8. ASSUME NEW j \in 1..Len(table), j <= p \/ table[j].id \notin dead
        PROVE  \E k \in 1..Len(u) : u[k] = table[j]
    <3>1. CASE j <= p
      <4>1. j \in 1..p /\ j \in 1..Len(u)
        BY <1>1, <2>3, <3>1
      <4>2. QED
        BY <2>4, <4>1
    <3>2. CASE table[j].id \notin dead
      <4>1. PICK k \in 1..Len(t) : t[k] = table[j]
        BY <1>2, <3>2 DEF PurgedAbove
      <4>2. k # i
        BY <1>5, <3>2, <4>1
      <4>3. CASE k = Len(t)
        <5>1. i \in 1..Len(u) /\ From(i) = k
          BY <1>1, <1>3, <2>2, <4>2, <4>3
        <5>2. QED
          BY <2>2, <4>1, <5>1
      <4>4. CASE k # Len(t)
        <5>1. k \in 1..Len(u) /\ From(k) = k
          BY <1>1, <2>2, <4>2, <4>4
        <5>2. QED
          BY <2>2, <4>1, <5>1
      <4>5. QED
        BY <4>3, <4>4
    <3>3. QED
      BY <2>8, <3>1, <3>2
  <2>9. ASSUME UniqueIn(t)
        PROVE  UniqueIn(u)
    <3> SUFFICES ASSUME NEW a \in 1..Len(u), NEW b \in 1..Len(u),
                        u[a].id = u[b].id \/ u[a].birth = u[b].birth
                 PROVE  a = b
      BY <2>2 DEF UniqueIn
    <3>1. /\ u[a] = t[From(a)] /\ From(a) \in 1..Len(t)
          /\ u[b] = t[From(b)] /\ From(b) \in 1..Len(t)
      BY <2>2, <2>5
    <3>2. From(a) = From(b)
      <4> HIDE DEF From
      <4>1. DOMAIN t = 1..Len(t)
        OBVIOUS
      <4>2. QED
        BY <2>9, <3>1, <4>1 DEF UniqueIn
    <3>3. a # Len(t) /\ b # Len(t)
      BY <1>1, <2>2
    <3>4. QED
      BY <3>2, <3>3
  <2>10. \E j \in 1..Len(table) : table[j].id \in dead
    BY <1>1, <1>3, <1>5
  <2>11. UniqueIn(table) => UniqueIn(u)
    BY <1>2, <2>9 DEF PurgedAbove
  <2> HIDE DEF From
  <2>12. PurgedAbove(table, u, p)
    BY <2>3, <2>4, <2>6, <2>7, <2>8, <2>10, <2>11 DEF PurgedAbove
  <2>13. QED
    BY <2>1, <2>12 DEF p
<1>6. QED
  BY <1>4, <1>5

\* A purge leaves the buttons that are not dead, and no other.
LEMMA PurgeIs ==
    ASSUME NEW table \in Seq(Button)
    PROVE  PurgeDead(table) \in Seq(Button) /\ PurgedAbove(table, PurgeDead(table), 0)
<1> DEFINE m == Len(table)
<1>1. PICK f \in [0..m -> Seq(Button)] :
         /\ PurgeDead(table) = f[m]
         /\ f[0] = table
         /\ \A n \in 1..m : f[n] = PurgeTurn(table, n, f[n - 1])
  BY PurgeExists
<1>2. m \in Nat
  OBVIOUS
<1> DEFINE T == {n \in 0..m : PurgedAbove(table, f[n], m - n)}
<1>3. 0 \in T
  <2>1. m - 0 = m
    BY <1>2
  <2>2. PurgedAbove(table, table, m)
    BY <1>2 DEF PurgedAbove
  <2>3. QED
    BY <1>1, <1>2, <2>1, <2>2
<1>4. ASSUME NEW n \in 1..m, n - 1 \in T
      PROVE  n \in T
  <2>1. n - 1 \in 0..m /\ n \in 0..m /\ f[n - 1] \in Seq(Button)
    BY <1>1, <1>2
  <2>2. PurgedAbove(table, f[n - 1], m - (n - 1))
    BY <1>4
  <2>3. PurgedAbove(table, f[n], m - n)
    BY <1>1, <2>1, <2>2, PurgeStep
  <2>4. QED
    BY <2>1, <2>3
<1> HIDE DEF T
<1>5. \A n \in 0..m : n \in T
  BY <1>2, <1>3, <1>4, EveryTurn
<1>6. PurgedAbove(table, f[m], m - m) /\ m - m = 0 /\ f[m] \in Seq(Button)
  BY <1>1, <1>2, <1>5 DEF T
<1>7. QED
  BY <1>1, <1>6

\* The ids that are left.
LEMMA PurgeIds ==
    ASSUME NEW table \in Seq(Button)
    PROVE  IdsOf(PurgeDead(table)) = IdsOf(table) \ dead
<1> DEFINE t == PurgeDead(table)
<1>1. t \in Seq(Button) /\ PurgedAbove(table, t, 0)
  BY PurgeIs
<1> HIDE DEF t
<1>2. /\ \A k \in 1..Len(t) : k \in (0 + 1)..Len(t)
      /\ Len(t) \in Nat /\ DOMAIN t = 1..Len(t)
      /\ DOMAIN table = 1..Len(table)
  BY <1>1
<1>3. ASSUME NEW id \in IdsOf(t)
      PROVE  id \in IdsOf(table) \ dead
  <2>1. PICK k \in 1..Len(t) : id = t[k].id
    BY <1>2 DEF IdsOf
  <2>2. PICK j \in 1..Len(table) : t[k] = table[j]
    BY <1>1 DEF PurgedAbove
  <2>3. t[k].id \notin dead
    BY <1>1, <1>2 DEF PurgedAbove
  <2>4. QED
    BY <1>2, <2>1, <2>2, <2>3 DEF IdsOf
<1>4. ASSUME NEW id \in IdsOf(table) \ dead
      PROVE  id \in IdsOf(t)
  <2>1. PICK j \in 1..Len(table) : id = table[j].id
    BY <1>2 DEF IdsOf
  <2>2. PICK k \in 1..Len(t) : t[k] = table[j]
    BY <1>1, <1>4, <2>1 DEF PurgedAbove
  <2>3. QED
    BY <1>2, <2>1, <2>2 DEF IdsOf
<1>5. QED
  BY <1>3, <1>4 DEF t

-----------------------------------------------------------------------------
(* The invariant *)

\* The table grows at its end, so as long as nothing was purged a later place
\* is a later birth: why a search from the end finds the most recent.
ByBirth(t) == \A i, j \in DOMAIN t : i < j => t[i].birth < t[j].birth

ButtonsInv ==
    /\ buttons \in Seq(Button)
    /\ TypeOK
    /\ UniqueIn(buttons)
    /\ ~purged => ByBirth(buttons)
    /\ MostRecentRunsAtFirst

LEMMA MinIs ==
    ASSUME NEW S \in SUBSET Nat, S # {}
    PROVE  Min(S) \in S
BY LeastNatural DEF Min

LEMMA MaxIs ==
    ASSUME NEW S \in SUBSET Nat, S # {}, NEW n \in Nat, \A x \in S : x <= n
    PROVE  Max(S) \in S /\ \A x \in S : x <= Max(S)
<1>1. PICK x \in S : \A y \in S : y <= x
  BY GreatestNatural
<1>2. \A y \in S : x >= y
  <2>1. \A y \in S : y \in Nat /\ x \in Nat
    OBVIOUS
  <2>2. QED
    BY <1>1, <2>1
<1>3. Max(S) \in S /\ \A y \in S : Max(S) >= y
  BY <1>2 DEF Max
<1>4. \A y \in S : y \in Nat /\ Max(S) \in Nat
  BY <1>3
<1>5. QED
  BY <1>3, <1>4

LEMMA InvInit == Init => ButtonsInv
<1> SUFFICES ASSUME Init PROVE ButtonsInv
  OBVIOUS
<1>1. buttons = <<>> /\ buttons \in Seq(Button) /\ Len(buttons) = 0
  BY DEF Init
<1>2. DOMAIN buttons = {}
  BY <1>1
<1>3. TypeOK
  <2>1. 0 <= MaxButtons /\ 0 \in 0..MaxCreated /\ 0 \in 0..0
    BY ButtonsAssumption
  <2>2. clicked.under = {} /\ clicked.ran = 0
    BY DEF Init
  <2>3. QED
    BY <1>1, <1>2, <2>1, <2>2 DEF Init, TypeOK
<1>4. UniqueIn(buttons) /\ ByBirth(buttons)
  BY <1>2 DEF UniqueIn, ByBirth
<1>5. MostRecentRunsAtFirst
  BY DEF Init, MostRecentRunsAtFirst, MostRecentRuns
<1>6. QED
  BY <1>1, <1>3, <1>4, <1>5 DEF ButtonsInv

LEMMA RegisterStep ==
    ASSUME ButtonsInv, NEW id \in Ids, NEW box \in Boxes, Register(id, box)
    PROVE  ButtonsInv'
<1>1. /\ buttons \in Seq(Button) /\ TypeOK /\ UniqueIn(buttons)
      /\ ~purged => ByBirth(buttons)
      /\ MostRecentRunsAtFirst
  BY DEF ButtonsInv
<1>2. UNCHANGED <<dead, clicked, purged>> /\ MostRecentRunsAtFirst'
  BY <1>1 DEF Register, MostRecentRunsAtFirst, MostRecentRuns
<1>3. created \in Nat /\ Len(buttons) \in Nat /\ DOMAIN buttons = 1..Len(buttons)
  BY <1>1 DEF TypeOK
<1>4. CASE /\ IndexOf(id) # {}
           /\ buttons' = [buttons EXCEPT ![Min(IndexOf(id))].box = box]
           /\ UNCHANGED <<created, proc>>
  <2> DEFINE i == Min(IndexOf(id))
             b == [buttons[i] EXCEPT !.box = box]
  <2>1. i \in 1..Len(buttons)
    <3>1. IndexOf(id) \in SUBSET Nat /\ IndexOf(id) \subseteq 1..Len(buttons)
      BY <1>3 DEF IndexOf
    <3>2. QED
      BY <1>4, <3>1, MinIs
  <2>2. buttons' = [buttons EXCEPT ![i] = b]
    BY <1>4
  <2> HIDE DEF i
  <2>3. buttons[i] \in Button
    BY <1>1, <2>1
  <2>4. b \in Button /\ b.id = buttons[i].id /\ b.birth = buttons[i].birth
        /\ b.box = box
    BY <2>3 DEF Button
  <2> HIDE DEF b
  <2>5. buttons' \in Seq(Button) /\ Len(buttons') = Len(buttons)
        /\ \A j \in 1..Len(buttons) :
              buttons'[j] = IF j = i THEN b ELSE buttons[j]
    BY <1>1, <2>1, <2>2, <2>4, ExceptSeq
  <2>6. DOMAIN buttons' = 1..Len(buttons)
    BY <2>5
  <2>7. \A j \in 1..Len(buttons) :
           /\ buttons'[j].id = buttons[j].id
           /\ buttons'[j].birth = buttons[j].birth
           /\ buttons'[j].box \in Boxes
    BY <1>1, <1>3, <2>4, <2>5 DEF TypeOK
  <2>8. TypeOK'
    BY <1>1, <1>2, <1>3, <1>4, <2>5, <2>6, <2>7 DEF TypeOK
  <2>9. UniqueIn(buttons')
    BY <1>1, <1>3, <2>6, <2>7 DEF UniqueIn
  <2>10. ~purged => ByBirth(buttons')
    BY <1>1, <1>3, <2>6, <2>7 DEF ByBirth
  <2>11. QED
    BY <1>2, <2>5, <2>8, <2>9, <2>10 DEF ButtonsInv
<1>5. CASE /\ IndexOf(id) = {}
           /\ created < MaxCreated
           /\ ~Full
           /\ buttons' = Append(buttons, [id    |-> id,
                                         box   |-> box,
                                         birth |-> created + 1])
           /\ created' = created + 1
           /\ UNCHANGED proc
  <2> DEFINE b == [id |-> id, box |-> box, birth |-> created + 1]
             n == Len(buttons) + 1
  <2>1. b \in Button /\ b.id = id /\ b.box = box /\ b.birth = created + 1
    BY <1>3 DEF Button
  <2>2. buttons' = Append(buttons, b)
    BY <1>5
  <2> HIDE DEF b
  <2>3. buttons' \in Seq(Button) /\ Len(buttons') = n /\ buttons'[n] = b
        /\ \A j \in 1..Len(buttons) : buttons'[j] = buttons[j]
    BY <1>1, <2>1, <2>2, AppendProperties
  <2>4. n \in Nat /\ DOMAIN buttons' = 1..n /\ \A j \in 1..n : j = n \/ j \in 1..Len(buttons)
    BY <1>3, <2>3
  <2>5. n <= MaxButtons
    BY <1>3, <1>5, ButtonsAssumption DEF Full
  <2>6. \A j \in 1..Len(buttons) :
           /\ buttons[j].id # id
           /\ buttons[j].birth \in 1..created
           /\ buttons[j].birth < created + 1
    <3>1. \A j \in 1..Len(buttons) : buttons[j].birth \in 1..created
      BY <1>1, <1>3 DEF TypeOK
    <3>2. \A j \in 1..Len(buttons) : buttons[j].id # id
      BY <1>3, <1>5 DEF IndexOf
    <3>3. QED
      BY <1>3, <3>1, <3>2
  <2> HIDE DEF n
  <2>7. TypeOK'
    <3>1. created' \in 0..MaxCreated /\ 1..created \subseteq 1..created'
          /\ 0..created \subseteq 0..created' /\ created + 1 \in 1..created'
      BY <1>1, <1>3, <1>5, ButtonsAssumption DEF TypeOK
    <3>2. \A j \in 1..n : /\ buttons'[j].id \in Ids
                          /\ buttons'[j].box \in Boxes
                          /\ buttons'[j].birth \in 1..created'
      <4>1. \A j \in 1..Len(buttons) : /\ buttons[j].id \in Ids
                                       /\ buttons[j].box \in Boxes
                                       /\ buttons[j].birth \in 1..created
        BY <1>1, <1>3 DEF TypeOK
      <4>2. QED
        BY <2>1, <2>3, <2>4, <3>1, <4>1
    <3>3. proc' = proc
      BY <1>5
    <3>4. QED
      BY <1>1, <1>2, <2>3, <2>4, <2>5, <3>1, <3>2, <3>3 DEF TypeOK
  <2>8. UniqueIn(buttons')
    <3> SUFFICES ASSUME NEW i \in 1..n, NEW j \in 1..n,
                        \/ buttons'[i].id = buttons'[j].id
                        \/ buttons'[i].birth = buttons'[j].birth
                 PROVE  i = j
      BY <2>4 DEF UniqueIn
    <3>1. CASE i = n /\ j = n
      BY <3>1
    <3>2. CASE i \in 1..Len(buttons) /\ j = n
      BY <2>1, <2>3, <2>6, <3>2, <1>3
    <3>3. CASE i = n /\ j \in 1..Len(buttons)
      BY <2>1, <2>3, <2>6, <3>3, <1>3
    <3>4. CASE i \in 1..Len(buttons) /\ j \in 1..Len(buttons)
      BY <1>1, <1>3, <2>3, <3>4 DEF UniqueIn
    <3>5. QED
      BY <2>4, <3>1, <3>2, <3>3, <3>4
  <2>9. ASSUME ~purged
        PROVE  ByBirth(buttons')
    <3> SUFFICES ASSUME NEW i \in 1..n, NEW j \in 1..n, i < j
                 PROVE  buttons'[i].birth < buttons'[j].birth
      BY <2>4 DEF ByBirth
    <3>1. i \in 1..Len(buttons)
      BY <1>3 DEF n
    <3>2. CASE j = n
      BY <2>1, <2>3, <2>6, <3>1, <3>2
    <3>3. CASE j \in 1..Len(buttons)
      BY <1>1, <1>3, <2>3, <2>9, <3>1, <3>3 DEF ByBirth
    <3>4. QED
      BY <2>4, <3>2, <3>3
  <2>10. QED
    BY <1>2, <2>3, <2>7, <2>8, <2>9 DEF ButtonsInv
<1>6. CASE /\ IndexOf(id) = {}
           /\ Full
           /\ proc' = "abort"
           /\ UNCHANGED <<buttons, created>>
  <2>1. TypeOK'
    BY <1>1, <1>2, <1>6 DEF TypeOK
  <2>2. QED
    BY <1>1, <1>2, <1>6, <2>1 DEF ButtonsInv
<1>7. QED
  BY <1>4, <1>5, <1>6 DEF Register

LEMMA ClickStep ==
    ASSUME ButtonsInv, NEW p \in Points, HandleClick(p)
    PROVE  ButtonsInv'
<1> DEFINE t == PurgeDead(buttons)
           under == {i \in DOMAIN t : Within(p, t[i].box)}
<1>1. /\ buttons \in Seq(Button) /\ TypeOK /\ UniqueIn(buttons)
      /\ ~purged => ByBirth(buttons)
      /\ created \in Nat
  BY DEF ButtonsInv, TypeOK
<1>2. t \in Seq(Button) /\ PurgedAbove(buttons, t, 0)
  BY <1>1, PurgeIs
<1>3. /\ buttons' = t
      /\ clicked' = [under |-> {t[i].birth : i \in under},
                     ran   |-> IF under = {} THEN 0
                               ELSE t[LastOf(under)].birth]
      /\ purged' = (purged \/ t # buttons)
      /\ UNCHANGED <<created, dead, proc>>
  BY DEF HandleClick
<1> HIDE DEF t
<1>4. /\ Len(t) \in Nat /\ DOMAIN t = 1..Len(t) /\ Len(t) <= Len(buttons)
      /\ DOMAIN buttons = 1..Len(buttons) /\ Len(buttons) \in Nat
  BY <1>1, <1>2 DEF PurgedAbove
<1>5. ASSUME NEW i \in DOMAIN t
      PROVE  t[i].id \in Ids /\ t[i].box \in Boxes /\ t[i].birth \in 1..created
  <2>1. PICK j \in 1..Len(buttons) : t[i] = buttons[j]
    BY <1>2, <1>4 DEF PurgedAbove
  <2>2. QED
    BY <1>1, <1>4, <2>1 DEF TypeOK
<1>6. under \subseteq DOMAIN t
  OBVIOUS
<1>7. ASSUME under # {}
      PROVE  LastOf(under) \in under /\ \A i \in under : i <= LastOf(under)
  <2>1. under \in SUBSET Nat /\ \A i \in under : i <= Len(t)
    BY <1>4
  <2> HIDE DEF under
  <2>2. QED
    BY <1>4, <1>7, <2>1, MaxIs DEF LastOf
<1> HIDE DEF under
<1>8. /\ clicked'.under = {t[i].birth : i \in under}
      /\ clicked'.ran = IF under = {} THEN 0 ELSE t[LastOf(under)].birth
  BY <1>3
<1>9. TypeOK'
  <2>1. clicked'.under \subseteq 1..created /\ clicked'.ran \in 0..created
    <3>1. clicked'.under \subseteq 1..created
      BY <1>5, <1>6, <1>8
    <3>2. CASE under = {}
      BY <1>1, <1>8, <3>1, <3>2
    <3>3. CASE under # {}
      BY <1>1, <1>5, <1>6, <1>7, <1>8, <3>1, <3>3
    <3>4. QED
      BY <3>2, <3>3
  <2>2. purged' \in BOOLEAN
    BY <1>3
  <2>3. Len(t) <= MaxButtons
    BY <1>1, <1>4, ButtonsAssumption DEF TypeOK
  <2>4. QED
    BY <1>1, <1>3, <1>5, <2>1, <2>2, <2>3 DEF TypeOK
<1>10. UniqueIn(buttons')
  BY <1>1, <1>2, <1>3 DEF PurgedAbove
<1>11. ASSUME ~purged'
       PROVE  t = buttons /\ ByBirth(t)
  BY <1>1, <1>3, <1>11
<1>12. MostRecentRunsAtFirst'
  <2>1. ASSUME ~purged', NEW i \in under
        PROVE  t[i].birth <= clicked'.ran
    <3>1. LastOf(under) \in under /\ i <= LastOf(under) /\ under # {}
      BY <1>7, <2>1
    <3>2. i \in Nat /\ LastOf(under) \in Nat /\ i \in DOMAIN t /\ LastOf(under) \in DOMAIN t
      BY <1>4, <1>6, <3>1
    <3>3. t[i].birth \in Nat /\ t[LastOf(under)].birth \in Nat
      BY <1>1, <1>5, <3>2
    <3>4. CASE i = LastOf(under)
      BY <1>8, <3>1, <3>3, <3>4
    <3>5. CASE i < LastOf(under)
      BY <1>8, <1>11, <2>1, <3>1, <3>2, <3>3, <3>5 DEF ByBirth
    <3>6. QED
      BY <3>1, <3>2, <3>4, <3>5
  <2>2. ~purged' => MostRecentRuns'
    BY <1>8, <2>1 DEF MostRecentRuns
  <2>3. clicked'.under # {} => clicked'.ran \in clicked'.under
    BY <1>7, <1>8
  <2>4. QED
    BY <2>2, <2>3 DEF MostRecentRunsAtFirst
<1>13. QED
  BY <1>2, <1>3, <1>9, <1>10, <1>11, <1>12 DEF ButtonsInv

LEMMA InvStep == ButtonsInv /\ [Next]_vars => ButtonsInv'
<1> SUFFICES ASSUME ButtonsInv, [Next]_vars PROVE ButtonsInv'
  OBVIOUS
<1>1. ASSUME NEW id \in Ids, NEW box \in Boxes, Register(id, box)
      PROVE  ButtonsInv'
  BY <1>1, RegisterStep
<1>2. ASSUME NEW id \in Ids, Change(id)
      PROVE  ButtonsInv'
  <2>1. UNCHANGED <<buttons, created, clicked, purged, proc>>
    BY <1>2 DEF Change
  <2>2. dead' \subseteq Ids
    BY <1>2 DEF Change, ButtonsInv, TypeOK
  <2>3. TypeOK'
    BY <2>1, <2>2 DEF ButtonsInv, TypeOK
  <2>4. QED
    BY <2>1, <2>3 DEF ButtonsInv, MostRecentRunsAtFirst, MostRecentRuns
<1>3. ASSUME NEW p \in Points, HandleClick(p)
      PROVE  ButtonsInv'
  BY <1>3, ClickStep
<1>4. CASE UNCHANGED vars
  BY <1>4 DEF vars, ButtonsInv, TypeOK, MostRecentRunsAtFirst, MostRecentRuns
<1>5. QED
  BY <1>1, <1>2, <1>3, <1>4 DEF Next

LEMMA InvHolds == Spec => []ButtonsInv
BY InvInit, InvStep, PTL DEF Spec

-----------------------------------------------------------------------------

\* The table never grows past registered_buttons.buttons, and what a click
\* runs is a button that was registered.
THEOREM TypeCorrect == Spec => []TypeOK
<1>1. ButtonsInv => TypeOK
  BY DEF ButtonsInv
<1>2. QED
  BY <1>1, InvHolds, PTL

\* button_register_button and the purge keep ids unique, and no button is in
\* the table twice, though a purge moves buttons about.
THEOREM IdsUnique == Spec => []IdsAreUnique
<1>1. ButtonsInv => IdsAreUnique
  BY DEF ButtonsInv, UniqueIn, IdsAreUnique
<1>2. QED
  BY <1>1, InvHolds, PTL

\* A click runs the most recent button under the pointer as long as none was
\* purged, and one under the pointer always.
THEOREM MostRecent == Spec => []MostRecentRunsAtFirst
<1>1. ButtonsInv => MostRecentRunsAtFirst
  BY DEF ButtonsInv
<1>2. QED
  BY <1>1, InvHolds, PTL

\* A frame removes the buttons whose destroy_when is true, and no other.
THEOREM PurgeExact == Spec => PurgeIsExact
<1>1. ASSUME ButtonsInv, [Next]_vars
      PROVE  [Len(buttons') < Len(buttons) \/ clicked' # clicked =>
                 IdsOf(buttons') = IdsOf(buttons) \ dead]_vars
  <2> SUFFICES ASSUME Len(buttons') < Len(buttons) \/ clicked' # clicked
               PROVE  IdsOf(buttons') = IdsOf(buttons) \ dead \/ UNCHANGED vars
    OBVIOUS
  <2>1. buttons \in Seq(Button) /\ Len(buttons) \in Nat
    BY <1>1 DEF ButtonsInv
  <2>2. ASSUME NEW id \in Ids, NEW box \in Boxes, Register(id, box)
        PROVE  FALSE
    <3>1. clicked' = clicked
      BY <2>2 DEF Register
    <3>2. Len(buttons') >= Len(buttons)
      <4>1. ButtonsInv'
        BY <1>1, <2>2, RegisterStep
      <4>2. CASE buttons' = [buttons EXCEPT ![Min(IndexOf(id))].box = box]
        BY <2>1, <4>2
      <4>3. CASE buttons' = Append(buttons, [id    |-> id,
                                             box   |-> box,
                                             birth |-> created + 1])
        BY <2>1, <4>3
      <4>4. CASE buttons' = buttons
        BY <2>1, <4>4
      <4>5. QED
        BY <2>2, <4>2, <4>3, <4>4 DEF Register
    <3>3. Len(buttons') \in Nat
      <4>1. ButtonsInv'
        BY <1>1, <2>2, RegisterStep
      <4>2. QED
        BY <4>1 DEF ButtonsInv
    <3>4. QED
      BY <2>1, <3>1, <3>2, <3>3
  <2>3. ASSUME NEW id \in Ids, Change(id)
        PROVE  FALSE
    BY <2>1, <2>3 DEF Change
  <2>4. ASSUME NEW p \in Points, HandleClick(p)
        PROVE  IdsOf(buttons') = IdsOf(buttons) \ dead
    <3>1. buttons' = PurgeDead(buttons)
      BY <2>4 DEF HandleClick
    <3>2. QED
      BY <2>1, <3>1, PurgeIds
  <2>5. QED
    BY <1>1, <2>2, <2>3, <2>4 DEF Next
<1>2. QED
  BY <1>1, InvHolds, PTL DEF Spec, PurgeIsExact

=============================================================================
