-------------------------- MODULE TestRunnerProofs --------------------------
(***************************************************************************)
(* What holds of the runner however many workers read the counter after    *)
(* they have unlocked it: none of them goes back, together they run no     *)
(* more functions than there are groups, what they ran is counted, and a   *)
(* group that was run once is judged by its cases, though the counts by    *)
(* which it is judged are shared and not locked.                           *)
(***************************************************************************)
EXTENDS TestRunner, FiniteSetTheorems, TLAPS

\* A worker's index is behind the counter, and behind the index that it will
\* read: its own fetch has counted since.
Behind ==
    \A w \in Workers :
        /\ idx[w] < next_group_idx \/ (next_group_idx = 0 /\ idx[w] = 0)
        /\ At(w, "read") => idx[w] + 1 < next_group_idx \/ next_group_idx = 1
        /\ pc[w] \in InGroup \cup {"run"} => idx[w] < NumGroups

Inv == TypeOK /\ Behind

\* What a worker does between the call of a group's function and the fetch of
\* the next, but for the end of the log.
Body(w) == NextCase(w) \/ Pass(w) \/ Fill(w) \/ StoreLen(w) \/ Log(w)

-----------------------------------------------------------------------------

\* Nothing was fetched, and no worker is at a step behind the fetch.
LEMMA Initially == Init => Inv
<1> SUFFICES ASSUME Init PROVE Inv
  OBVIOUS
<1>1. "fetch" \in Steps /\ "fetch" \notin InGroup \cup {"run"}
  BY DEF Steps, InGroup, CaseSteps
<1>2. TypeOK
  BY <1>1 DEF Init, TypeOK
<1>3. Behind
  BY <1>1 DEF Init, Behind, At
<1>4. QED
  BY <1>2, <1>3 DEF Inv

\* What the variables are.
LEMMA TypesAre ==
    ASSUME Inv
    PROVE  /\ next_group_idx \in Nat
           /\ pc \in [Workers -> Steps]
           /\ idx \in [Workers -> Nat] /\ made \in [Workers -> Nat]
           /\ reg \in [Workers -> Nat] /\ total \in [Workers -> Nat]
           /\ pass_count \in [Groups -> Nat] /\ cases_len \in [Groups -> Nat]
           /\ runs \in [Groups -> Nat] /\ reported \in [Groups -> Nat]
           /\ failed \in [Groups -> Nat]
           /\ joined \subseteq Workers /\ err_count \in Nat
           /\ damaged \in BOOLEAN
BY DEF Inv, TypeOK

\* The steps by name.
LEMMA StepsAre ==
    /\ InGroup = {"case", "pass", "append", "store", "log", "verdict"}
    /\ Steps = {"fetch", "read", "test", "run", "done"} \cup InGroup
BY DEF Steps, InGroup, CaseSteps

\* What a worker that changes nothing but its step leaves of the types.
LEMMA GotoKeeps ==
    ASSUME TypeOK, NEW w \in Workers, NEW step \in Steps, Goto(w, step)
    PROVE  /\ pc' \in [Workers -> Steps]
           /\ pc'[w] = step
           /\ \A v \in Workers : v # w => pc'[v] = pc[v]
BY DEF TypeOK, Goto

\* The increment under the mutex leaves every index behind.
LEMMA FetchKeeps ==
    ASSUME Inv, NEW w \in Workers, Fetch(w)
    PROVE  Inv'
<1>1. /\ next_group_idx' = next_group_idx + 1
      /\ UNCHANGED <<idx, made, reg, total, pass_count, cases_len, runs,
                     reported, failed, joined, err_count, damaged>>
      /\ "read" \in Steps /\ Goto(w, "read")
      /\ "read" \notin InGroup \cup {"run"}
  BY StepsAre DEF Fetch, groups, logs, main
<1>2. next_group_idx \in Nat /\ idx \in [Workers -> Nat]
  BY TypesAre
<1>3. /\ pc' \in [Workers -> Steps]
      /\ pc'[w] = "read"
      /\ \A v \in Workers : v # w => pc'[v] = pc[v]
  BY <1>1, GotoKeeps DEF Inv
<1>4. TypeOK'
  BY <1>1, <1>2, <1>3, TypesAre DEF TypeOK
<1>5. ASSUME NEW v \in Workers
      PROVE  /\ idx[v] + 1 < next_group_idx' \/ next_group_idx' = 1
             /\ idx[v] < next_group_idx'
  BY <1>1, <1>2 DEF Inv, Behind
<1>6. ASSUME NEW v \in Workers, pc'[v] \in InGroup \cup {"run"}
      PROVE  pc[v] \in InGroup \cup {"run"}
  BY <1>1, <1>3, <1>6
<1>7. Behind'
  BY <1>1, <1>5, <1>6 DEF Inv, Behind
<1>8. QED
  BY <1>4, <1>7 DEF Inv

\* The read after the unlock: the counter may have gone further, not back.
LEMMA ReadKeeps ==
    ASSUME Inv, NEW w \in Workers, Read(w)
    PROVE  /\ Inv'
           /\ idx'[w] > idx[w] \/ next_group_idx = 1
<1>1. /\ At(w, "read")
      /\ idx' = [idx EXCEPT ![w] = next_group_idx - 1]
      /\ UNCHANGED <<next_group_idx, made, reg, total, pass_count, cases_len,
                     runs, reported, failed, joined, err_count, damaged>>
      /\ "test" \in Steps /\ Goto(w, "test")
      /\ "test" \notin InGroup \cup {"run", "read"}
  BY StepsAre DEF Read, groups, logs, main
<1>2. /\ next_group_idx \in Nat
      /\ idx \in [Workers -> Nat] /\ idx[w] \in Nat
      /\ idx[w] + 1 < next_group_idx \/ next_group_idx = 1
  BY <1>1, TypesAre DEF Inv, Behind
<1>3. next_group_idx - 1 \in Nat
  BY <1>2
<1>4. /\ idx' \in [Workers -> Nat]
      /\ idx'[w] = next_group_idx - 1
      /\ \A v \in Workers : v # w => idx'[v] = idx[v]
  BY <1>1, <1>2, <1>3
<1>5. /\ pc' \in [Workers -> Steps]
      /\ pc'[w] = "test"
      /\ \A v \in Workers : v # w => pc'[v] = pc[v]
  BY <1>1, GotoKeeps DEF Inv
<1>6. TypeOK'
  BY <1>1, <1>4, <1>5, TypesAre DEF TypeOK
<1>7. ASSUME NEW v \in Workers
      PROVE  /\ idx'[v] < next_group_idx \/ (next_group_idx = 0 /\ idx'[v] = 0)
             /\ At(v, "read")' => idx'[v] + 1 < next_group_idx \/ next_group_idx = 1
             /\ pc'[v] \in InGroup \cup {"run"} => idx'[v] < NumGroups
  <2>1. CASE v = w
    BY <1>1, <1>2, <1>4, <1>5, <2>1 DEF At
  <2>2. CASE v # w
    BY <1>4, <1>5, <2>2 DEF Inv, Behind, At
  <2>3. QED
    BY <2>1, <2>2
<1>8. Behind'
  BY <1>1, <1>7 DEF Behind
<1>9. QED
  BY <1>2, <1>4, <1>6, <1>8 DEF Inv

\* A group that is run or logged is in the table.
LEMMA InTable ==
    ASSUME Inv, NEW w \in Workers, pc[w] \in InGroup \cup {"run"}
    PROVE  idx[w] \in Groups
<1>1. idx[w] \in Nat /\ idx[w] < NumGroups /\ NumGroups \in Nat
  BY TypesAre, RunnerAssumption DEF Inv, Behind
<1>2. QED
  BY <1>1 DEF Groups

\* Where a worker goes that is in a group.
LEMMA BodyIs ==
    ASSUME Inv, NEW w \in Workers, Body(w)
    PROVE  /\ pc[w] \in InGroup
           /\ \E step \in InGroup : Goto(w, step)
           /\ UNCHANGED <<next_group_idx, idx, runs, total, reported, failed,
                          joined, err_count, damaged>>
           /\ idx[w] \in Groups
           /\ made' \in [Workers -> Nat] /\ reg' \in [Workers -> Nat]
           /\ pass_count' \in [Groups -> Nat] /\ cases_len' \in [Groups -> Nat]
<1>1. pc[w] \in InGroup
  BY StepsAre DEF Body, NextCase, Pass, Fill, StoreLen, Log, At
<1>2. idx[w] \in Groups
  BY <1>1, InTable
<1>3. /\ made \in [Workers -> Nat] /\ reg \in [Workers -> Nat]
      /\ pass_count \in [Groups -> Nat] /\ cases_len \in [Groups -> Nat]
  BY TypesAre
<1>4. UNCHANGED <<next_group_idx, idx, runs, total, reported, failed,
                  joined, err_count, damaged>>
  BY DEF Body, NextCase, Pass, Fill, StoreLen, Log, groups, logs, main
<1>5. CASE NextCase(w)
  <2>1. \/ Goto(w, "pass") /\ reg' = [reg EXCEPT ![w] = pass_count[idx[w]]]
        \/ Goto(w, "append") /\ reg' = reg
        \/ Goto(w, "log") /\ reg' = reg
    BY <1>5 DEF NextCase
  <2>2. reg' \in [Workers -> Nat] /\ \E step \in InGroup : Goto(w, step)
    BY <1>2, <1>3, <2>1, StepsAre
  <2>3. made' = made /\ pass_count' = pass_count /\ cases_len' = cases_len
    BY <1>5 DEF NextCase, groups
  <2>4. QED
    BY <1>1, <1>2, <1>3, <1>4, <2>2, <2>3
<1>6. CASE Pass(w)
  <2>1. /\ Goto(w, "append") /\ made' = made /\ reg' = reg /\ cases_len' = cases_len
        /\ pass_count' = [pass_count EXCEPT ![idx[w]] = reg[w] + 1]
    BY <1>6 DEF Pass
  <2>2. QED
    BY <1>1, <1>2, <1>3, <1>4, <2>1, StepsAre
<1>7. CASE Fill(w)
  <2>1. /\ Goto(w, "store") /\ made' = made
        /\ pass_count' = pass_count /\ cases_len' = cases_len
        /\ reg' = [reg EXCEPT ![w] = cases_len[idx[w]]]
    BY <1>7 DEF Fill, groups
  <2>2. QED
    BY <1>1, <1>2, <1>3, <1>4, <2>1, StepsAre
<1>8. CASE StoreLen(w)
  <2>1. /\ Goto(w, "case") /\ reg' = reg /\ pass_count' = pass_count
        /\ made' = [made EXCEPT ![w] = made[w] + 1]
        /\ cases_len' = [cases_len EXCEPT ![idx[w]] = reg[w] + 1]
    BY <1>8 DEF StoreLen
  <2>2. QED
    BY <1>1, <1>2, <1>3, <1>4, <2>1, StepsAre
<1>9. CASE Log(w)
  <2>1. /\ Goto(w, "verdict") /\ made' = made
        /\ pass_count' = pass_count /\ cases_len' = cases_len
        /\ reg' = [reg EXCEPT ![w] = pass_count[idx[w]]]
    BY <1>9 DEF Log, groups
  <2>2. QED
    BY <1>1, <1>2, <1>3, <1>4, <2>1, StepsAre
<1>10. QED
  BY <1>5, <1>6, <1>7, <1>8, <1>9 DEF Body

\* The end of a log.
LEMMA VerdictIs ==
    ASSUME Inv, NEW w \in Workers, Verdict(w)
    PROVE  LET err == IF reg[w] # cases_len[idx[w]] THEN 1 ELSE 0
           IN  /\ At(w, "verdict") /\ Goto(w, "fetch")
               /\ idx[w] \in Groups
               /\ reported' = [reported EXCEPT ![idx[w]] = reported[idx[w]] + 1]
               /\ failed' = [failed EXCEPT ![idx[w]] = failed[idx[w]] + err]
               /\ total' = [total EXCEPT ![w] = total[w] + err]
               /\ UNCHANGED <<next_group_idx, idx, made, reg, runs, pass_count,
                              cases_len, joined, err_count, damaged>>
<1>1. pc[w] \in InGroup
  BY StepsAre DEF Verdict, At
<1>2. QED
  BY <1>1, InTable DEF Verdict, groups, main

\* These and the other steps that leave the counter and the indices alone.
LEMMA OthersKeep ==
    ASSUME Inv, NEW w \in Workers, Test(w) \/ Run(w) \/ Body(w) \/ Verdict(w)
    PROVE  Inv' /\ idx' = idx
<1>1. PICK step \in Steps \ {"read"} :
         /\ Goto(w, step)
         /\ step \in InGroup \cup {"run"} => idx[w] < NumGroups
  <2>1. idx[w] \in Nat /\ NumGroups \in Nat
    BY TypesAre, RunnerAssumption
  <2>2. CASE Test(w)
    <3>1. CASE idx[w] >= NumGroups
      <4>1. Goto(w, "done")
        BY <2>2, <3>1 DEF Test
      <4>2. QED
        BY <4>1, StepsAre
    <3>2. CASE ~(idx[w] >= NumGroups)
      <4>1. Goto(w, "run") /\ idx[w] < NumGroups
        BY <2>1, <2>2, <3>2 DEF Test
      <4>2. QED
        BY <4>1, StepsAre
    <3>3. QED
      BY <3>1, <3>2
  <2>3. CASE Run(w)
    <3>1. Goto(w, "case") /\ idx[w] < NumGroups
      BY <2>3 DEF Run, Inv, Behind, At
    <3>2. QED
      BY <3>1, StepsAre
  <2>4. CASE Body(w)
    <3>1. PICK step \in InGroup : Goto(w, step)
      BY <2>4, BodyIs
    <3>2. idx[w] < NumGroups
      BY <2>4, BodyIs DEF Inv, Behind
    <3>3. QED
      BY <3>1, <3>2, StepsAre
  <2>5. CASE Verdict(w)
    BY <2>5, StepsAre DEF Verdict
  <2>6. QED
    BY <2>2, <2>3, <2>4, <2>5
<1>2. UNCHANGED <<next_group_idx, idx, joined, err_count, damaged>>
  BY BodyIs, VerdictIs DEF Test, Run, main
<1>3. /\ made' \in [Workers -> Nat] /\ reg' \in [Workers -> Nat]
      /\ total' \in [Workers -> Nat]
      /\ pass_count' \in [Groups -> Nat] /\ cases_len' \in [Groups -> Nat]
      /\ runs' \in [Groups -> Nat] /\ reported' \in [Groups -> Nat]
      /\ failed' \in [Groups -> Nat]
  <2>1. CASE Test(w)
    BY <2>1, TypesAre DEF Test, groups, logs
  <2>2. CASE Run(w)
    <3>1. idx[w] \in Groups
      BY <2>2, InTable DEF Run, At
    <3>2. UNCHANGED <<reg, total, pass_count, cases_len, reported, failed>>
      BY <2>2 DEF Run, groups, logs
    <3>3. /\ runs' = [runs EXCEPT ![idx[w]] = runs[idx[w]] + 1]
          /\ made' = [made EXCEPT ![w] = 0]
      BY <2>2 DEF Run
    <3>4. runs' \in [Groups -> Nat] /\ made' \in [Workers -> Nat]
      BY <3>1, <3>3, TypesAre
    <3>5. QED
      BY <3>2, <3>4, TypesAre
  <2>3. CASE Body(w)
    BY <2>3, BodyIs, TypesAre
  <2>4. CASE Verdict(w)
    <3> DEFINE err == IF reg[w] # cases_len[idx[w]] THEN 1 ELSE 0
    <3>1. err \in Nat
      OBVIOUS
    <3>2. /\ idx[w] \in Groups
          /\ reported' = [reported EXCEPT ![idx[w]] = reported[idx[w]] + 1]
          /\ failed' = [failed EXCEPT ![idx[w]] = failed[idx[w]] + err]
          /\ total' = [total EXCEPT ![w] = total[w] + err]
          /\ UNCHANGED <<made, reg, runs, pass_count, cases_len>>
      BY <2>4, VerdictIs
    <3> HIDE DEF err
    <3>3. /\ reported' \in [Groups -> Nat] /\ failed' \in [Groups -> Nat]
          /\ total' \in [Workers -> Nat]
      BY <3>1, <3>2, TypesAre
    <3>4. QED
      BY <3>2, <3>3, TypesAre
  <2>5. QED
    BY <2>1, <2>2, <2>3, <2>4
<1>4. /\ pc' \in [Workers -> Steps]
      /\ pc'[w] = step
      /\ \A v \in Workers : v # w => pc'[v] = pc[v]
  BY <1>1, GotoKeeps DEF Inv
<1>5. TypeOK'
  BY <1>2, <1>3, <1>4, TypesAre DEF TypeOK
<1>6. Behind'
  BY <1>1, <1>2, <1>4 DEF Inv, Behind, At
<1>7. QED
  BY <1>2, <1>5, <1>6 DEF Inv

\* The main thread joins; the workers are where they were.
LEMMA JoinKeeps ==
    ASSUME Inv, NEW w \in Workers, Join(w)
    PROVE  Inv' /\ idx' = idx
<1>1. err_count + total[w] \in Nat
  BY TypesAre
<1>2. TypeOK'
  BY <1>1, TypesAre DEF Join, TypeOK, groups, logs
<1>3. Behind' /\ idx' = idx
  BY DEF Join, Inv, Behind, At
<1>4. QED
  BY <1>2, <1>3 DEF Inv

\* As they are when the heap is damaged.
LEMMA DamageKeeps ==
    ASSUME Inv, Damage
    PROVE  Inv' /\ idx' = idx /\ pc' = pc
<1>1. TypeOK'
  BY TypesAre DEF Damage, TypeOK, groups, logs, main
<1>2. Behind' /\ idx' = idx /\ pc' = pc
  BY DEF Damage, Inv, Behind, At
<1>3. QED
  BY <1>1, <1>2 DEF Inv

\* The kinds of steps that the next proofs go through.
LEMMA StepsBy ==
    ASSUME Next
    PROVE  \/ \E w \in Workers : \/ Fetch(w) \/ Read(w) \/ Test(w) \/ Run(w)
                                 \/ Body(w) \/ Verdict(w) \/ Join(w)
           \/ Damage
BY DEF Next, Worker, Main, Body

\* Every step keeps the invariant, and a step that ends a read goes forward.
LEMMA StepsKeep ==
    ASSUME Inv, [Next]_vars
    PROVE  /\ Inv'
           /\ \A w \in Workers : At(w, "read") /\ ~At(w, "read")'
                 => idx'[w] > idx[w] \/ next_group_idx = 1
<1>1. CASE UNCHANGED vars
  BY <1>1 DEF vars, groups, logs, main, Inv, TypeOK, Behind, At
<1>2. CASE Damage
  BY <1>2, DamageKeeps DEF At
<1>3. CASE Next /\ ~Damage
  <2>1. PICK w \in Workers : \/ Fetch(w) \/ Read(w) \/ Test(w) \/ Run(w)
                             \/ Body(w) \/ Verdict(w) \/ Join(w)
    BY <1>3, StepsBy
  <2>2. Inv'
    BY <2>1, FetchKeeps, ReadKeeps, OthersKeep, JoinKeeps
  <2>3. ASSUME NEW v \in Workers, At(v, "read"), ~At(v, "read")'
        PROVE  v = w /\ Read(w)
    <3>1. pc'[v] # pc[v]
      BY <2>3 DEF At
    <3>2. ~Join(w)
      BY <3>1 DEF Join
    <3>3. PICK step : Goto(w, step)
      BY <2>1, <3>2, BodyIs DEF Fetch, Read, Test, Run, Verdict
    <3>4. v = w
      BY <3>1, <3>3, TypesAre DEF Goto
    <3>5. ~Body(w)
      BY <2>3, <3>4, BodyIs, StepsAre DEF At
    <3>6. QED
      BY <2>1, <2>3, <3>2, <3>4, <3>5 DEF Fetch, Test, Run, Verdict, At
  <2>4. QED
    BY <2>2, <2>3, ReadKeeps
<1>4. QED
  BY <1>1, <1>2, <1>3

\* The invariant is inductive.
LEMMA AlwaysInv == Spec => []Inv
<1>1. QED
  BY Initially, StepsKeep, PTL DEF Spec

(* Every variable keeps its type: no read of the counter gives an index    *)
(* below 0, and no group is run or logged that is not in the table.        *)
THEOREM TypeCorrect == Spec => []TypeOK
<1>1. Inv => TypeOK
  BY DEF Inv
<1>2. QED
  BY <1>1, AlwaysInv, PTL

(* For any number of cores and groups, and whatever the others do between  *)
(* its unlock and its read, a worker never gets an index again, nor one    *)
(* before it.                                                              *)
THEOREM GoForward == Spec => WorkersGoForward
<1>1. Inv /\ [Next]_vars =>
         [\A w \in Workers : At(w, "read") /\ ~At(w, "read")'
              => idx'[w] > idx[w] \/ next_group_idx = 1]_vars
  BY StepsKeep
<1>2. QED
  BY <1>1, AlwaysInv, PTL DEF Spec, WorkersGoForward

-----------------------------------------------------------------------------
(* Sums *)

\* The pairs that Sum counts.
Pairs(f, S) == UNION {{s} \X (1..f[s]) : s \in S}

\* What is a pair.
LEMMA PairIs ==
    ASSUME NEW f, NEW S, NEW p
    PROVE  p \in Pairs(f, S) <=> \E s \in S : \E k \in 1..f[s] : p = <<s, k>>
BY DEF Pairs

\* The sum over nothing, and the sum of nothing.
LEMMA SumOfNone ==
    ASSUME NEW f, NEW S, \A s \in S : f[s] = 0
    PROVE  Pairs(f, S) = {} /\ IsFiniteSet(Pairs(f, S)) /\ Sum(f, S) = 0
<1>1. \A p : p \notin Pairs(f, S)
  BY PairIs
<1>2. Pairs(f, S) = {}
  BY <1>1
<1>3. QED
  BY <1>2, FS_EmptySet DEF Sum, Pairs

\* A value that is one more makes the sum one more.
LEMMA SumOfOneMore ==
    ASSUME NEW S, NEW T, S \subseteq T, NEW f \in [T -> Nat], NEW x \in S,
           IsFiniteSet(Pairs(f, S))
    PROVE  LET g == [f EXCEPT ![x] = f[x] + 1]
           IN  IsFiniteSet(Pairs(g, S)) /\ Sum(g, S) = Sum(f, S) + 1
<1> DEFINE g == [f EXCEPT ![x] = f[x] + 1]
           new == <<x, f[x] + 1>>
<1>1. /\ g[x] = f[x] + 1
      /\ \A s \in S : s # x => g[s] = f[s]
      /\ f[x] \in Nat
  OBVIOUS
<1> HIDE DEF g
<1>2. 1..g[x] = (1..f[x]) \cup {f[x] + 1} /\ f[x] + 1 \notin 1..f[x]
  BY <1>1
<1>3. \A p : p \in Pairs(g, S) <=> p \in Pairs(f, S) \cup {new}
  <2>1. ASSUME NEW p, p \in Pairs(g, S)
        PROVE  p \in Pairs(f, S) \cup {new}
    <3>0. PICK s \in S : \E k \in 1..g[s] : p = <<s, k>>
      BY <2>1, PairIs
    <3>1. PICK k \in 1..g[s] : p = <<s, k>>
      BY <3>0
    <3>2. k \in 1..f[s] \/ (s = x /\ k = f[x] + 1)
      BY <1>1, <1>2, <3>1
    <3>3. QED
      BY <3>1, <3>2, PairIs
  <2>2. ASSUME NEW p, p \in Pairs(f, S)
        PROVE  p \in Pairs(g, S)
    <3>0. PICK s \in S : \E k \in 1..f[s] : p = <<s, k>>
      BY <2>2, PairIs
    <3>1. PICK k \in 1..f[s] : p = <<s, k>>
      BY <3>0
    <3>2. k \in 1..g[s]
      BY <1>1, <1>2, <3>1
    <3>3. QED
      BY <3>1, <3>2, PairIs
  <2>3. new \in Pairs(g, S)
    BY <1>2, PairIs
  <2>4. QED
    BY <2>1, <2>2, <2>3
<1>4. new \notin Pairs(f, S)
  <2>1. SUFFICES ASSUME NEW s \in S, NEW k \in 1..f[s], new = <<s, k>>
                 PROVE  FALSE
    BY PairIs
  <2>2. s = x /\ k = f[x] + 1
    BY <2>1
  <2>3. QED
    BY <1>2, <2>2
<1>5. Pairs(g, S) = Pairs(f, S) \cup {new}
  BY <1>3
<1>6. /\ IsFiniteSet(Pairs(f, S) \cup {new})
      /\ Cardinality(Pairs(f, S) \cup {new}) = Cardinality(Pairs(f, S)) + 1
  BY <1>4, FS_AddElement
<1>7. IsFiniteSet(Pairs(g, S)) /\ Sum(g, S) = Sum(f, S) + 1
  <2>1. Sum(g, S) = Cardinality(Pairs(g, S)) /\ Sum(f, S) = Cardinality(Pairs(f, S))
    BY DEF Sum, Pairs
  <2>2. QED
    BY <1>5, <1>6, <2>1
<1>8. QED
  BY <1>7 DEF g

\* A sum depends on the values it sums.
LEMMA SumOfSame ==
    ASSUME NEW S, NEW f, NEW g, \A s \in S : g[s] = f[s]
    PROVE  Pairs(g, S) = Pairs(f, S) /\ Sum(g, S) = Sum(f, S)
<1>1. \A p : p \in Pairs(g, S) <=> p \in Pairs(f, S)
  BY PairIs
<1>2. QED
  BY <1>1 DEF Sum, Pairs

\* What one element has in a sum.
LEMMA SumWithout ==
    ASSUME NEW S, NEW x \in S, NEW f, f[x] \in Nat, IsFiniteSet(Pairs(f, S))
    PROVE  /\ IsFiniteSet(Pairs(f, S \ {x}))
           /\ Sum(f, S) = f[x] + Sum(f, S \ {x})
           /\ Sum(f, S \ {x}) \in Nat
<1> DEFINE own == {x} \X (1..f[x])
           rest == Pairs(f, S \ {x})
<1>1. \A p : p \in Pairs(f, S) <=> p \in own \cup rest
  BY PairIs
<1>2. Pairs(f, S) = own \cup rest
  BY <1>1
<1>3. own \cap rest = {}
  BY PairIs
<1>4. IsFiniteSet(own) /\ Cardinality(own) = f[x]
  <2>1. IsFiniteSet({x}) /\ Cardinality({x}) = 1
    BY FS_Singleton
  <2>2. IsFiniteSet(1..f[x]) /\ Cardinality(1..f[x]) = f[x]
    BY FS_Interval
  <2>3. IsFiniteSet(own) /\ Cardinality(own) = 1 * f[x]
    BY <2>1, <2>2, FS_Product
  <2>4. QED
    BY <2>3
<1>5. IsFiniteSet(rest)
  BY <1>2, FS_Subset
<1> HIDE DEF own, rest
<1>6. /\ Cardinality(own \cup rest)
            = Cardinality(own) + Cardinality(rest) - Cardinality(own \cap rest)
      /\ Cardinality(own \cap rest) = 0
      /\ Cardinality(rest) \in Nat
  BY <1>3, <1>4, <1>5, FS_Union, FS_EmptySet, FS_CardinalityType
<1>7. Sum(f, S) = Cardinality(own \cup rest) /\ Sum(f, S \ {x}) = Cardinality(rest)
  BY <1>2 DEF Sum, Pairs, rest
<1>8. QED
  BY <1>4, <1>5, <1>6, <1>7 DEF rest

-----------------------------------------------------------------------------
(* How often the workers run a group *)

\* The workers that will run the group they have, and those that will run one
\* if the counter stays as it is.
Owing == {w \in Workers : At(w, "run") \/ (At(w, "test") /\ idx[w] < NumGroups)}
Reading == {w \in Workers : At(w, "read")}

\* Every run, done or to come, has an increment of its own, and one of the
\* first NumGroups.
RunInv ==
    /\ IsFiniteSet(Pairs(runs, Groups))
    /\ Sum(runs, Groups) + Cardinality(Owing) <= NumGroups
    /\ next_group_idx <= NumGroups =>
          Sum(runs, Groups) + Cardinality(Owing) + Cardinality(Reading)
             <= next_group_idx

\* There are finitely many workers.
LEMMA WorkersAreFinite ==
    ASSUME NEW S \in SUBSET Workers
    PROVE  IsFiniteSet(S) /\ Cardinality(S) \in Nat
<1>1. IsFiniteSet(Workers)
  BY RunnerAssumption, FS_Interval DEF Workers
<1>2. QED
  BY <1>1, FS_Subset, FS_CardinalityType

\* A worker that joins a set of workers, and one that leaves it.
LEMMA OneWorkerMore ==
    ASSUME NEW S \in SUBSET Workers, NEW w \in Workers
    PROVE  /\ w \notin S => Cardinality(S \cup {w}) = Cardinality(S) + 1
           /\ w \in S => Cardinality(S \ {w}) = Cardinality(S) - 1
           /\ w \in S => Cardinality(S) >= 1
<1>1. IsFiniteSet(S) /\ Cardinality(S) \in Nat
  BY WorkersAreFinite
<1>2. /\ w \notin S => Cardinality(S \cup {w}) = Cardinality(S) + 1
      /\ w \in S => Cardinality(S \ {w}) = Cardinality(S) - 1
  BY <1>1, FS_AddElement, FS_RemoveElement
<1>3. w \in S => Cardinality(S) # 0
  BY <1>1, FS_EmptySet
<1>4. QED
  BY <1>1, <1>2, <1>3

\* The numbers that the invariant relates.
LEMMA NumbersAre ==
    ASSUME Inv, IsFiniteSet(Pairs(runs, Groups))
    PROVE  /\ next_group_idx \in Nat /\ NumGroups \in Nat
           /\ Sum(runs, Groups) \in Nat
           /\ Owing \in SUBSET Workers /\ Cardinality(Owing) \in Nat
           /\ Reading \in SUBSET Workers /\ Cardinality(Reading) \in Nat
<1>1. Owing \in SUBSET Workers /\ Reading \in SUBSET Workers
  BY DEF Owing, Reading
<1>2. Sum(runs, Groups) \in Nat
  BY FS_CardinalityType DEF Sum, Pairs
<1>3. QED
  BY <1>1, <1>2, WorkersAreFinite, TypesAre, RunnerAssumption

\* Nothing was run.
LEMMA InitiallyRuns == Init => RunInv
<1> SUFFICES ASSUME Init PROVE RunInv
  OBVIOUS
<1>1. IsFiniteSet(Pairs(runs, Groups)) /\ Sum(runs, Groups) = 0
  BY SumOfNone DEF Init
<1>2. Owing = {} /\ Reading = {}
  BY DEF Init, Owing, Reading, At
<1>3. Cardinality({}) = 0 /\ NumGroups \in Nat /\ next_group_idx = 0
  BY FS_EmptySet, RunnerAssumption DEF Init
<1>4. QED
  BY <1>1, <1>2, <1>3 DEF RunInv

\* A worker at a step has the step in its pc alone.
LEMMA WhoMoves ==
    ASSUME Inv, NEW w \in Workers, NEW step \in Steps, Goto(w, step)
    PROVE  \A v \in Workers, s \in Steps :
              At(v, s)' <=> IF v = w THEN s = step ELSE At(v, s)
BY GotoKeeps DEF At, Inv

\* Every step keeps it: the increment is counted when the worker is at the
\* read, and handed on from set to set until the group is run.
LEMMA RunsKeep ==
    ASSUME Inv, RunInv, [Next]_vars
    PROVE  RunInv'
<1> DEFINE N == NumGroups
           next == next_group_idx
           sum == Sum(runs, Groups)
           owing == Cardinality(Owing)
           reading == Cardinality(Reading)
<1>1. /\ next \in Nat /\ N \in Nat /\ sum \in Nat
      /\ owing \in Nat /\ reading \in Nat
      /\ Owing \in SUBSET Workers /\ Reading \in SUBSET Workers
      /\ IsFiniteSet(Pairs(runs, Groups))
      /\ sum + owing <= N
      /\ next <= N => sum + owing + reading <= next
  BY NumbersAre DEF RunInv
<1>2. /\ idx \in [Workers -> Nat]
      /\ InGroup \subseteq Steps /\ {"read", "test", "run"} \cap InGroup = {}
      /\ {"fetch", "read", "test", "run", "case", "done"} \subseteq Steps
  BY TypesAre, StepsAre
<1>3. CASE UNCHANGED vars \/ Damage
  BY <1>3, DamageKeeps DEF vars, Damage, RunInv, Owing, Reading, At, Pairs, Sum
<1>4. ASSUME NEW w \in Workers, Fetch(w)
      PROVE  RunInv'
  <2>1. /\ At(w, "fetch") /\ Goto(w, "read") /\ next' = next + 1
        /\ idx' = idx /\ runs' = runs
    BY <1>4 DEF Fetch
  <2>2. \A v \in Workers, s \in Steps :
           At(v, s)' <=> IF v = w THEN s = "read" ELSE At(v, s)
    BY <1>2, <2>1, WhoMoves
  <2>3. Owing' = Owing
    BY <1>2, <2>1, <2>2 DEF Owing, At
  <2>4. Reading' = Reading \cup {w} /\ w \notin Reading
    BY <1>2, <2>1, <2>2 DEF Reading, At
  <2>5. Cardinality(Reading') = reading + 1
    BY <1>1, <2>4, OneWorkerMore
  <2>6. QED
    BY <1>1, <2>1, <2>3, <2>5 DEF RunInv, Sum, Pairs
<1>5. ASSUME NEW w \in Workers, Read(w)
      PROVE  RunInv'
  <2>1. /\ At(w, "read") /\ Goto(w, "test") /\ next' = next
        /\ idx' = [idx EXCEPT ![w] = next - 1] /\ runs' = runs
    BY <1>5 DEF Read
  <2>2. \A v \in Workers, s \in Steps :
           At(v, s)' <=> IF v = w THEN s = "test" ELSE At(v, s)
    BY <1>2, <2>1, WhoMoves
  <2>3. idx'[w] = next - 1 /\ \A v \in Workers : v # w => idx'[v] = idx[v]
    BY <1>2, <2>1
  <2>4. Reading' = Reading \ {w} /\ w \in Reading /\ w \notin Owing
    BY <1>2, <2>1, <2>2 DEF Reading, Owing, At
  <2>5. Cardinality(Reading') = reading - 1 /\ reading >= 1
    BY <1>1, <2>4, OneWorkerMore
  <2>6. CASE next <= N
    <3>1. Owing' = Owing \cup {w}
      BY <1>1, <1>2, <2>2, <2>3, <2>6 DEF Owing
    <3>2. Cardinality(Owing') = owing + 1
      BY <1>1, <2>4, <3>1, OneWorkerMore
    <3>3. QED
      BY <1>1, <2>1, <2>5, <2>6, <3>2 DEF RunInv, Sum, Pairs
  <2>7. CASE ~(next <= N)
    <3>1. Owing' = Owing
      BY <1>1, <1>2, <2>2, <2>3, <2>4, <2>7 DEF Owing
    <3>2. QED
      BY <1>1, <2>1, <2>7, <3>1 DEF RunInv, Sum, Pairs
  <2>8. QED
    BY <2>6, <2>7
<1>6. ASSUME NEW w \in Workers, Test(w) \/ Body(w) \/ Verdict(w)
      PROVE  RunInv'
  <2>1. PICK step \in Steps :
           /\ Goto(w, step)
           /\ step # "read" /\ step # "test"
           /\ step = "run" <=> w \in Owing
           /\ w \notin Reading
    <3>1. CASE Test(w)
      <4>1. /\ Goto(w, IF idx[w] >= N THEN "done" ELSE "run")
            /\ At(w, "test") /\ w \notin Reading
            /\ idx[w] \in Nat
        BY <1>2, <3>1 DEF Test, Reading, At
      <4>2. w \in Owing <=> ~(idx[w] >= N)
        BY <1>1, <4>1 DEF Owing, At
      <4>3. CASE idx[w] >= N
        <5>1. Goto(w, "done")
          BY <4>1, <4>3
        <5>2. QED
          BY <1>2, <4>1, <4>2, <4>3, <5>1
      <4>4. CASE ~(idx[w] >= N)
        <5>1. Goto(w, "run")
          BY <4>1, <4>4
        <5>2. QED
          BY <1>2, <4>1, <4>2, <4>4, <5>1
      <4>5. QED
        BY <4>3, <4>4
    <3>2. CASE Body(w)
      <4>1. pc[w] \in InGroup /\ \E step \in InGroup : Goto(w, step)
        BY <3>2, BodyIs
      <4>2. w \notin Owing /\ w \notin Reading
        BY <1>2, <4>1 DEF Owing, Reading, At
      <4>3. QED
        BY <1>2, <4>1, <4>2
    <3>3. CASE Verdict(w)
      BY <1>2, <3>3 DEF Verdict, Owing, Reading, At
    <3>4. QED
      BY <1>6, <3>1, <3>2, <3>3
  <2>2. UNCHANGED <<next_group_idx, idx, runs>>
    BY <1>6, BodyIs, VerdictIs DEF Test
  <2>3. \A v \in Workers, s \in Steps :
           At(v, s)' <=> IF v = w THEN s = step ELSE At(v, s)
    BY <1>2, <2>1, WhoMoves
  <2>4. Owing' = Owing /\ Reading' = Reading
    BY <1>2, <2>1, <2>2, <2>3 DEF Owing, Reading
  <2>5. QED
    BY <1>1, <2>2, <2>4 DEF RunInv, Sum, Pairs
<1>7. ASSUME NEW w \in Workers, Run(w)
      PROVE  RunInv'
  <2>1. /\ At(w, "run") /\ Goto(w, "case") /\ next' = next
        /\ idx' = idx /\ runs' = [runs EXCEPT ![idx[w]] = runs[idx[w]] + 1]
    BY <1>7 DEF Run
  <2>2. idx[w] \in Groups /\ runs \in [Groups -> Nat]
    BY <2>1, InTable, TypesAre DEF At
  <2>3. IsFiniteSet(Pairs(runs', Groups)) /\ Sum(runs', Groups) = sum + 1
    BY <1>1, <2>1, <2>2, SumOfOneMore
  <2>4. \A v \in Workers, s \in Steps :
           At(v, s)' <=> IF v = w THEN s = "case" ELSE At(v, s)
    BY <1>2, <2>1, WhoMoves
  <2>5. Owing' = Owing \ {w} /\ w \in Owing /\ Reading' = Reading
    BY <1>2, <2>1, <2>4 DEF Owing, Reading, At
  <2>6. Cardinality(Owing') = owing - 1
    BY <1>1, <2>5, OneWorkerMore
  <2>7. IsFiniteSet(Pairs(runs, Groups))' /\ Sum(runs, Groups)' = sum + 1
    BY <2>3 DEF Pairs, Sum, Groups
  <2>8. QED
    BY <1>1, <2>1, <2>5, <2>6, <2>7 DEF RunInv
<1>8. ASSUME NEW w \in Workers, Join(w)
      PROVE  RunInv'
  BY <1>8 DEF Join, RunInv, Owing, Reading, At, Pairs, Sum
<1>9. QED
  BY <1>3, <1>4, <1>5, <1>6, <1>7, <1>8, StepsBy

(* However the increments and the reads of the workers interleave, a group *)
(* that is run twice takes the place of another: the runner never calls    *)
(* more functions than there are groups.                                   *)
THEOREM NoMoreRuns == Spec => []NoMoreRunsThanGroups
<1>1. Inv /\ RunInv => NoMoreRunsThanGroups
  BY NumbersAre DEF RunInv, NoMoreRunsThanGroups
<1>2. Inv /\ RunInv /\ [Next]_vars => RunInv'
  BY RunsKeep
<1>3. QED
  BY <1>1, <1>2, InitiallyRuns, AlwaysInv, PTL DEF Spec

-----------------------------------------------------------------------------
(* What the main thread counts *)

\* The workers that have called g's function and not finished its log.
Active(g) == {w \in Workers : pc[w] \in InGroup /\ idx[w] = g}

\* Each run is logged or still to be, and each log that says FAILED is in the
\* sum of the main thread or in the total of a worker still to be joined.  In
\* a damaged heap some group was run twice.
CountInv ==
    /\ \A g \in Groups : runs[g] = reported[g] + Cardinality(Active(g))
    /\ joined \subseteq {w \in Workers : At(w, "done")}
    /\ IsFiniteSet(Pairs(total, Workers \ joined))
    /\ IsFiniteSet(Pairs(failed, Groups))
    /\ err_count + Sum(total, Workers \ joined) = Sum(failed, Groups)
    /\ damaged => \E g \in Groups : runs[g] > 1

\* Nothing was run, logged or counted.
LEMMA InitiallyCounted == Init => CountInv
<1> SUFFICES ASSUME Init PROVE CountInv
  OBVIOUS
<1>1. "fetch" \notin InGroup
  BY StepsAre
<1>2. \A g \in Groups : Active(g) = {} /\ runs[g] = 0 /\ reported[g] = 0
  BY <1>1 DEF Init, Active
<1>3. IsFiniteSet(Pairs(total, Workers \ joined)) /\ Sum(total, Workers \ joined) = 0
  BY SumOfNone DEF Init
<1>4. IsFiniteSet(Pairs(failed, Groups)) /\ Sum(failed, Groups) = 0
  BY SumOfNone DEF Init
<1>5. joined = {} /\ err_count = 0 /\ damaged = FALSE /\ Cardinality({}) = 0
  BY FS_EmptySet DEF Init
<1>6. QED
  BY <1>2, <1>3, <1>4, <1>5 DEF CountInv

\* The numbers that the invariant relates.
LEMMA CountsAre ==
    ASSUME Inv, CountInv
    PROVE  /\ Sum(total, Workers \ joined) \in Nat
           /\ Sum(failed, Groups) \in Nat
           /\ err_count \in Nat
           /\ \A g \in Groups : /\ Active(g) \in SUBSET Workers
                                /\ Cardinality(Active(g)) \in Nat
                                /\ runs[g] \in Nat /\ reported[g] \in Nat
<1>1. /\ Sum(total, Workers \ joined) \in Nat
      /\ Sum(failed, Groups) \in Nat
  BY FS_CardinalityType DEF CountInv, Sum, Pairs
<1>2. \A g \in Groups : Active(g) \in SUBSET Workers
  BY DEF Active
<1>3. QED
  BY <1>1, <1>2, WorkersAreFinite, TypesAre

\* A worker in a group that was called once is alone in it, and its log is
\* still to be written.
LEMMA AloneInGroup ==
    ASSUME Inv, CountInv, NEW g \in Groups, NEW w \in Active(g), NEW v \in Active(g)
    PROVE  /\ runs[g] >= 1
           /\ v # w => runs[g] > 1
           /\ runs[g] = 1 => reported[g] = 0
<1>1. /\ Active(g) \in SUBSET Workers /\ w \in Workers
      /\ Cardinality(Active(g)) \in Nat
      /\ runs[g] \in Nat /\ reported[g] \in Nat
      /\ runs[g] = reported[g] + Cardinality(Active(g))
  BY CountsAre DEF CountInv
<1>2. Cardinality(Active(g)) >= 1
  BY <1>1, OneWorkerMore
<1>3. v # w => Cardinality(Active(g)) >= 2
  <2>1. SUFFICES ASSUME v # w PROVE Cardinality(Active(g)) >= 2
    OBVIOUS
  <2>2. Cardinality(Active(g) \ {w}) = Cardinality(Active(g)) - 1
    BY <1>1, OneWorkerMore
  <2>3. Cardinality(Active(g) \ {w}) >= 1
    <3>1. Active(g) \ {w} \in SUBSET Workers /\ v \in Active(g) \ {w} /\ v \in Workers
      BY <1>1, <2>1
    <3>2. QED
      BY <3>1, OneWorkerMore
  <2>4. QED
    BY <1>1, <2>2, <2>3
<1>4. QED
  BY <1>1, <1>2, <1>3

\* A step of a worker by which none begins or ends to owe a log.
LEMMA QuietStep ==
    ASSUME Inv, CountInv, NEW w \in Workers, NEW step \in Steps, Goto(w, step),
           pc[w] \in InGroup <=> step \in InGroup, ~At(w, "done"),
           \A v \in Workers : pc[v] \in InGroup => idx'[v] = idx[v],
           UNCHANGED <<total, runs, reported, failed, joined, err_count, damaged>>
    PROVE  CountInv'
<1>1. /\ pc'[w] = step
      /\ \A v \in Workers : v # w => pc'[v] = pc[v]
  BY GotoKeeps DEF Inv
<1>2. \A g : Active(g)' = Active(g)
  BY <1>1 DEF Active
<1>3. joined \subseteq {v \in Workers : At(v, "done")}'
  BY <1>1 DEF CountInv, At
<1>4. QED
  BY <1>2, <1>3 DEF CountInv, Sum, Pairs

\* A group is called: its worker owes a log.
LEMMA RunCounts ==
    ASSUME Inv, CountInv, NEW w \in Workers, Run(w)
    PROVE  CountInv'
<1>1. /\ At(w, "run") /\ Goto(w, "case") /\ idx' = idx
      /\ runs' = [runs EXCEPT ![idx[w]] = runs[idx[w]] + 1]
      /\ UNCHANGED <<total, reported, failed, joined, err_count, damaged>>
      /\ idx[w] \in Groups
  BY InTable DEF Run, At, logs, main
<1>2. /\ runs \in [Groups -> Nat] /\ reported \in [Groups -> Nat]
      /\ {"case", "run", "done"} \subseteq Steps
      /\ "case" \in InGroup /\ "run" \notin InGroup
  BY TypesAre, StepsAre
<1>3. /\ pc'[w] = "case"
      /\ \A v \in Workers : v # w => pc'[v] = pc[v]
  BY <1>1, <1>2, GotoKeeps DEF Inv
<1>4. ASSUME NEW g \in Groups
      PROVE  runs'[g] = reported[g] + Cardinality(Active(g)')
  <2>1. /\ Active(g) \in SUBSET Workers
        /\ Cardinality(Active(g)) \in Nat
        /\ runs[g] = reported[g] + Cardinality(Active(g))
    BY CountsAre DEF CountInv
  <2>2. CASE g = idx[w]
    <3>1. Active(g)' = Active(g) \cup {w} /\ w \notin Active(g)
      BY <1>1, <1>2, <1>3, <2>2 DEF Active, At
    <3>2. Cardinality(Active(g)') = Cardinality(Active(g)) + 1
      BY <2>1, <3>1, OneWorkerMore
    <3>3. runs'[g] = runs[g] + 1
      BY <1>1, <1>2, <2>2
    <3>4. QED
      BY <1>2, <2>1, <3>2, <3>3
  <2>3. CASE g # idx[w]
    <3>1. Active(g)' = Active(g)
      BY <1>1, <1>2, <1>3, <2>3 DEF Active, At
    <3>2. runs'[g] = runs[g]
      BY <1>1, <1>2, <2>3
    <3>3. QED
      BY <2>1, <3>1, <3>2
  <2>4. QED
    BY <2>2, <2>3
<1>5. joined \subseteq {v \in Workers : At(v, "done")}'
  BY <1>1, <1>2, <1>3 DEF CountInv, At
<1>6. damaged => \E g \in Groups : runs'[g] > 1
  <2>1. \A g \in Groups : runs[g] > 1 => runs'[g] > 1
    BY <1>1, <1>2
  <2>2. QED
    BY <2>1 DEF CountInv
<1>7. QED
  BY <1>1, <1>4, <1>5, <1>6 DEF CountInv, Sum, Pairs

\* A group is logged: what the log says is counted by its worker, which is
\* not joined before it is done.
LEMMA LogCounts ==
    ASSUME Inv, CountInv, NEW w \in Workers, Verdict(w)
    PROVE  CountInv'
<1> DEFINE out == Workers \ joined
           err == IF reg[w] # cases_len[idx[w]] THEN 1 ELSE 0
<1>1. /\ At(w, "verdict") /\ Goto(w, "fetch") /\ idx' = idx
      /\ reported' = [reported EXCEPT ![idx[w]] = reported[idx[w]] + 1]
      /\ failed' = [failed EXCEPT ![idx[w]] = failed[idx[w]] + err]
      /\ total' = [total EXCEPT ![w] = total[w] + err]
      /\ UNCHANGED <<runs, joined, err_count, damaged>>
      /\ idx[w] \in Groups
      /\ err = 0 \/ err = 1
  BY VerdictIs
<1> HIDE DEF err
<1>2. /\ reported \in [Groups -> Nat] /\ total \in [Workers -> Nat]
      /\ failed \in [Groups -> Nat]
      /\ {"verdict", "fetch", "done"} \subseteq Steps
      /\ "verdict" \in InGroup /\ "fetch" \notin InGroup
  BY TypesAre, StepsAre
<1>3. /\ pc'[w] = "fetch"
      /\ \A v \in Workers : v # w => pc'[v] = pc[v]
  BY <1>1, <1>2, GotoKeeps DEF Inv
<1>4. ASSUME NEW g \in Groups
      PROVE  runs[g] = reported'[g] + Cardinality(Active(g)')
  <2>1. /\ Active(g) \in SUBSET Workers
        /\ Cardinality(Active(g)) \in Nat
        /\ runs[g] = reported[g] + Cardinality(Active(g))
    BY CountsAre DEF CountInv
  <2>2. CASE g = idx[w]
    <3>1. Active(g)' = Active(g) \ {w} /\ w \in Active(g)
      BY <1>1, <1>2, <1>3, <2>2 DEF Active, At
    <3>2. Cardinality(Active(g)') = Cardinality(Active(g)) - 1
      BY <2>1, <3>1, OneWorkerMore
    <3>3. reported'[g] = reported[g] + 1
      BY <1>1, <1>2, <2>2
    <3>4. QED
      BY <1>2, <2>1, <3>2, <3>3
  <2>3. CASE g # idx[w]
    <3>1. Active(g)' = Active(g)
      BY <1>1, <1>2, <1>3, <2>3 DEF Active, At
    <3>2. reported'[g] = reported[g]
      BY <1>1, <1>2, <2>3
    <3>3. QED
      BY <2>1, <3>1, <3>2
  <2>4. QED
    BY <2>2, <2>3
<1>5. joined \subseteq {v \in Workers : At(v, "done")}' /\ w \in out
  BY <1>1, <1>2, <1>3 DEF CountInv, At
<1>6. /\ IsFiniteSet(Pairs(total, out))
      /\ IsFiniteSet(Pairs(failed, Groups))
      /\ err_count + Sum(total, out) = Sum(failed, Groups)
      /\ Sum(total, out) \in Nat /\ Sum(failed, Groups) \in Nat
      /\ err_count \in Nat
  BY CountsAre DEF CountInv
<1>7. /\ IsFiniteSet(Pairs(total', out))
      /\ IsFiniteSet(Pairs(failed', Groups))
      /\ err_count + Sum(total', out) = Sum(failed', Groups)
  <2>1. CASE err = 1
    <3>1. /\ total' = [total EXCEPT ![w] = total[w] + 1]
          /\ failed' = [failed EXCEPT ![idx[w]] = failed[idx[w]] + 1]
      BY <1>1, <2>1
    <3>2. IsFiniteSet(Pairs(total', out)) /\ Sum(total', out) = Sum(total, out) + 1
      BY <1>2, <1>5, <1>6, <3>1, SumOfOneMore
    <3>3. /\ IsFiniteSet(Pairs(failed', Groups))
          /\ Sum(failed', Groups) = Sum(failed, Groups) + 1
      <4> DEFINE more == [failed EXCEPT ![idx[w]] = failed[idx[w]] + 1]
      <4>1. /\ Groups \subseteq Groups /\ failed \in [Groups -> Nat]
            /\ idx[w] \in Groups /\ IsFiniteSet(Pairs(failed, Groups))
        BY <1>1, <1>2, <1>6
      <4>2. /\ IsFiniteSet(Pairs(more, Groups))
            /\ Sum(more, Groups) = Sum(failed, Groups) + 1
        BY <4>1, SumOfOneMore
      <4>3. QED
        BY <3>1, <4>2
    <3>4. QED
      BY <1>6, <3>2, <3>3
  <2>2. CASE err = 0
    <3>1. \A v \in out : total'[v] = total[v]
      BY <1>1, <1>2, <2>2
    <3>2. \A g \in Groups : failed'[g] = failed[g]
      BY <1>1, <1>2, <2>2
    <3>3. Pairs(total', out) = Pairs(total, out) /\ Sum(total', out) = Sum(total, out)
      BY <3>1, SumOfSame
    <3>4. /\ Pairs(failed', Groups) = Pairs(failed, Groups)
          /\ Sum(failed', Groups) = Sum(failed, Groups)
      BY <3>2, SumOfSame
    <3>5. QED
      BY <1>6, <3>3, <3>4
  <2>3. QED
    BY <1>1, <2>1, <2>2
<1>8. QED
  BY <1>1, <1>4, <1>5, <1>7 DEF CountInv, Sum, Pairs

\* The total of a worker that is joined goes over to the sum.
LEMMA JoinCounts ==
    ASSUME Inv, CountInv, NEW w \in Workers, Join(w)
    PROVE  CountInv'
<1> DEFINE out == Workers \ joined
<1>1. /\ At(w, "done") /\ joined = 1..(w - 1)
      /\ joined' = joined \cup {w}
      /\ err_count' = err_count + total[w]
      /\ UNCHANGED <<pc, idx, total, runs, reported, failed, damaged>>
  BY DEF Join, logs
<1>2. w \in out /\ Workers \ joined' = out \ {w}
  <2>1. w \in Nat
    BY DEF Workers
  <2>2. w \notin 1..(w - 1)
    BY <2>1
  <2>3. QED
    BY <1>1, <2>2
<1>3. /\ IsFiniteSet(Pairs(total, out))
      /\ err_count + Sum(total, out) = Sum(failed, Groups)
      /\ Sum(failed, Groups) \in Nat
      /\ err_count \in Nat
      /\ total[w] \in Nat
  BY CountsAre, TypesAre DEF CountInv
<1>4. /\ IsFiniteSet(Pairs(total, out \ {w}))
      /\ Sum(total, out) = total[w] + Sum(total, out \ {w})
      /\ Sum(total, out \ {w}) \in Nat
  BY <1>2, <1>3, SumWithout
<1>5. err_count' + Sum(total, out \ {w}) = Sum(failed, Groups)
  BY <1>1, <1>3, <1>4
<1>6. joined' \subseteq {v \in Workers : At(v, "done")}'
  BY <1>1 DEF CountInv, At
<1>7. \A g : Active(g)' = Active(g)
  BY <1>1 DEF Active
<1>8. /\ Pairs(total, Workers \ joined)' = Pairs(total, out \ {w})
      /\ Sum(total, Workers \ joined)' = Sum(total, out \ {w})
      /\ Pairs(failed, Groups)' = Pairs(failed, Groups)
      /\ Sum(failed, Groups)' = Sum(failed, Groups)
  BY <1>1, <1>2 DEF Pairs, Sum
<1>9. /\ \A g \in Groups : runs'[g] = reported'[g] + Cardinality(Active(g))'
      /\ damaged' => \E g \in Groups : runs'[g] > 1
  BY <1>1, <1>7 DEF CountInv
<1> HIDE DEF out
<1>10. QED
  BY <1>3, <1>4, <1>5, <1>6, <1>8, <1>9 DEF CountInv

\* Two workers in one vector of cases have both called its group.
LEMMA DamageCounts ==
    ASSUME Inv, CountInv, Damage
    PROVE  CountInv'
<1>1. PICK v, w \in Workers :
         /\ v # w /\ idx[v] = idx[w]
         /\ At(v, "store")
         /\ At(w, "store") \/ At(w, "verdict")
  BY DEF Damage
<1>2. pc[v] \in InGroup /\ pc[w] \in InGroup
  BY <1>1, StepsAre DEF At
<1>3. v \in Active(idx[w]) /\ w \in Active(idx[w]) /\ idx[w] \in Groups
  BY <1>1, <1>2, InTable DEF Active
<1>4. runs[idx[w]] > 1
  BY <1>1, <1>3, AloneInGroup
<1>5. UNCHANGED <<pc, idx, total, runs, reported, failed, joined, err_count>>
  BY DEF Damage, logs, main
<1>6. QED
  BY <1>3, <1>4, <1>5 DEF CountInv, Active, At, Sum, Pairs

\* Every step keeps it.
LEMMA CountsKeep ==
    ASSUME Inv, CountInv, [Next]_vars
    PROVE  CountInv'
<1>1. CASE UNCHANGED vars
  BY <1>1 DEF vars, groups, logs, main, CountInv, Active, At, Pairs, Sum
<1>2. ASSUME NEW w \in Workers, Fetch(w) \/ Read(w) \/ Test(w)
      PROVE  CountInv'
  <2>1. PICK step \in Steps \ InGroup : Goto(w, step)
    BY <1>2, StepsAre DEF Fetch, Read, Test
  <2>2. /\ ~At(w, "done") /\ pc[w] \notin InGroup
        /\ UNCHANGED <<total, runs, reported, failed, joined, err_count, damaged>>
    BY <1>2, StepsAre DEF Fetch, Read, Test, At, logs, main
  <2>3. \A v \in Workers : v # w => idx'[v] = idx[v]
    BY <1>2, TypesAre DEF Fetch, Read, Test
  <2>4. QED
    BY <2>1, <2>2, <2>3, QuietStep
<1>3. ASSUME NEW w \in Workers, Body(w)
      PROVE  CountInv'
  <2>1. PICK step \in InGroup : Goto(w, step)
    BY <1>3, BodyIs
  <2>2. step \in Steps /\ ~At(w, "done") /\ pc[w] \in InGroup
    BY <1>3, BodyIs, StepsAre DEF At
  <2>3. UNCHANGED <<idx, total, runs, reported, failed, joined, err_count, damaged>>
    BY <1>3, BodyIs
  <2>4. QED
    BY <2>1, <2>2, <2>3, QuietStep
<1>4. QED
  BY <1>1, <1>2, <1>3, RunCounts, LogCounts, JoinCounts, DamageCounts, StepsBy

-----------------------------------------------------------------------------
(* What a log says *)

\* How many of the first k cases of a group pass.
Passed(g, k) == Cardinality({j \in 1..k : Cases[g][j]})

\* A worker alone in a group: the counts are those of the cases it has made,
\* and what it has loaded of them is not stale.
WorkerAt(w, g) ==
    /\ made[w] <= Len(Cases[g])
    /\ failed[g] = 0
    /\ cases_len[g] = made[w]
    /\ pass_count[g] = IF pc[w] \in {"append", "store"}
                       THEN Passed(g, made[w] + 1) ELSE Passed(g, made[w])
    /\ pc[w] \in {"pass", "append", "store"} => made[w] < Len(Cases[g])
    /\ pc[w] = "pass" => Cases[g][made[w] + 1] /\ reg[w] = pass_count[g]
    /\ pc[w] = "store" => reg[w] = cases_len[g]
    /\ pc[w] \in {"log", "verdict"} => made[w] = Len(Cases[g])
    /\ pc[w] = "verdict" => reg[w] = pass_count[g]

\* A group before its function is called, and when it was called once.
GroupAt(g) ==
    /\ runs[g] = 0 => pass_count[g] = 0 /\ cases_len[g] = 0 /\ failed[g] = 0
    /\ runs[g] = 1 =>
          /\ \A w \in Active(g) : WorkerAt(w, g)
          /\ reported[g] = 1 => failed[g] = IF g \in Failing THEN 1 ELSE 0

GroupInv == \A g \in Groups : GroupAt(g)

\* No group was called.
LEMMA InitiallyUncalled == Init => GroupInv
BY DEF Init, GroupInv, GroupAt

\* The cases of a group and their count.
LEMMA PassedAre ==
    ASSUME NEW g \in Groups
    PROVE  /\ Len(Cases[g]) \in Nat
           /\ Passed(g, 0) = 0
           /\ \A k \in Nat : Passed(g, k) \in Nat
           /\ \A k \in Nat : k < Len(Cases[g]) =>
                 /\ Cases[g][k + 1] \in BOOLEAN
                 /\ Cases[g][k + 1] => Passed(g, k + 1) = Passed(g, k) + 1
                 /\ ~Cases[g][k + 1] => Passed(g, k + 1) = Passed(g, k)
           /\ Passed(g, Len(Cases[g])) = Len(Cases[g]) <=> g \notin Failing
<1> DEFINE cases == Cases[g]
           In(k) == {j \in 1..k : cases[j]}
<1>1. cases \in Seq(BOOLEAN)
  BY RunnerAssumption
<1>2. /\ Len(cases) \in Nat
      /\ \A k \in Nat : k < Len(cases) => cases[k + 1] \in BOOLEAN
  BY <1>1
<1>3. Passed(g, 0) = 0
  <2>1. In(0) = {}
    OBVIOUS
  <2>2. QED
    BY <2>1, FS_EmptySet DEF Passed
<1>4. ASSUME NEW k \in Nat
      PROVE  IsFiniteSet(In(k)) /\ Passed(g, k) \in Nat
  <2>1. IsFiniteSet(1..k)
    BY FS_Interval
  <2>2. IsFiniteSet(In(k))
    BY <2>1, FS_Subset
  <2>3. QED
    BY <2>2, FS_CardinalityType DEF Passed
<1>5. ASSUME NEW k \in Nat
      PROVE  /\ cases[k + 1] => Passed(g, k + 1) = Passed(g, k) + 1
             /\ ~cases[k + 1] => Passed(g, k + 1) = Passed(g, k)
  <2>1. cases[k + 1] => In(k + 1) = In(k) \cup {k + 1} /\ k + 1 \notin In(k)
    OBVIOUS
  <2>2. ~cases[k + 1] => In(k + 1) = In(k)
    OBVIOUS
  <2>3. QED
    BY <1>4, <2>1, <2>2, FS_AddElement DEF Passed
<1>6. Passed(g, Len(cases)) = Len(cases) <=> g \notin Failing
  <2> DEFINE all == 1..Len(cases)
             passing == In(Len(cases))
  <2>1. IsFiniteSet(all) /\ Cardinality(all) = Len(cases)
    BY <1>2, FS_Interval
  <2>2. passing \in SUBSET all
    OBVIOUS
  <2>3. Cardinality(all) = Cardinality(passing) <=> passing = all
    BY <2>1, <2>2, FS_Subset
  <2>4. passing = all <=> g \notin Failing
    BY DEF Failing
  <2>5. QED
    BY <2>1, <2>3, <2>4 DEF Passed
<1>7. QED
  BY <1>2, <1>3, <1>4, <1>5, <1>6

\* A step of a worker leaves a group in which it is not.
LEMMA ElsewhereStays ==
    ASSUME GroupInv, NEW w \in Workers, NEW g \in Groups,
           w \notin Active(g), w \notin Active(g)',
           \A v \in Workers : v # w => /\ pc'[v] = pc[v] /\ idx'[v] = idx[v]
                                       /\ made'[v] = made[v] /\ reg'[v] = reg[v],
           runs'[g] = runs[g], reported'[g] = reported[g],
           failed'[g] = failed[g], pass_count'[g] = pass_count[g],
           cases_len'[g] = cases_len[g]
    PROVE  GroupAt(g)'
<1>1. Active(g)' = Active(g)
  BY DEF Active
<1>2. ASSUME NEW v \in Active(g), WorkerAt(v, g)
      PROVE  WorkerAt(v, g)'
  <2>1. v \in Workers /\ v # w
    BY DEF Active
  <2>2. pc'[v] = pc[v] /\ made'[v] = made[v] /\ reg'[v] = reg[v]
    BY <2>1
  <2>3. QED
    BY <1>2, <2>2 DEF WorkerAt, Passed
<1>3. GroupAt(g)
  BY DEF GroupInv
<1>4. QED
  BY <1>1, <1>2, <1>3 DEF GroupAt, Failing

\* A group is called: if it is the first time nothing was counted in it.
LEMMA CallBegins ==
    ASSUME Inv, CountInv, GroupInv, NEW w \in Workers, Run(w)
    PROVE  GroupInv'
<1> DEFINE g == idx[w]
<1>1. /\ At(w, "run") /\ Goto(w, "case") /\ idx' = idx
      /\ runs' = [runs EXCEPT ![g] = runs[g] + 1]
      /\ made' = [made EXCEPT ![w] = 0]
      /\ UNCHANGED <<reg, pass_count, cases_len, reported, failed>>
      /\ g \in Groups
  BY InTable DEF Run, At, groups, logs
<1>2. /\ runs \in [Groups -> Nat] /\ reported \in [Groups -> Nat]
      /\ made \in [Workers -> Nat]
      /\ "case" \in Steps /\ "case" \in InGroup /\ "run" \notin InGroup
  BY TypesAre, StepsAre
<1>3. /\ pc'[w] = "case" /\ made'[w] = 0
      /\ \A v \in Workers : v # w => pc'[v] = pc[v] /\ made'[v] = made[v]
  BY <1>1, <1>2, GotoKeeps DEF Inv
<1>4. ASSUME NEW h \in Groups, h # g
      PROVE  GroupAt(h)'
  <2>1. w \notin Active(h) /\ w \notin Active(h)'
    BY <1>1, <1>4 DEF Active
  <2>2. runs'[h] = runs[h]
    BY <1>1, <1>2, <1>4
  <2>3. QED
    BY <1>1, <1>3, <2>1, <2>2, ElsewhereStays
<1>5. ASSUME NEW h \in Groups, h = g
      PROVE  GroupAt(h)'
  <2>1. runs'[h] = runs[h] + 1 /\ runs[h] \in Nat
    BY <1>1, <1>2, <1>5
  <2>2. SUFFICES ASSUME runs[h] = 0 PROVE GroupAt(h)'
    BY <2>1 DEF GroupAt
  <2>3. /\ Active(h) \in SUBSET Workers /\ Cardinality(Active(h)) \in Nat
        /\ reported[h] \in Nat /\ 0 = reported[h] + Cardinality(Active(h))
    BY <2>2, CountsAre DEF CountInv
  <2>4. Active(h) = {} /\ reported[h] = 0
    BY <2>3, WorkersAreFinite, FS_EmptySet
  <2>5. Active(h)' \subseteq {w}
    BY <1>1, <1>3, <2>4 DEF Active
  <2>6. pass_count[h] = 0 /\ cases_len[h] = 0 /\ failed[h] = 0
    BY <2>2 DEF GroupInv, GroupAt
  <2>7. Passed(h, 0) = 0 /\ Len(Cases[h]) \in Nat
    BY PassedAre
  <2>8. WorkerAt(w, h)'
    <3>1. /\ pc'[w] = "case" /\ made'[w] = 0
          /\ pass_count'[h] = 0 /\ cases_len'[h] = 0 /\ failed'[h] = 0
      BY <1>1, <1>3, <2>6
    <3>2. Passed(h, made[w])' = 0
      BY <2>7, <3>1 DEF Passed
    <3>3. QED
      BY <2>7, <3>1, <3>2 DEF WorkerAt
  <2>9. QED
    BY <1>1, <2>1, <2>2, <2>4, <2>5, <2>8 DEF GroupAt
<1>6. QED
  BY <1>4, <1>5 DEF GroupInv

\* A worker alone in a group makes its cases: what it stores in the counts is
\* one more than they were.
LEMMA AloneGoesOn ==
    ASSUME Inv, NEW w \in Workers, NEW g \in Groups, g = idx[w],
           WorkerAt(w, g), Body(w)
    PROVE  WorkerAt(w, g)'
<1>1. /\ made \in [Workers -> Nat] /\ reg \in [Workers -> Nat]
      /\ pc \in [Workers -> Steps] /\ idx \in [Workers -> Nat]
      /\ pass_count \in [Groups -> Nat] /\ cases_len \in [Groups -> Nat]
  BY TypesAre
<1> DEFINE k == made[w]
<1>2. /\ Len(Cases[g]) \in Nat /\ k \in Nat /\ Passed(g, k) \in Nat
      /\ k < Len(Cases[g]) =>
            /\ Cases[g][k + 1] => Passed(g, k + 1) = Passed(g, k) + 1
            /\ ~Cases[g][k + 1] => Passed(g, k + 1) = Passed(g, k)
  BY <1>1, PassedAre
<1>3. CASE NextCase(w)
  <2>1. /\ pc[w] = "case" /\ UNCHANGED <<made, pass_count, cases_len, failed>>
        /\ \/ /\ k < Len(Cases[g]) /\ Cases[g][k + 1]
              /\ reg'[w] = pass_count[g] /\ pc'[w] = "pass"
           \/ /\ k < Len(Cases[g]) /\ ~Cases[g][k + 1] /\ pc'[w] = "append"
           \/ /\ k = Len(Cases[g]) /\ pc'[w] = "log"
    BY <1>1, <1>3 DEF NextCase, Goto, At, groups, logs
  <2>2. QED
    BY <1>2, <2>1 DEF WorkerAt, Passed
<1>4. CASE Pass(w)
  <2>1. /\ pc[w] = "pass" /\ pc'[w] = "append"
        /\ UNCHANGED <<made, cases_len, failed>>
        /\ pass_count'[g] = reg[w] + 1
    BY <1>1, <1>4 DEF Pass, Goto, At, logs
  <2>2. QED
    BY <1>2, <2>1 DEF WorkerAt, Passed
<1>5. CASE Fill(w)
  <2>1. /\ pc[w] = "append" /\ pc'[w] = "store"
        /\ UNCHANGED <<made, pass_count, cases_len, failed>>
        /\ reg'[w] = cases_len[g]
    BY <1>1, <1>5 DEF Fill, Goto, At, groups, logs
  <2>2. QED
    BY <1>2, <2>1 DEF WorkerAt, Passed
<1>6. CASE StoreLen(w)
  <2>1. /\ pc[w] = "store" /\ pc'[w] = "case"
        /\ UNCHANGED <<pass_count, failed>>
        /\ cases_len'[g] = reg[w] + 1 /\ made'[w] = k + 1
    BY <1>1, <1>6 DEF StoreLen, Goto, At, logs
  <2>2. QED
    BY <1>2, <2>1 DEF WorkerAt, Passed
<1>7. CASE Log(w)
  <2>1. /\ pc[w] = "log" /\ pc'[w] = "verdict"
        /\ UNCHANGED <<made, pass_count, cases_len, failed>>
        /\ reg'[w] = pass_count[g]
    BY <1>1, <1>7 DEF Log, Goto, At, groups, logs
  <2>2. QED
    BY <1>2, <2>1 DEF WorkerAt, Passed
<1>8. QED
  BY <1>3, <1>4, <1>5, <1>6, <1>7 DEF Body

\* A worker goes on in its group.
LEMMA BodyGoesOn ==
    ASSUME Inv, CountInv, GroupInv, NEW w \in Workers, Body(w)
    PROVE  GroupInv'
<1> DEFINE g == idx[w]
<1>1. PICK step \in InGroup : Goto(w, step)
  BY BodyIs
<1>2. /\ pc[w] \in InGroup /\ g \in Groups
      /\ UNCHANGED <<idx, runs, reported, failed>>
      /\ step \in Steps
  BY BodyIs, StepsAre
<1>3. /\ pc'[w] = step
      /\ \A v \in Workers : v # w => pc'[v] = pc[v]
  BY <1>1, <1>2, GotoKeeps DEF Inv
<1>4. ASSUME NEW h \in Groups, h # g
      PROVE  GroupAt(h)'
  <2>1. w \notin Active(h) /\ w \notin Active(h)'
    BY <1>2, <1>4 DEF Active
  <2>2. \A v \in Workers : v # w => made'[v] = made[v] /\ reg'[v] = reg[v]
    BY TypesAre DEF Body, NextCase, Pass, Fill, StoreLen, Log
  <2>3. pass_count'[h] = pass_count[h] /\ cases_len'[h] = cases_len[h]
    BY <1>4, TypesAre DEF Body, NextCase, Pass, Fill, StoreLen, Log, groups
  <2>4. QED
    BY <1>2, <1>3, <2>1, <2>2, <2>3, ElsewhereStays
<1>5. ASSUME NEW h \in Groups, h = g
      PROVE  GroupAt(h)'
  <2>1. w \in Active(h) /\ Active(h)' = Active(h)
    BY <1>1, <1>2, <1>3, <1>5 DEF Active
  <2>2. runs[h] \in Nat /\ runs[h] >= 1
    BY <2>1, AloneInGroup, TypesAre
  <2>3. SUFFICES ASSUME runs[h] = 1 PROVE GroupAt(h)'
    BY <1>2, <2>2 DEF GroupAt
  <2>4. reported[h] = 0 /\ \A v \in Active(h) : v = w
    BY <2>1, <2>3, AloneInGroup
  <2>5. WorkerAt(w, h)
    BY <2>1, <2>3 DEF GroupInv, GroupAt
  <2>6. WorkerAt(w, h)'
    BY <1>5, <2>5, AloneGoesOn
  <2>7. QED
    BY <1>2, <2>1, <2>3, <2>4, <2>6 DEF GroupAt
<1>6. QED
  BY <1>4, <1>5 DEF GroupInv

\* The log of a group that was called once says FAILED exactly if one of its
\* cases does not pass: as many passed as there are, or not.
LEMMA VerdictIsRight ==
    ASSUME Inv, CountInv, GroupInv, NEW w \in Workers, Verdict(w)
    PROVE  GroupInv'
<1> DEFINE g == idx[w]
           err == IF reg[w] # cases_len[g] THEN 1 ELSE 0
<1>1. /\ At(w, "verdict") /\ Goto(w, "fetch")
      /\ g \in Groups
      /\ reported' = [reported EXCEPT ![g] = reported[g] + 1]
      /\ failed' = [failed EXCEPT ![g] = failed[g] + err]
      /\ UNCHANGED <<idx, made, reg, runs, pass_count, cases_len>>
  BY VerdictIs
<1>2. /\ reported \in [Groups -> Nat] /\ failed \in [Groups -> Nat]
      /\ "fetch" \in Steps /\ "fetch" \notin InGroup /\ "verdict" \in InGroup
  BY TypesAre, StepsAre
<1>3. /\ pc'[w] = "fetch"
      /\ \A v \in Workers : v # w => pc'[v] = pc[v]
  BY <1>1, <1>2, GotoKeeps DEF Inv
<1>4. ASSUME NEW h \in Groups, h # g
      PROVE  GroupAt(h)'
  <2>1. w \notin Active(h) /\ w \notin Active(h)'
    BY <1>1, <1>4 DEF Active
  <2>2. reported'[h] = reported[h] /\ failed'[h] = failed[h]
    BY <1>1, <1>2, <1>4
  <2>3. QED
    BY <1>1, <1>3, <2>1, <2>2, ElsewhereStays
<1>5. ASSUME NEW h \in Groups, h = g
      PROVE  GroupAt(h)'
  <2>1. w \in Active(h)
    BY <1>1, <1>2, <1>5 DEF Active, At
  <2>2. runs[h] \in Nat /\ runs[h] >= 1
    BY <2>1, AloneInGroup, TypesAre
  <2>3. SUFFICES ASSUME runs[h] = 1 PROVE GroupAt(h)'
    BY <1>1, <2>2 DEF GroupAt
  <2>4. reported[h] = 0 /\ \A v \in Active(h) : v = w
    BY <2>1, <2>3, AloneInGroup
  <2>5. Active(h)' = {}
    BY <1>1, <1>2, <1>3, <2>4 DEF Active
  <2>6. WorkerAt(w, h)
    BY <2>1, <2>3 DEF GroupInv, GroupAt
  <2>7. /\ failed[h] = 0 /\ cases_len[h] = Len(Cases[h])
        /\ reg[w] = Passed(h, Len(Cases[h]))
    BY <1>1, <2>6 DEF WorkerAt, At
  <2>8. err = IF h \in Failing THEN 1 ELSE 0
    BY <1>5, <2>7, PassedAre
  <2>9. failed'[h] = IF h \in Failing THEN 1 ELSE 0
    BY <1>1, <1>2, <1>5, <2>7, <2>8
  <2>10. QED
    BY <1>1, <2>3, <2>5, <2>9 DEF GroupAt, Failing
<1>6. QED
  BY <1>4, <1>5 DEF GroupInv

\* Every step keeps it.
LEMMA GroupsKeep ==
    ASSUME Inv, CountInv, GroupInv, [Next]_vars
    PROVE  GroupInv'
<1>1. CASE UNCHANGED <<pc, idx, made, reg, runs, reported, failed, pass_count,
                       cases_len>>
  <2>1. ASSUME NEW g \in Groups
        PROVE  GroupAt(g)'
    <3>1. GroupAt(g) /\ Active(g)' = Active(g)
      BY <1>1 DEF GroupInv, Active
    <3>2. ASSUME NEW w \in Active(g), WorkerAt(w, g)
          PROVE  WorkerAt(w, g)'
      BY <1>1, <3>2 DEF WorkerAt, Passed
    <3>3. QED
      BY <1>1, <3>1, <3>2 DEF GroupAt, Failing
  <2>2. QED
    BY <2>1 DEF GroupInv
<1>2. ASSUME NEW w \in Workers, Fetch(w) \/ Read(w) \/ Test(w)
      PROVE  GroupInv'
  <2>1. PICK step \in Steps \ InGroup : Goto(w, step)
    BY <1>2, StepsAre DEF Fetch, Read, Test
  <2>2. /\ pc[w] \notin InGroup
        /\ UNCHANGED <<made, reg, runs, reported, failed, pass_count, cases_len>>
    BY <1>2, StepsAre DEF Fetch, Read, Test, At, groups, logs
  <2>3. \A v \in Workers : v # w => idx'[v] = idx[v]
    BY <1>2, TypesAre DEF Fetch, Read, Test
  <2>4. /\ pc'[w] = step
        /\ \A v \in Workers : v # w => pc'[v] = pc[v]
    BY <2>1, GotoKeeps DEF Inv
  <2>5. ASSUME NEW g \in Groups
        PROVE  GroupAt(g)'
    <3>1. w \notin Active(g) /\ w \notin Active(g)'
      BY <2>1, <2>2, <2>4 DEF Active
    <3>2. QED
      BY <2>2, <2>3, <2>4, <3>1, ElsewhereStays
  <2>6. QED
    BY <2>5 DEF GroupInv
<1>3. ASSUME NEW w \in Workers, Join(w)
      PROVE  GroupInv'
  BY <1>1, <1>3 DEF Join, groups, logs
<1>4. Damage => GroupInv'
  BY <1>1 DEF Damage, groups, logs
<1>5. UNCHANGED vars => GroupInv'
  BY <1>1 DEF vars, groups, logs
<1>6. QED
  BY <1>2, <1>3, <1>4, <1>5, CallBegins, BodyGoesOn, VerdictIsRight, StepsBy

\* The logs that say FAILED, if every group was called once and is logged.
LEMMA OneLogEach ==
    ASSUME Inv, \A g \in Groups : failed[g] = IF g \in Failing THEN 1 ELSE 0
    PROVE  Sum(failed, Groups) = Cardinality(Failing)
<1>1. IsFiniteSet(Failing)
  <2>1. IsFiniteSet(Groups)
    BY RunnerAssumption, FS_Interval DEF Groups
  <2>2. QED
    BY <2>1, FS_Subset DEF Failing
<1>2. IsFiniteSet({1}) /\ Cardinality({1}) = 1
  BY FS_Singleton
<1>3. Pairs(failed, Groups) = Failing \X {1}
  <2>1. ASSUME NEW p \in Pairs(failed, Groups)
        PROVE  p \in Failing \X {1}
    <3>1. PICK g \in Groups : \E n \in 1..failed[g] : p = <<g, n>>
      BY PairIs
    <3>2. PICK n \in 1..failed[g] : p = <<g, n>>
      BY <3>1
    <3>3. n \in 1..(IF g \in Failing THEN 1 ELSE 0)
      BY <3>2
    <3>4. g \in Failing /\ n = 1
      BY <3>3
    <3>5. QED
      BY <3>2, <3>4
  <2>2. ASSUME NEW p \in Failing \X {1}
        PROVE  p \in Pairs(failed, Groups)
    <3>1. PICK g \in Failing : p = <<g, 1>>
      OBVIOUS
    <3>2. g \in Groups /\ 1 \in 1..failed[g]
      BY DEF Failing
    <3>3. QED
      BY <3>1, <3>2, PairIs
  <2>3. QED
    BY <2>1, <2>2
<1>4. Cardinality(Failing \X {1}) = Cardinality(Failing) * 1
  BY <1>1, <1>2, FS_Product
<1>5. Cardinality(Failing) \in Nat
  BY <1>1, FS_CardinalityType
<1>6. Sum(failed, Groups) = Cardinality(Pairs(failed, Groups))
  BY DEF Sum, Pairs
<1>7. QED
  BY <1>3, <1>4, <1>5, <1>6

(* However the workers interleave: when the main thread has joined them all *)
(* that was run is logged, and what it returns is the number of logs that  *)
(* say FAILED.  The log of a group that was run once is right, though the  *)
(* counts it compares are shared and not locked; so the number is that of  *)
(* the groups that fail if every group was run once.  The heap is damaged  *)
(* only where a group was run twice.                                       *)
THEOREM FailuresAreCounted == Spec => []CountsFailures
<1>1. Inv /\ CountInv /\ GroupInv => CountsFailures
  <2> SUFFICES ASSUME Inv, CountInv, GroupInv PROVE CountsFailures
    OBVIOUS
  <2>1. damaged => \E g \in Groups : runs[g] > 1
    BY DEF CountInv
  <2>2. SUFFICES ASSUME Finished
                 PROVE  /\ reported = runs
                        /\ err_count = Sum(failed, Groups)
                        /\ \A g \in Groups :
                              runs[g] = 1 =>
                                 failed[g] = IF g \in Failing THEN 1 ELSE 0
                        /\ (\A g \in Groups : runs[g] = 1)
                              => err_count = Cardinality(Failing)
    BY <2>1 DEF CountsFailures
  <2>3. \A g \in Groups : Active(g) = {}
    <3>1. joined \subseteq {w \in Workers : At(w, "done")}
      BY DEF CountInv
    <3>2. \A w \in Workers : pc[w] = "done"
      BY <2>2, <3>1 DEF Finished, At
    <3>3. "done" \notin InGroup
      BY StepsAre
    <3>4. QED
      BY <3>2, <3>3 DEF Active
  <2>4. runs \in [Groups -> Nat] /\ reported \in [Groups -> Nat]
    BY TypesAre
  <2>5. \A g \in Groups : runs[g] = reported[g]
    BY <2>3, <2>4, FS_EmptySet DEF CountInv
  <2>6. reported = runs
    BY <2>4, <2>5
  <2>7. Sum(total, Workers \ joined) = 0
    <3>1. \A w \in Workers \ joined : total[w] = 0
      BY <2>2 DEF Finished
    <3>2. QED
      BY <3>1, SumOfNone
  <2>8. err_count = Sum(failed, Groups)
    BY <2>7, CountsAre DEF CountInv
  <2>9. \A g \in Groups : runs[g] = 1 => failed[g] = IF g \in Failing THEN 1 ELSE 0
    BY <2>5 DEF GroupInv, GroupAt
  <2>10. (\A g \in Groups : runs[g] = 1) => err_count = Cardinality(Failing)
    BY <2>8, <2>9, OneLogEach
  <2>11. QED
    BY <2>6, <2>8, <2>9, <2>10
<1>2. Inv /\ CountInv /\ [Next]_vars => CountInv'
  BY CountsKeep
<1>3. Inv /\ CountInv /\ GroupInv /\ [Next]_vars => GroupInv'
  BY GroupsKeep
<1>4. QED
  BY <1>1, <1>2, <1>3, InitiallyCounted, InitiallyUncalled, AlwaysInv, PTL DEF Spec

=============================================================================
