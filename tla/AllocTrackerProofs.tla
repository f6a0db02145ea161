------------------------- MODULE AllocTrackerProofs -------------------------
(***************************************************************************)
(* The allocation tracker keeps its table right for any number of threads, *)
(* addresses and slots.  Between the steps of a call the table is behind   *)
(* the C library by that call; since the mutex lets one thread in, it is   *)
(* behind by one call, and the invariant says of which address.            *)
(***************************************************************************)
EXTENDS AllocTracker, Loops

Ptr(i) == active_allocations[i].ptr

InCall(t) == call[t].at # "idle"

\* The call of t has given its block back, and its entry is still active.
GivenBack(t) ==
    /\ call[t].at = "table"
    /\ call[t].ptr # None
    /\ call[t].ptr # call[t].got
    /\ call[t].op = "release" \/ call[t].got # None

\* The call of t has a block, and its entry is not written yet.
Got(t) == call[t].at = "table" /\ call[t].got # None

\* What a call found when it began is still so.
FoundInv(t) ==
    /\ call[t].found = None => \A i \in Active : Ptr(i) # call[t].ptr
    /\ call[t].found # None =>
          /\ call[t].found \in Active
          /\ Ptr(call[t].found) = call[t].ptr
    /\ call[t].kind = "foreign" => call[t].found = None
    /\ call[t].ptr # None /\ call[t].kind # "foreign" /\ ~refused
          => call[t].found # None

\* What the C library holds of the addresses of a call.
BlockInv(t) ==
    /\ call[t].op = "alloc" => call[t].ptr = None
    /\ call[t].op \in {"alloc", "realloc"} => current_allocation_id < MaxIds
    /\ call[t].op = "release" => call[t].got = None
    /\ call[t].at = "libc" =>
          /\ call[t].got = None
          /\ call[t].ptr # None => live[call[t].ptr] = call[t].kind
    /\ Got(t) =>
          /\ live[call[t].got] \in Kinds
          /\ call[t].got # call[t].ptr =>
                \A i \in Active : Ptr(i) # call[t].got
    /\ call[t].kind = "foreign" => call[t].op = "release"
    /\ GivenBack(t) => live[call[t].ptr] \notin Kinds

CallInv ==
    /\ mutex # None => InCall(mutex)
    /\ \A t \in Threads : InCall(t) => FoundInv(t) /\ BlockInv(t)

EntryInv ==
    /\ \A i, j \in Active : Ptr(i) = Ptr(j) => i = j
    /\ \A i \in Active :
          \/ Ptr(i) \in Live
          \/ \E t \in Threads : GivenBack(t) /\ Ptr(i) = call[t].ptr

MissInv ==
    ~refused =>
        \A a \in Live : \/ \E i \in Active : Ptr(i) = a
                        \/ \E t \in Threads : Got(t) /\ call[t].got = a

IdInv ==
    /\ \A i \in Slots : active_allocations[i].id < current_allocation_id
                          \/ (current_allocation_id = 0 /\ active_allocations[i].id = 0)
    /\ current_allocation_id = 0 =>
          \A i \in Slots : is_active_allocation_slot_free(active_allocations[i])
    /\ \A i \in Active, j \in Slots :
          active_allocations[j].id = active_allocations[i].id => i <= j

Inv == TypeOK /\ CallInv /\ EntryInv /\ MissInv /\ IdInv

-----------------------------------------------------------------------------
(* The least slot of a set, and what follows for the look-ups *)

\* First, the loop over the slots that stops at the first it wants, finds the
\* least slot of a set, and None of the empty one.
LEMMA FirstIs ==
    ASSUME NEW S \in SUBSET Slots
    PROVE  /\ S = {} => First(S) = None
           /\ S # {} => First(S) \in S /\ \A j \in S : First(S) <= j
<1>1. CASE S = {}
  BY <1>1 DEF First
<1>2. CASE S # {}
  <2>1. S \in SUBSET Nat
    BY DEF Slots
  <2>2. PICK x \in S : \A y \in S : x <= y
    BY <1>2, <2>1, LeastNatural
  <2>3. Min(S) \in S /\ \A y \in S : Min(S) <= y
    BY <2>2 DEF Min
  <2>4. QED
    BY <1>2, <2>3 DEF First
<1>3. QED
  BY <1>1, <1>2

\* NULL is no slot, no address and no thread.
LEMMA NoneIsNoSlot == None \notin Slots /\ None \notin Addresses /\ None \notin Threads
BY TrackerAssumption DEF Slots

\* The look-up of a pointer finds an active entry of it if there is one.
LEMMA EntryIs ==
    ASSUME NEW p
    PROVE  /\ Entry(p) = None => \A i \in Active : Ptr(i) # p
           /\ Entry(p) # None => Entry(p) \in Active /\ Ptr(Entry(p)) = p
<1> DEFINE S == {i \in Slots : /\ active_allocations[i].ptr = p
                              /\ active_allocations[i].active}
<1>1. S \in SUBSET Slots /\ Entry(p) = First(S)
  BY DEF Entry
<1>2. S # {} => First(S) # None
  BY <1>1, FirstIs, NoneIsNoSlot
<1>3. CASE S = {}
  <2>1. Entry(p) = None
    BY <1>1, <1>3, FirstIs
  <2>2. \A i \in Active : Ptr(i) # p
    BY <1>3 DEF Active, Ptr
  <2>3. QED
    BY <2>1, <2>2
<1>4. CASE S # {}
  <2>1. Entry(p) \in S
    BY <1>1, <1>4, FirstIs
  <2>2. QED
    BY <1>1, <1>2, <1>4, <2>1 DEF Active, Ptr
<1>5. QED
  BY <1>3, <1>4

\* The mutex lets one thread in.
LEMMA OneCall ==
    ASSUME TypeOK, NEW t \in Threads, NEW u \in Threads, InCall(t)
    PROVE  /\ mutex = t
           /\ InCall(u) => u = t
           /\ Got(u) => u = t
           /\ GivenBack(u) => u = t
BY DEF TypeOK, InCall, Got, GivenBack

\* Between calls the active entries are live.
LEMMA Between ==
    ASSUME Inv, mutex = None
    PROVE  /\ \A t \in Threads : ~InCall(t) /\ ~Got(t) /\ ~GivenBack(t)
           /\ \A i \in Active : Ptr(i) \in Live
           /\ ~refused => \A a \in Live : \E i \in Active : Ptr(i) = a
<1>1. \A t \in Threads : ~InCall(t)
  BY NoneIsNoSlot DEF Inv, TypeOK, InCall
<1>2. \A t \in Threads : ~Got(t) /\ ~GivenBack(t)
  BY <1>1 DEF InCall, Got, GivenBack
<1>3. QED
  BY <1>1, <1>2 DEF Inv, EntryInv, MissInv

\* The pointer of an active entry is an address.
LEMMA ActivePtr ==
    ASSUME Inv, NEW i \in Active
    PROVE  Ptr(i) \in Addresses
<1>1. Ptr(i) \in Addresses \cup {None}
  BY DEF Inv, TypeOK, Active, Ptr, Allocation
<1>2. Ptr(i) # None
  BY NoneIsNoSlot DEF Inv, EntryInv, GivenBack, Live
<1>3. QED
  BY <1>1, <1>2

\* The empty table, with no call in progress.
LEMMA Initially == Init => Inv
<1> SUFFICES ASSUME Init PROVE Inv
  OBVIOUS
<1> USE DEF Init
<1>1. Active = {} /\ Live = {}
  BY DEF Active, Live, Kinds
<1>2. TypeOK
  <2>1. 0 \in 0 .. MaxIds
    BY TrackerAssumption
  <2>2. active_allocations \in [Slots -> Allocation]
    BY <2>1 DEF Allocation
  <2>3. call \in [Threads -> Call]
    BY DEF Call, Idle, Kinds
  <2>4. refused \in BOOLEAN /\ crashed \in BOOLEAN
    OBVIOUS
  <2>5. live \in [Addresses -> Kinds \cup {"free", "foreign"}]
    OBVIOUS
  <2>6. \A t \in Threads : call[t].at = "idle"
    BY DEF Idle
  <2>7. QED
    BY <1>1, <2>1, <2>2, <2>3, <2>4, <2>5, <2>6 DEF TypeOK
<1>3. CallInv
  BY DEF CallInv, InCall, Idle
<1>4. EntryInv /\ MissInv
  BY <1>1 DEF EntryInv, MissInv
<1>5. IdInv
  BY <1>1 DEF IdInv, is_active_allocation_slot_free
<1>6. QED
  BY <1>2, <1>3, <1>4, <1>5 DEF Inv

-----------------------------------------------------------------------------
(* A call begins: the thread takes the mutex and looks its pointer up *)

\* A look-up of NULL finds nothing.
LEMMA NothingAtNone ==
    ASSUME Inv
    PROVE  Entry(None) = None
BY EntryIs, ActivePtr, NoneIsNoSlot

\* A call takes the mutex between calls, when the table is right, so that what
\* it finds is right.
LEMMA BeginKeeps ==
    ASSUME Inv, NEW t \in Threads,
           NEW op \in {"alloc", "realloc", "release"}, NEW k \in Kinds \cup {"foreign"},
           NEW p \in Addresses \cup {None},
           Lock(t), Begin(t, op, k, p, Entry(p)),
           p # None => live[p] = k /\ op # "alloc",
           k = "foreign" => op = "release",
           op \in {"alloc", "realloc"} => current_allocation_id < MaxIds,
           active_allocations' \in [Slots -> Allocation],
           \A i \in Slots :
              LET slot == active_allocations[i]
              IN  /\ active_allocations'[i].ptr = slot.ptr
                  /\ active_allocations'[i].active = slot.active
                  /\ active_allocations'[i].id = slot.id
                  /\ active_allocations'[i].reallocated_to
                        \in {slot.reallocated_to, None},
           UNCHANGED <<current_allocation_id, refused, live, crashed>>
    PROVE  Inv'
<1> DEFINE new == [at |-> "libc", op |-> op, kind |-> k, ptr |-> p,
                   found |-> Entry(p), got |-> None]
<1>1. mutex = None /\ mutex' = t
  BY DEF Lock
<1>2. /\ call \in [Threads -> Call]
      /\ active_allocations \in [Slots -> Allocation]
  BY DEF Inv, TypeOK
<1>3. call' = [call EXCEPT ![t] = new]
  BY DEF Begin
<1>4. /\ call'[t] = new
      /\ \A u \in Threads : u # t => call'[u] = call[u] /\ ~InCall(u)'
  BY <1>1, <1>2, <1>3, Between DEF InCall
<1>5. /\ Active' = Active
      /\ Live' = Live
      /\ \A i \in Slots : Ptr(i)' = Ptr(i)
  BY DEF Active, Live, Ptr
<1>6. Entry(p) \in Slots \cup {None}
  BY EntryIs DEF Active
<1>7. TypeOK'
  <2>1. new \in Call
    BY <1>6 DEF Call
  <2>2. call' \in [Threads -> Call]
    BY <1>2, <1>3, <2>1
  <2>3. \A i \in Active' : active_allocations'[i].reallocated_to = None
    BY <1>5 DEF Inv, TypeOK, Active
  <2>4. \A u \in Threads : call'[u].at # "idle" => mutex' = u
    BY <1>1, <1>4 DEF InCall
  <2>5. QED
    BY <1>1, <2>2, <2>3, <2>4 DEF Inv, TypeOK
<1>8. CallInv'
  <2>1. InCall(t)'
    BY <1>4 DEF InCall
  <2>2. FoundInv(t)'
    <3>1. /\ Entry(p) = None => \A i \in Active : Ptr(i) # p
          /\ Entry(p) # None => Entry(p) \in Active /\ Ptr(Entry(p)) = p
      BY EntryIs
    <3>2. ASSUME p # None, ~refused, k # "foreign"
          PROVE  Entry(p) # None
      <4>1. p \in Live
        BY <3>2 DEF Live, Kinds
      <4>2. \E i \in Active : Ptr(i) = p
        BY <1>1, <3>2, <4>1, Between
      <4>3. QED
        BY <3>1, <4>2
    <3>3. Active \subseteq Slots
      BY DEF Active
    <3>4. ASSUME k = "foreign"
          PROVE  Entry(p) = None
      <4>1. p \notin Live
        BY <3>4, NoneIsNoSlot DEF Live, Kinds
      <4>2. \A i \in Active : Ptr(i) # p
        BY <1>1, <4>1, Between
      <4>3. QED
        BY <3>1, <4>2
    <3>5. QED
      BY <1>4, <1>5, <3>1, <3>2, <3>3, <3>4 DEF FoundInv
  <2>3. BlockInv(t)'
    BY <1>4 DEF BlockInv, Got, GivenBack
  <2>4. QED
    BY <1>1, <1>4, <2>1, <2>2, <2>3 DEF CallInv
<1>9. EntryInv' /\ MissInv'
  <2>1. \A i \in Active : i \in Slots
    BY DEF Active
  <2>2. \A i, j \in Active : Ptr(i) = Ptr(j) => i = j
    BY DEF Inv, EntryInv
  <2>3. EntryInv'
    BY <1>1, <1>5, <2>1, <2>2, Between DEF EntryInv
  <2>4. MissInv'
    BY <1>1, <1>5, <2>1, Between DEF MissInv
  <2>5. QED
    BY <2>3, <2>4
<1>10. IdInv'
  <2>1. Active \subseteq Slots
    BY DEF Active
  <2>2. IdInv
    BY DEF Inv
  <2>3. QED
    BY <1>5, <2>1, <2>2 DEF IdInv, is_active_allocation_slot_free
<1>11. QED
  BY <1>7, <1>8, <1>9, <1>10 DEF Inv

\* Each of the three kinds of call begins so.
LEMMA CallBegins ==
    ASSUME Inv, NEW t \in Threads,
           Allocate(t) \/ Reallocate(t) \/ Release(t)
    PROVE  Inv'
<1>1. /\ active_allocations \in [Slots -> Allocation]
      /\ \A i \in Slots : active_allocations[i] \in Allocation
  BY DEF Inv, TypeOK
<1>2. CASE Allocate(t)
  <2>1. PICK k \in Kinds : Begin(t, "alloc", k, None, Entry(None))
    BY <1>2, NothingAtNone DEF Allocate
  <2>2. k \in Kinds \cup {"foreign"} /\ k # "foreign" /\ None \in Addresses \cup {None}
    BY DEF Kinds
  <2>3. QED
    BY <1>1, <1>2, <2>1, <2>2, BeginKeeps DEF Allocate, TableUnchanged
<1>3. CASE Reallocate(t)
  <2>1. PICK p \in Blocks("heap") \cup {None} :
           Begin(t, "realloc", "heap", p, Entry(p))
    BY <1>3 DEF Reallocate
  <2>2. /\ p \in Addresses \cup {None}
        /\ p # None => live[p] = "heap"
        /\ "heap" \in Kinds
    BY DEF Blocks, Kinds
  <2>3. QED
    BY <1>1, <1>3, <2>1, <2>2, BeginKeeps DEF Reallocate, TableUnchanged
<1>4. CASE Release(t)
  <2>5. PICK k \in Kinds \cup {"foreign"} : \E p \in Blocks(k) \cup {None} :
           /\ Begin(t, "release", k, p, Entry(p))
           /\ active_allocations' = IF k # "map" /\ Entry(p) # None
                                    THEN Forget(active_allocations, p)
                                    ELSE active_allocations
    BY <1>4 DEF Release
  <2>1. PICK p \in Blocks(k) \cup {None} :
           /\ Begin(t, "release", k, p, Entry(p))
           /\ active_allocations' = IF k # "map" /\ Entry(p) # None
                                    THEN Forget(active_allocations, p)
                                    ELSE active_allocations
    BY <2>5
  <2>2. /\ p \in Addresses \cup {None}
        /\ p # None => live[p] = k
    BY DEF Blocks
  <2> DEFINE i == First({j \in Slots : active_allocations[j].reallocated_to = p})
  <2>3. /\ active_allocations' \in [Slots -> Allocation]
        /\ \A n \in Slots :
              /\ active_allocations'[n].ptr = active_allocations[n].ptr
              /\ active_allocations'[n].active = active_allocations[n].active
              /\ active_allocations'[n].id = active_allocations[n].id
              /\ active_allocations'[n].reallocated_to
                    \in {active_allocations[n].reallocated_to, None}
    <3>1. CASE active_allocations' = active_allocations
      BY <1>1, <3>1
    <3>2. CASE active_allocations'
                  = [active_allocations EXCEPT ![i].reallocated_to = None]
      BY <1>1, <3>2 DEF Allocation
    <3>3. QED
      BY <2>1, <3>1, <3>2 DEF Forget
  <2>4. QED
    BY <1>4, <2>1, <2>2, <2>3, BeginKeeps DEF Release
<1>5. QED
  BY <1>2, <1>3, <1>4

-----------------------------------------------------------------------------
(* The C library answers *)

\* The answer of malloc, realloc or free puts the table behind by this call.
LEMMA LibraryKeeps ==
    ASSUME Inv, NEW t \in Threads, Library(t)
    PROVE  Inv'
<1> DEFINE c == call[t]
<1>1. PICK q \in Answers(c) :
         LET gone == c.ptr # None /\ c.ptr # q /\ (c.op = "release" \/ q # None)
         IN  /\ live' = [a \in Addresses |->
                           IF a = q THEN c.kind
                           ELSE IF gone /\ a = c.ptr THEN "free" ELSE live[a]]
             /\ call' = [call EXCEPT ![t].at = "table", ![t].got = q]
  BY DEF Library
<1>2. /\ c.at = "libc"
      /\ UNCHANGED <<active_allocations, current_allocation_id, refused, mutex, crashed>>
  BY DEF Library, TableUnchanged
<1>3. /\ call \in [Threads -> Call]
      /\ live \in [Addresses -> Kinds \cup {"free", "foreign"}]
      /\ c \in Call
  BY DEF Inv, TypeOK
<1>4. /\ InCall(t)
      /\ FoundInv(t)
      /\ BlockInv(t)
  BY <1>2 DEF Inv, CallInv, InCall
<1>5. /\ mutex = t
      /\ \A u \in Threads : u # t => ~InCall(u)
      /\ \A u \in Threads : ~Got(u) /\ ~GivenBack(u)
  BY <1>2, <1>4, OneCall DEF Inv, Got, GivenBack
<1>6. /\ c.op = "release" => q = None
      /\ q \in Addresses \cup {None}
      /\ q # None => live[q] = "free" \/ q = c.ptr
  BY <1>3 DEF Answers, Blocks, Call
<1>7. /\ call'[t] = [c EXCEPT !.at = "table", !.got = q]
      /\ \A u \in Threads : u # t => call'[u] = call[u]
      /\ call' \in [Threads -> Call]
  BY <1>1, <1>3, <1>6 DEF Call
<1>8. /\ call'[t].at = "table" /\ call'[t].got = q
      /\ call'[t].op = c.op /\ call'[t].kind = c.kind
      /\ call'[t].ptr = c.ptr /\ call'[t].found = c.found
  BY <1>3, <1>7 DEF Call
<1>9. /\ Active' = Active
      /\ \A i : Ptr(i)' = Ptr(i)
      /\ Active \subseteq Slots
  BY <1>2 DEF Active, Ptr
<1>10. /\ \A i \in Active : Ptr(i) \in Live
       /\ ~refused => \A a \in Live : \E i \in Active : Ptr(i) = a
  BY <1>5 DEF Inv, EntryInv, MissInv
<1>11. /\ c.kind \in Kinds \cup {"foreign"} /\ c.kind # "free"
       /\ q # None => c.kind \in Kinds
       /\ "free" \notin Kinds /\ "foreign" \notin Kinds
  <2>1. c.kind \in Kinds \cup {"foreign"}
    BY <1>3 DEF Call
  <2>2. "free" \notin Kinds /\ "foreign" \notin Kinds
    BY DEF Kinds
  <2>3. q # None => c.kind # "foreign"
    BY <1>4, <1>6 DEF BlockInv
  <2>4. QED
    BY <2>1, <2>2, <2>3
<1>12. TypeOK'
  <2>1. live' \in [Addresses -> Kinds \cup {"free", "foreign"}]
    BY <1>1, <1>3, <1>11
  <2>2. \A u \in Threads : call'[u].at # "idle" => mutex' = u
    BY <1>2, <1>5, <1>7 DEF InCall
  <2>3. QED
    BY <1>2, <1>7, <1>9, <2>1, <2>2 DEF Inv, TypeOK
<1>13. CallInv'
  <2>1. InCall(t)' /\ \A u \in Threads : InCall(u)' => u = t
    BY <1>5, <1>7, <1>8 DEF InCall
  <2>2. FoundInv(t)'
    BY <1>2, <1>4, <1>8, <1>9 DEF FoundInv
  <2>3. Got(t)' => /\ live'[q] \in Kinds
                   /\ q # c.ptr => \A i \in Active : Ptr(i) # q
    <3>1. SUFFICES ASSUME q # None
                   PROVE  /\ live'[q] \in Kinds
                          /\ q # c.ptr => \A i \in Active : Ptr(i) # q
      BY <1>8 DEF Got
    <3>2. live'[q] = c.kind
      BY <1>1, <1>6, <3>1
    <3>3. q # c.ptr => q \notin Live
      BY <1>6, <1>11, <3>1 DEF Live
    <3>4. QED
      BY <1>10, <1>11, <3>1, <3>2, <3>3
  <2>4. GivenBack(t)' => live'[c.ptr] \notin Kinds
    <3>1. c.ptr \in Addresses \cup {None}
      BY <1>3 DEF Call
    <3>2. QED
      BY <1>1, <1>8, <1>11, <3>1 DEF GivenBack
  <2>5. BlockInv(t)'
    BY <1>2, <1>4, <1>6, <1>8, <1>9, <2>3, <2>4 DEF BlockInv, Got
  <2>6. QED
    BY <1>2, <1>5, <2>1, <2>2, <2>5 DEF CallInv
<1>14. EntryInv'
  <2>1. \A i, j \in Active : Ptr(i) = Ptr(j) => i = j
    BY DEF Inv, EntryInv
  <2>2. ASSUME NEW i \in Active, ~(Ptr(i) \in Live')
        PROVE  GivenBack(t)' /\ Ptr(i) = c.ptr
    <3>1. Ptr(i) \in Addresses /\ live[Ptr(i)] \in Kinds /\ live'[Ptr(i)] \notin Kinds
      BY <1>10, <2>2 DEF Live
    <3>2. QED
      BY <1>1, <1>8, <1>11, <3>1, NoneIsNoSlot DEF GivenBack
  <2>3. QED
    BY <1>8, <1>9, <2>1, <2>2 DEF EntryInv
<1>15. MissInv'
  <2>1. ASSUME ~refused, NEW a \in Live', a # q
        PROVE  \E i \in Active : Ptr(i) = a
    <3>1. a \in Live
      BY <1>1, <1>11, <2>1 DEF Live
    <3>2. QED
      BY <1>10, <2>1, <3>1
  <2>2. q \in Live' => Got(t)'
    BY <1>8, NoneIsNoSlot DEF Got, Live
  <2>3. QED
    BY <1>2, <1>8, <1>9, <2>1, <2>2 DEF MissInv
<1>16. IdInv'
  BY <1>2 DEF Inv, IdInv, Active, is_active_allocation_slot_free
<1>17. QED
  BY <1>12, <1>13, <1>14, <1>15, <1>16 DEF Inv

-----------------------------------------------------------------------------
(* The table is written and the mutex given back *)

\* What every call that unlocks makes of the variables that are not the table.
LEMMA Unlocked ==
    ASSUME Inv, NEW t \in Threads, InCall(t), Unlock(t)
    PROVE  /\ mutex' = None
           /\ call' \in [Threads -> Call]
           /\ \A u \in Threads : ~InCall(u)' /\ ~Got(u)' /\ ~GivenBack(u)'
           /\ CallInv'
<1>1. mutex' = None /\ call' = [call EXCEPT ![t] = Idle]
  BY DEF Unlock
<1>2. call \in [Threads -> Call] /\ Idle \in Call
  BY DEF Inv, TypeOK, Call, Idle, Kinds
<1>3. \A u \in Threads : ~InCall(u)'
  BY <1>1, <1>2, OneCall DEF Inv, InCall, Idle
<1>4. \A u \in Threads : ~Got(u)' /\ ~GivenBack(u)'
  BY <1>3 DEF InCall, Got, GivenBack
<1>5. QED
  BY <1>1, <1>2, <1>3, <1>4 DEF CallInv

\* A call that got nothing changes nothing.
LEMMA NothingGot ==
    ASSUME Inv, NEW t \in Threads, call[t].at = "table",
           call[t].op # "release", call[t].got = None,
           TableUnchanged, Unlock(t), UNCHANGED <<live, crashed>>
    PROVE  Inv'
<1>1. InCall(t)
  BY DEF InCall
<1>2. \A u \in Threads : ~Got(u) /\ ~GivenBack(u)
  BY <1>1, OneCall DEF Inv, Got, GivenBack
<1>3. /\ UNCHANGED <<active_allocations, current_allocation_id, refused, live, crashed>>
      /\ mutex' = None
      /\ call' \in [Threads -> Call]
      /\ \A u \in Threads : ~InCall(u)'
      /\ CallInv'
  BY <1>1, Unlocked DEF TableUnchanged
<1>4. TypeOK'
  BY <1>3 DEF Inv, TypeOK, Active, InCall
<1>5. EntryInv' /\ MissInv'
  BY <1>2, <1>3 DEF Inv, EntryInv, MissInv, Active, Live, Ptr
<1>6. IdInv'
  BY <1>3 DEF Inv, IdInv, Active, is_active_allocation_slot_free
<1>7. QED
  BY <1>3, <1>4, <1>5, <1>6 DEF Inv

\* The entries of the blocks a call does not release are of live blocks.
LEMMA OtherEntries ==
    ASSUME Inv, NEW t \in Threads, InCall(t),
           NEW i \in Active, i # call[t].found
    PROVE  Ptr(i) \in Live /\ Ptr(i) # call[t].ptr
<1>1. FoundInv(t)
  BY DEF Inv, CallInv
<1>2. Ptr(i) # call[t].ptr
  BY <1>1 DEF Inv, EntryInv, FoundInv
<1>3. \A u \in Threads : GivenBack(u) => u = t
  BY OneCall DEF Inv
<1>4. QED
  BY <1>2, <1>3 DEF Inv, EntryInv

\* An entry for a new block: of table, which is the table without the entry
\* of a block that was moved.
LEMMA AddKeeps ==
    ASSUME Inv, NEW t \in Threads, Got(t), call[t].op # "release",
           NEW table \in [Slots -> Allocation],
           \A i \in Slots :
              /\ table[i].ptr = active_allocations[i].ptr
              /\ table[i].id = active_allocations[i].id
              /\ table[i].active <=> i \in Active /\ i # call[t].found
              /\ table[i].active => table[i].reallocated_to = None,
           current_allocation_id = 0 => table = active_allocations,
           add_allocation(table, call[t].got), Unlock(t),
           UNCHANGED <<live, crashed>>
    PROVE  Inv'
<1> DEFINE got == call[t].got
           cur == current_allocation_id
           free == {j \in Slots : is_active_allocation_slot_free(table[j])}
           i == First(free)
<1>1. /\ InCall(t)
      /\ \A u \in Threads : Got(u) \/ GivenBack(u) => u = t
  BY OneCall DEF Inv, InCall, Got
<1>2. /\ FoundInv(t)
      /\ BlockInv(t)
      /\ call[t] \in Call
  BY <1>1 DEF Inv, CallInv, TypeOK
<1>3. /\ got \in Addresses
      /\ got \in Live
      /\ got # call[t].ptr => \A j \in Active : Ptr(j) # got
  BY <1>2 DEF BlockInv, Got, Live, Call
<1>4. /\ mutex' = None
      /\ call' \in [Threads -> Call]
      /\ \A u \in Threads : ~InCall(u)' /\ ~Got(u)' /\ ~GivenBack(u)'
      /\ CallInv'
      /\ live' = live /\ crashed' = crashed
      /\ Live' = Live
  BY <1>1, Unlocked DEF Live
<1>5. cur \in Nat /\ cur < MaxIds
  BY <1>2, TrackerAssumption DEF Inv, TypeOK, BlockInv, Call
<1>6. /\ free = {} => i = None
      /\ free # {} => i \in free /\ (\A j \in free : i <= j) /\ i # None
  <2>1. free \in SUBSET Slots
    OBVIOUS
  <2> HIDE DEF free
  <2>2. QED
    BY <2>1, FirstIs, NoneIsNoSlot
<1>7. /\ active_allocations' = IF i = None THEN table
                               ELSE [table EXCEPT ![i] =
                                       [ptr |-> got, active |-> TRUE, id |-> cur,
                                        reallocated_to |-> None]]
      /\ current_allocation_id' = cur + (IF i = None THEN 0 ELSE 1)
      /\ refused' = (refused \/ i = None)
  BY DEF add_allocation
<1>8. \A j \in Active : j # call[t].found =>
         j \in Slots /\ Ptr(j) \in Live /\ Ptr(j) # got
  BY <1>1, <1>3, OtherEntries DEF Active
<1>9. /\ \A j, k \in Active : Ptr(j) = Ptr(k) => j = k
      /\ IdInv
      /\ refused \in BOOLEAN /\ crashed \in BOOLEAN
      /\ live \in [Addresses -> Kinds \cup {"free", "foreign"}]
  BY DEF Inv, EntryInv, TypeOK
<1>12. \A j \in Slots : active_allocations[j].id < cur
                          \/ (cur = 0 /\ active_allocations[j].id = 0)
  <2>1. IdInv
    BY <1>9
  <2>2. QED
    BY <2>1 DEF IdInv
<1> DEFINE kept == {j \in Active : j # call[t].found}
<1>13. kept = {j \in Slots : table[j].active}
  <2>1. \A j : j \in Active => j \in Slots
    BY DEF Active
  <2>2. QED
    BY <2>1
<1>14. \A j \in kept : table[j].reallocated_to = None /\ j \in Slots /\ j \in Active
  BY <1>13
<1> HIDE DEF i, free
<1>10. CASE i = None
  <2>1. /\ active_allocations' = table
        /\ current_allocation_id' = cur
        /\ refused' = TRUE
    <3>1. active_allocations' = table
      BY <1>7, <1>10
    <3>2. current_allocation_id' = cur
      BY <1>5, <1>7, <1>10
    <3>3. refused' = TRUE
      BY <1>7, <1>10
    <3>4. QED
      BY <3>1, <3>2, <3>3
  <2>2. /\ Active' = kept
        /\ \A j \in Active' : j \in Slots /\ Ptr(j)' = Ptr(j)
    <3>1. Active' = kept
      BY <1>13, <2>1 DEF Active
    <3>2. QED
      BY <1>14, <2>1, <3>1 DEF Ptr
  <2>3. TypeOK'
    <3>1. \A j \in Active' : active_allocations'[j].reallocated_to = None
      BY <1>14, <2>1, <2>2
    <3>2. cur \in 0 .. MaxIds
      BY DEF Inv, TypeOK
    <3>3. refused' \in BOOLEAN
      BY <2>1
    <3>4. \A u \in Threads : call'[u].at # "idle" => mutex' = u
      BY <1>4 DEF InCall
    <3>5. QED
      BY <1>4, <1>9, <2>1, <3>1, <3>2, <3>3, <3>4 DEF TypeOK
  <2>4. EntryInv'
    BY <1>4, <1>8, <1>9, <2>2 DEF EntryInv
  <2>5. MissInv'
    BY <2>1 DEF MissInv
  <2>6. IdInv'
    <3>1. \A j \in Slots : active_allocations'[j].id = active_allocations[j].id
      BY <2>1
    <3>2. QED
      BY <1>9, <2>1, <2>2, <3>1 DEF IdInv, Active
  <2>7. QED
    BY <1>4, <2>3, <2>4, <2>5, <2>6 DEF Inv
<1>11. CASE i # None
  <2>1. /\ i \in Slots
        /\ ~table[i].active
        /\ \A j \in free : i <= j
    <3>1. i \in free /\ \A j \in free : i <= j
      BY <1>6, <1>11
    <3>2. QED
      BY <3>1 DEF free, is_active_allocation_slot_free
  <2>2. /\ active_allocations'[i] = [ptr |-> got, active |-> TRUE, id |-> cur,
                                     reallocated_to |-> None]
        /\ \A j \in Slots : j # i => active_allocations'[j] = table[j]
        /\ current_allocation_id' = cur + 1
        /\ refused' = refused
    BY <1>7, <1>9, <1>11, <2>1
  <2>3. Active' = kept \cup {i} /\ i \notin kept
    <3>1. i \notin kept
      BY <1>13, <2>1
    <3>2. \A j \in Slots : j # i =>
             (active_allocations'[j].active <=> table[j].active)
      BY <2>2
    <3>3. active_allocations'[i].active
      BY <2>2
    <3>4. \A j \in Slots : j \in Active' <=> j \in kept \cup {i}
      BY <1>13, <3>2, <3>3 DEF Active
    <3>5. QED
      BY <1>14, <2>1, <3>1, <3>4 DEF Active
  <2>4. /\ Ptr(i)' = got
        /\ \A j \in Slots : j # i => Ptr(j)' = Ptr(j)
    BY <2>2 DEF Ptr
  <2>5. TypeOK'
    <3>1. cur \in 0 .. MaxIds /\ cur + 1 \in 0 .. MaxIds
      BY <1>5, TrackerAssumption
    <3>2. [ptr |-> got, active |-> TRUE, id |-> cur, reallocated_to |-> None]
             \in Allocation
      BY <1>3, <3>1 DEF Allocation
    <3>3. active_allocations' \in [Slots -> Allocation]
      BY <1>7, <1>11, <2>1, <3>2
    <3>4. \A j \in Active' : active_allocations'[j].reallocated_to = None
      BY <1>14, <2>2, <2>3
    <3>5. \A u \in Threads : call'[u].at # "idle" => mutex' = u
      BY <1>4 DEF InCall
    <3>6. QED
      BY <1>4, <1>9, <2>2, <3>1, <3>3, <3>4, <3>5 DEF TypeOK
  <2>6. EntryInv'
    <3>1. ASSUME NEW j \in Active', NEW k \in Active', Ptr(j)' = Ptr(k)'
          PROVE  j = k
      BY <1>8, <1>9, <2>3, <2>4, <3>1
    <3>2. ASSUME NEW j \in Active'
          PROVE  Ptr(j)' \in Live'
      BY <1>3, <1>4, <1>8, <2>3, <2>4
    <3>3. QED
      BY <3>1, <3>2 DEF EntryInv
  <2>7. MissInv'
    <3>1. SUFFICES ASSUME ~refused, NEW a \in Live
                   PROVE  \E j \in Active' : Ptr(j)' = a
      BY <1>4, <2>2 DEF MissInv
    <3>2. CASE a = got
      BY <2>3, <2>4, <3>2
    <3>3. CASE a # got
      <4>1. PICK j \in Active : Ptr(j) = a
        BY <1>1, <3>1, <3>3 DEF Inv, MissInv
      <4>2. j # call[t].found
        <5>1. SUFFICES ASSUME j = call[t].found PROVE FALSE
          OBVIOUS
        <5>2. call[t].ptr = a
          BY <1>2, <4>1, <5>1, NoneIsNoSlot DEF FoundInv, Active
        <5>3. GivenBack(t)
          BY <3>3, <5>2, NoneIsNoSlot DEF GivenBack, Got, Live
        <5>4. live[a] \notin Kinds
          BY <1>2, <5>2, <5>3 DEF BlockInv
        <5>5. QED
          BY <5>4 DEF Live
      <4>3. QED
        BY <1>8, <2>3, <2>4, <4>1, <4>2
    <3>4. QED
      BY <3>2, <3>3
  <2>8. IdInv'
    <3>1. /\ active_allocations'[i].id = cur
          /\ \A j \in Slots : j # i =>
                active_allocations'[j].id = active_allocations[j].id
      BY <2>2
    <3>2. ASSUME NEW j \in Slots
          PROVE  active_allocations'[j].id < current_allocation_id'
      <4>1. active_allocations[j].id \in Nat
        BY DEF Inv, TypeOK, Allocation
      <4>2. QED
        BY <1>5, <1>12, <2>2, <3>1, <4>1
    <3>3. current_allocation_id' # 0
      BY <1>5, <2>2
    <3>4. ASSUME NEW k \in Active', NEW j \in Slots,
                 active_allocations'[j].id = active_allocations'[k].id
          PROVE  k <= j
      <4>1. i \in Nat /\ j \in Nat
        BY <2>1 DEF Slots
      <4>2. \A n \in Slots : active_allocations[n].id \in Nat
        BY DEF Inv, TypeOK, Allocation
      <4>3. CASE cur = 0
        <5>1. Active = {} /\ free = Slots
          <6>1. \A n \in Slots :
                   is_active_allocation_slot_free(active_allocations[n])
            BY <1>9, <4>3 DEF IdInv
          <6>2. Active = {}
            BY <6>1 DEF Active, is_active_allocation_slot_free
          <6>3. free = Slots
            BY <4>3, <6>1 DEF free
          <6>4. QED
            BY <6>2, <6>3
        <5>2. QED
          BY <2>1, <2>3, <5>1
      <4>4. CASE cur # 0
        <5>1. \A n \in Slots : active_allocations[n].id # cur
          BY <1>5, <1>12, <4>2, <4>4
        <5>2. CASE k = i
          <6>1. j = i
            BY <3>1, <3>4, <5>1, <5>2
          <6>2. QED
            BY <4>1, <5>2, <6>1
        <5>3. CASE k # i
          <6>1. k \in Active
            BY <1>14, <2>3, <5>3
          <6>2. k \in Slots /\ active_allocations'[k].id = active_allocations[k].id
            BY <3>1, <5>3, <6>1 DEF Active
          <6>3. j # i /\ active_allocations[j].id = active_allocations[k].id
            BY <3>1, <3>4, <5>1, <6>2
          <6>4. QED
            BY <1>9, <6>1, <6>3 DEF IdInv
        <5>4. QED
          BY <5>2, <5>3
      <4>5. QED
        BY <4>3, <4>4
    <3>5. QED
      BY <3>2, <3>3, <3>4 DEF IdInv
  <2>9. QED
    BY <1>4, <2>5, <2>6, <2>7, <2>8 DEF Inv
<1>15. QED
  BY <1>10, <1>11

\* The end of mrd_malloc, mrd_calloc and mrd_mmap.
LEMMA RecordAllocationKeeps ==
    ASSUME Inv, NEW t \in Threads, RecordAllocation(t)
    PROVE  Inv'
<1>1. /\ call[t].at = "table" /\ call[t].op = "alloc"
      /\ Unlock(t)
      /\ UNCHANGED <<live, crashed>>
      /\ active_allocations \in [Slots -> Allocation]
  BY DEF RecordAllocation, Returning, Inv, TypeOK
<1>2. CASE call[t].got = None
  <2>1. TableUnchanged
    BY <1>2 DEF RecordAllocation
  <2>2. QED
    BY <1>1, <1>2, <2>1, NothingGot
<1>3. CASE call[t].got # None
  <2>1. /\ add_allocation(active_allocations, call[t].got)
        /\ Got(t)
        /\ InCall(t)
    BY <1>1, <1>3 DEF RecordAllocation, Got, InCall
  <2>2. call[t].found = None
    <3>1. FoundInv(t) /\ BlockInv(t)
      BY <2>1 DEF Inv, CallInv
    <3>2. call[t].ptr = None
      BY <1>1, <3>1 DEF BlockInv
    <3>3. QED
      BY <3>1, <3>2, ActivePtr, NoneIsNoSlot DEF FoundInv
  <2>3. \A i \in Active : i # call[t].found /\ i \in Slots
                          /\ active_allocations[i].reallocated_to = None
    BY <2>2, NoneIsNoSlot DEF Active, Inv, TypeOK
  <2>4. \A i \in Slots :
           /\ active_allocations[i].active <=> i \in Active /\ i # call[t].found
           /\ active_allocations[i].active =>
                 active_allocations[i].reallocated_to = None
    <3>1. \A i \in Slots : active_allocations[i].active <=> i \in Active
      BY DEF Active
    <3>2. QED
      BY <2>3, <3>1
  <2>5. call[t].op # "release"
    BY <1>1
  <2>6. QED
    BY <1>1, <2>1, <2>4, <2>5, AddKeeps
<1>4. QED
  BY <1>2, <1>3

\* The end of mrd_realloc.
LEMMA RecordReallocKeeps ==
    ASSUME Inv, NEW t \in Threads, RecordRealloc(t)
    PROVE  Inv'
<1>1. /\ call[t].at = "table" /\ call[t].op = "realloc"
      /\ Unlock(t)
      /\ UNCHANGED <<live, crashed>>
      /\ active_allocations \in [Slots -> Allocation]
  BY DEF RecordRealloc, Returning, Inv, TypeOK
<1>2. CASE call[t].got = None
  <2>1. TableUnchanged
    BY <1>2 DEF RecordRealloc
  <2>2. QED
    BY <1>1, <1>2, <2>1, NothingGot
<1>3. CASE call[t].got # None
  <2> DEFINE found == call[t].found
             ptr == call[t].ptr
             got == call[t].got
             table == Move(active_allocations, found, ptr, got)
  <2>1. add_allocation(table, got) /\ Got(t) /\ InCall(t)
    BY <1>1, <1>3 DEF RecordRealloc, Got, InCall
  <2>2. /\ found # None => found \in Active
        /\ call[t] \in Call
        /\ IdInv
        /\ \A i \in Active : active_allocations[i].reallocated_to = None
    BY <2>1 DEF Inv, CallInv, FoundInv, TypeOK
  <2>3. \A i \in Slots : active_allocations[i].active <=> i \in Active
    BY DEF Active
  <2>4. got \in Addresses \cup {None} /\ ptr \in Addresses \cup {None}
    BY <2>2 DEF Call
  <2> HIDE DEF found, ptr, got
  <2>5. /\ table \in [Slots -> Allocation]
        /\ \A i \in Slots :
              /\ table[i].ptr = active_allocations[i].ptr
              /\ table[i].id = active_allocations[i].id
              /\ table[i].active <=> i \in Active /\ i # found
              /\ table[i].active => table[i].reallocated_to = None
    <3>1. CASE found = None
      <4>1. table = active_allocations
        BY <3>1 DEF Move
      <4>2. \A i \in Slots : i # found
        BY <3>1, NoneIsNoSlot
      <4>3. QED
        BY <1>1, <2>2, <2>3, <4>1, <4>2
    <3>2. CASE found # None
      <4>1. table = [active_allocations EXCEPT
                       ![found].active = FALSE,
                       ![found].reallocated_to = IF got = ptr THEN @ ELSE got]
        BY <3>2 DEF Move
      <4>2. found \in Slots
        BY <2>2, <3>2 DEF Active
      <4>3. \A i \in Slots : i # found => table[i] = active_allocations[i]
        BY <1>1, <4>1, <4>2
      <4>4. table[found] = [active_allocations[found] EXCEPT
                              !.active = FALSE,
                              !.reallocated_to = IF got = ptr THEN @ ELSE got]
        BY <1>1, <4>1, <4>2
      <4>5. active_allocations[found] \in Allocation
        BY <1>1, <4>2
      <4>6. /\ table[found].ptr = active_allocations[found].ptr
            /\ table[found].id = active_allocations[found].id
            /\ ~table[found].active
        BY <4>4, <4>5 DEF Allocation
      <4>7. table \in [Slots -> Allocation]
        BY <1>1, <2>4, <4>1, <4>2 DEF Allocation
      <4>8. \A i \in Slots :
               /\ table[i].ptr = active_allocations[i].ptr
               /\ table[i].id = active_allocations[i].id
        BY <4>3, <4>6
      <4>9. \A i \in Slots : table[i].active <=> i \in Active /\ i # found
        BY <2>3, <4>3, <4>6
      <4>10. \A i \in Slots : table[i].active => table[i].reallocated_to = None
        BY <2>2, <2>3, <4>3, <4>6
      <4> HIDE DEF table
      <4>11. QED
        BY <4>7, <4>8, <4>9, <4>10
    <3>3. QED
      BY <3>1, <3>2
  <2>6. current_allocation_id = 0 => table = active_allocations
    <3>1. SUFFICES ASSUME current_allocation_id = 0
                   PROVE  table = active_allocations
      OBVIOUS
    <3>2. \A i \in Slots : ~active_allocations[i].active
      BY <2>2, <3>1 DEF IdInv, is_active_allocation_slot_free
    <3>3. found = None
      BY <2>2, <3>2 DEF Active
    <3>4. QED
      BY <3>3 DEF Move
  <2>7. call[t].op # "release"
    BY <1>1
  <2> HIDE DEF table
  <2>8. QED
    BY <1>1, <2>1, <2>5, <2>6, <2>7, AddKeeps DEF found, got
<1>4. QED
  BY <1>2, <1>3

\* The end of mrd_free and mrd_munmap, with or without the crash.
LEMMA RecordReleaseKeeps ==
    ASSUME Inv, NEW t \in Threads, RecordRelease(t)
    PROVE  Inv'
<1> DEFINE i == call[t].found
<1>1. /\ call[t].at = "table" /\ call[t].op = "release"
      /\ InCall(t)
      /\ UNCHANGED <<live, current_allocation_id, refused>>
  BY DEF RecordRelease, Returning, InCall
<1>2. CASE i = None
  <2>1. /\ UNCHANGED <<mutex, call, active_allocations>>
        /\ crashed' = TRUE
    BY <1>2 DEF RecordRelease
  <2>2. TypeOK'
    BY <1>1, <2>1 DEF Inv, TypeOK, Active
  <2>3. CallInv' /\ EntryInv' /\ MissInv' /\ IdInv'
    BY <1>1, <2>1 DEF Inv, CallInv, EntryInv, MissInv, IdInv, InCall, FoundInv,
                      BlockInv, Got, GivenBack, Active, Live, Ptr,
                      is_active_allocation_slot_free
  <2>4. QED
    BY <2>2, <2>3 DEF Inv
<1>3. CASE i # None
  <2>1. /\ active_allocations' = [active_allocations EXCEPT ![i].active = FALSE]
        /\ Unlock(t)
        /\ crashed' = crashed
    BY <1>3 DEF RecordRelease
  <2>2. /\ FoundInv(t) /\ BlockInv(t)
        /\ TypeOK /\ EntryInv /\ MissInv /\ IdInv
    BY <1>1 DEF Inv, CallInv
  <2>3. i \in Active /\ i \in Slots /\ Ptr(i) = call[t].ptr
    BY <1>3, <2>2 DEF FoundInv, Active
  <2>4. live[call[t].ptr] \notin Kinds /\ call[t].got = None
    <3>1. call[t].got = None
      BY <1>1, <2>2 DEF BlockInv
    <3>2. call[t].ptr # None
      BY <2>3, ActivePtr, NoneIsNoSlot
    <3>3. GivenBack(t)
      BY <1>1, <3>1, <3>2 DEF GivenBack
    <3>4. QED
      BY <2>2, <3>1, <3>3 DEF BlockInv
  <2>5. /\ active_allocations \in [Slots -> Allocation]
        /\ active_allocations' \in [Slots -> Allocation]
        /\ active_allocations'[i] = [active_allocations[i] EXCEPT !.active = FALSE]
        /\ \A j \in Slots : j # i => active_allocations'[j] = active_allocations[j]
    <3>1. active_allocations \in [Slots -> Allocation]
      BY <2>2 DEF TypeOK
    <3>2. QED
      BY <2>1, <2>3, <3>1 DEF Allocation
  <2>6. \A j \in Slots :
           /\ active_allocations'[j].ptr = active_allocations[j].ptr
           /\ active_allocations'[j].id = active_allocations[j].id
           /\ active_allocations'[j].reallocated_to = active_allocations[j].reallocated_to
           /\ active_allocations'[j].active <=> active_allocations[j].active /\ j # i
    <3>1. active_allocations[i] \in Allocation
      BY <2>3, <2>5
    <3>2. /\ active_allocations'[i].ptr = active_allocations[i].ptr
          /\ active_allocations'[i].id = active_allocations[i].id
          /\ active_allocations'[i].reallocated_to = active_allocations[i].reallocated_to
          /\ ~active_allocations'[i].active
      BY <2>5, <3>1 DEF Allocation
    <3>3. QED
      BY <2>5, <3>2
  <2>7. \A j : j \in Active' <=> j \in Active /\ j # i
    BY <2>6 DEF Active
  <2>8. \A j \in Slots : Ptr(j)' = Ptr(j)
    BY <2>6 DEF Ptr
  <2>9. /\ mutex' = None
        /\ call' \in [Threads -> Call]
        /\ \A u \in Threads : ~InCall(u)' /\ ~Got(u)' /\ ~GivenBack(u)'
        /\ CallInv'
    BY <1>1, <2>1, Unlocked
  <2>10. \A j \in Active : j \in Slots
    BY DEF Active
  <2>11. Live' = Live
    BY <1>1 DEF Live
  <2>12. TypeOK'
    <3>1. \A j \in Active' : active_allocations'[j].reallocated_to = None
      BY <2>2, <2>6, <2>7, <2>10 DEF TypeOK
    <3>2. \A u \in Threads : call'[u].at # "idle" => mutex' = u
      BY <2>9 DEF InCall
    <3>3. QED
      BY <1>1, <2>1, <2>2, <2>5, <2>9, <3>1, <3>2 DEF TypeOK
  <2>13. EntryInv'
    <3>1. \A j, k \in Active' : Ptr(j)' = Ptr(k)' => j = k
      BY <2>2, <2>7, <2>8, <2>10 DEF EntryInv
    <3>2. \A j \in Active' : Ptr(j)' \in Live'
      BY <1>1, <2>7, <2>8, <2>10, <2>11, OtherEntries
    <3>3. QED
      BY <3>1, <3>2 DEF EntryInv
  <2>14. MissInv'
    <3>1. SUFFICES ASSUME ~refused, NEW a \in Live
                   PROVE  \E j \in Active' : Ptr(j)' = a
      BY <1>1, <2>11 DEF MissInv
    <3>2. \A u \in Threads : ~Got(u)
      BY <1>1, <2>4, OneCall DEF Got, Inv
    <3>3. PICK j \in Active : Ptr(j) = a
      BY <2>2, <3>1, <3>2 DEF MissInv
    <3>4. j # i
      BY <2>3, <2>4, <3>1, <3>3 DEF Live
    <3>5. QED
      BY <2>7, <2>8, <2>10, <3>3, <3>4
  <2>15. IdInv'
    <3>1. \A j \in Slots : active_allocations'[j].id = active_allocations[j].id
      BY <2>6
    <3>2. \A j \in Slots :
             is_active_allocation_slot_free(active_allocations[j])
                => is_active_allocation_slot_free(active_allocations'[j])
      BY <2>6 DEF is_active_allocation_slot_free
    <3>3. QED
      BY <1>1, <2>2, <2>7, <2>10, <3>1, <3>2 DEF IdInv
  <2>16. QED
    BY <2>9, <2>12, <2>13, <2>14, <2>15 DEF Inv
<1>4. QED
  BY <1>2, <1>3

\* getline takes a block that no entry is of, but for the one that a call
\* has just given back.
LEMMA GetlineKeeps ==
    ASSUME Inv, NEW t \in Threads, Getline(t)
    PROVE  Inv'
<1>1. PICK a \in Blocks("free") : live' = [live EXCEPT ![a] = "foreign"]
  BY DEF Getline
<1>2. UNCHANGED <<active_allocations, current_allocation_id, refused, mutex, call,
                  crashed>>
  BY DEF Getline, TableUnchanged
<1>3. /\ live \in [Addresses -> Kinds \cup {"free", "foreign"}]
      /\ a \in Addresses /\ live[a] = "free"
      /\ "free" \notin Kinds /\ "foreign" \notin Kinds
  BY DEF Inv, TypeOK, Blocks, Kinds
<1>4. /\ live' \in [Addresses -> Kinds \cup {"free", "foreign"}]
      /\ \A b \in Addresses : b # a => live'[b] = live[b]
      /\ \A b \in Addresses : live'[b] \in Kinds <=> live[b] \in Kinds
  BY <1>1, <1>3
<1>5. Live' = Live
  BY <1>4 DEF Live
<1>6. TypeOK'
  BY <1>2, <1>4 DEF Inv, TypeOK, Active
<1>7. CallInv'
  <2>1. ASSUME NEW u \in Threads, InCall(u)
        PROVE  BlockInv(u)'
    <3>1. /\ BlockInv(u) /\ call[u] \in Call
      BY <2>1 DEF Inv, CallInv, TypeOK
    <3>2. /\ call[u].ptr \in Addresses \cup {None}
          /\ call[u].got \in Addresses \cup {None}
          /\ call[u].kind \in Kinds \cup {"foreign"}
      BY <3>1 DEF Call
    <3>3. call[u].at = "libc" /\ call[u].ptr # None
             => live'[call[u].ptr] = call[u].kind
      BY <1>3, <1>4, <3>1, <3>2 DEF BlockInv
    <3>4. Got(u) => live'[call[u].got] \in Kinds
      BY <1>4, <3>1, <3>2 DEF BlockInv, Got
    <3>5. GivenBack(u) => live'[call[u].ptr] \notin Kinds
      BY <1>4, <3>1, <3>2 DEF BlockInv, GivenBack
    <3>6. QED
      BY <1>2, <3>1, <3>3, <3>4, <3>5 DEF BlockInv, Got, GivenBack, Active, Ptr
  <2>2. ASSUME NEW u \in Threads, FoundInv(u)
        PROVE  FoundInv(u)'
    BY <1>2, <2>2 DEF FoundInv, Active, Ptr
  <2>3. QED
    BY <1>2, <2>1, <2>2 DEF Inv, CallInv, InCall
<1>8. EntryInv' /\ MissInv' /\ IdInv'
  BY <1>2, <1>5 DEF Inv, EntryInv, MissInv, IdInv, Got, GivenBack, Active, Ptr,
                    is_active_allocation_slot_free
<1>9. QED
  BY <1>6, <1>7, <1>8 DEF Inv

\* The crash in the log leaves the rest.
LEMMA LogCommandKeeps ==
    ASSUME Inv, NEW t \in Threads, LogCommand(t)
    PROVE  Inv'
<1>1. /\ UNCHANGED <<active_allocations, current_allocation_id, refused, mutex, call,
                     live>>
      /\ crashed' = TRUE
  BY DEF LogCommand, TableUnchanged
<1>2. TypeOK'
  BY <1>1 DEF Inv, TypeOK, Active
<1>3. CallInv' /\ EntryInv' /\ MissInv' /\ IdInv'
  BY <1>1 DEF Inv, CallInv, EntryInv, MissInv, IdInv, InCall, FoundInv, BlockInv, Got,
              GivenBack, Active, Live, Ptr, is_active_allocation_slot_free
<1>4. QED
  BY <1>2, <1>3 DEF Inv

\* A step that changes nothing.
LEMMA StutterKeeps ==
    ASSUME Inv, UNCHANGED vars
    PROVE  Inv'
<1>1. TypeOK'
  BY DEF Inv, TypeOK, Active, vars
<1>2. CallInv' /\ EntryInv' /\ MissInv' /\ IdInv'
  BY DEF Inv, CallInv, EntryInv, MissInv, IdInv, InCall, FoundInv, BlockInv, Got,
         GivenBack, Active, Live, Ptr, is_active_allocation_slot_free, vars
<1>3. QED
  BY <1>1, <1>2 DEF Inv

-----------------------------------------------------------------------------
(* What follows of every behaviour *)

\* The invariant is inductive: every step of every thread keeps it.
LEMMA AlwaysInv == Spec => []Inv
<1>1. Inv /\ [Next]_vars => Inv'
  <2> SUFFICES ASSUME Inv, [Next]_vars PROVE Inv'
    OBVIOUS
  <2>1. CASE UNCHANGED vars
    BY <2>1, StutterKeeps
  <2>2. CASE Next
    <3>1. PICK t \in Threads :
             \/ Allocate(t) \/ Reallocate(t) \/ Release(t)
             \/ Getline(t) \/ LogCommand(t) \/ Library(t)
             \/ RecordAllocation(t) \/ RecordRealloc(t) \/ RecordRelease(t)
      BY <2>2 DEF Next
    <3>2. QED
      BY <3>1, CallBegins, GetlineKeeps, LogCommandKeeps, LibraryKeeps,
         RecordAllocationKeeps, RecordReallocKeeps, RecordReleaseKeeps
  <2>3. QED
    BY <2>1, <2>2
<1>2. QED
  BY <1>1, Initially, PTL DEF Spec

(* Every variable keeps its type, a slot is never an entry and a reminder  *)
(* of a move at once, and a thread inside a call of mrd_debug.c holds the  *)
(* mutex.                                                                  *)
THEOREM TypeCorrect == Spec => []TypeOK
<1>1. Inv => TypeOK
  BY DEF Inv
<1>2. QED
  BY <1>1, AlwaysInv, PTL

(* Between calls the table never counts a block that is gone, and never    *)
(* counts one twice, however many threads allocate, move and free.         *)
THEOREM EntriesAlwaysLive == Spec => []EntriesAreLive
<1>1. Inv => EntriesAreLive
  <2> SUFFICES ASSUME Inv, mutex = None
               PROVE  /\ \A i \in Active : Ptr(i) \in Live
                      /\ \A i, j \in Active : Ptr(i) = Ptr(j) => i = j
    BY DEF EntriesAreLive, Ptr
  <2>1. QED
    BY Between DEF Inv, EntryInv
<1>2. QED
  BY <1>1, AlwaysInv, PTL

(* Between calls, as long as add_allocation found a slot for every entry,  *)
(* every live block that the tracker handed out is in the table: a dump of *)
(* 0 entries is no leak of one of those.                                   *)
THEOREM NothingEverMissed == Spec => []NothingIsMissed
<1>1. Inv => NothingIsMissed
  <2> SUFFICES ASSUME Inv, mutex = None, ~refused, NEW a \in Live
               PROVE  \E i \in Active : Ptr(i) = a
    BY DEF NothingIsMissed, Ptr
  <2>1. QED
    BY Between
<1>2. QED
  BY <1>1, AlwaysInv, PTL

(* mrd_inspect_allocation finds the active entry whose id it is given,     *)
(* although the slots never written have an id of 0 as well and the slots  *)
(* no longer active keep theirs: no slot before an active one has its id.  *)
THEOREM InspectAlwaysFinds == Spec => []InspectFindsTheEntry
<1>1. Inv => InspectFindsTheEntry
  <2> SUFFICES ASSUME Inv, NEW i \in Active
               PROVE  i = First({j \in Slots :
                            active_allocations[j].id = active_allocations[i].id})
    BY DEF InspectFindsTheEntry
  <2> DEFINE S == {j \in Slots : active_allocations[j].id = active_allocations[i].id}
  <2>1. i \in S /\ S \in SUBSET Slots
    BY DEF Active
  <2>2. \A j \in S : i <= j
    BY DEF Inv, IdInv
  <2> HIDE DEF S
  <2>3. First(S) \in S /\ First(S) <= i
    BY <2>1, FirstIs
  <2>4. i \in Nat /\ First(S) \in Nat
    <3>1. Slots \subseteq Nat
      BY DEF Slots
    <3>2. First(S) \in Slots /\ i \in Slots
      BY <2>1, <2>3
    <3>3. QED
      BY <3>1, <3>2
  <2>5. QED
    BY <2>2, <2>3, <2>4 DEF S
<1>2. QED
  BY <1>1, AlwaysInv, PTL

(* As long as no entry was refused, no call crashes over a block that the  *)
(* tracker handed out: its entry is found, so allocation->active = FALSE   *)
(* and the log go through no NULL pointer.  Whether or not one was refused *)
(* no release of NULL or of a block of getline comes back.                 *)
THEOREM OnlyUnknownEverCrashes == Spec => OnlyUnknownCrash
<1>1. ASSUME Inv, [Next]_vars, NEW t \in Threads, mutex = t, crashed', ~crashed,
             call[t].ptr # None, call[t].kind \in Kinds
      PROVE  refused
  <2>1. SUFFICES ASSUME ~refused PROVE FALSE
    OBVIOUS
  <2>2. PICK u \in Threads : /\ RecordRelease(u) \/ LogCommand(u)
                             /\ call[u].found = None
    <3>1. crashed' # crashed
      BY <1>1
    <3>2. PICK u \in Threads :
             \/ Allocate(u) \/ Reallocate(u) \/ Release(u)
             \/ Getline(u) \/ LogCommand(u) \/ Library(u)
             \/ RecordAllocation(u) \/ RecordRealloc(u) \/ RecordRelease(u)
      BY <1>1, <3>1 DEF Next, vars
    <3>3. RecordRelease(u) \/ LogCommand(u)
      BY <3>1, <3>2 DEF Allocate, Reallocate, Release, Getline, Library,
                        RecordAllocation, RecordRealloc
    <3>4. call[u].found = None
      BY <3>1, <3>3 DEF RecordRelease, LogCommand
    <3>5. QED
      BY <3>3, <3>4
  <2>3. InCall(u)
    BY <2>2 DEF RecordRelease, LogCommand, Returning, InCall
  <2>4. u = t
    BY <1>1, <2>3, OneCall DEF Inv
  <2>5. FoundInv(t)
    BY <1>1, <2>3, <2>4 DEF Inv, CallInv
  <2>6. call[t].kind # "foreign"
    BY <1>1 DEF Kinds
  <2>7. QED
    BY <1>1, <2>1, <2>2, <2>4, <2>5, <2>6 DEF FoundInv
<1>2. ASSUME Inv, [Next]_vars, NEW t \in Threads, mutex = t, mutex' = None,
             call[t].op = "release"
      PROVE  call[t].ptr # None /\ call[t].kind \in Kinds
  <2>1. mutex' # mutex
    BY <1>2, NoneIsNoSlot
  <2>2. PICK u \in Threads : /\ \/ RecordAllocation(u) \/ RecordRealloc(u)
                                \/ RecordRelease(u)
                             /\ Unlock(u)
    <3>1. PICK u \in Threads :
             \/ Allocate(u) \/ Reallocate(u) \/ Release(u)
             \/ Getline(u) \/ LogCommand(u) \/ Library(u)
             \/ RecordAllocation(u) \/ RecordRealloc(u) \/ RecordRelease(u)
      BY <1>2, <2>1 DEF Next, vars
    <3>2. \/ RecordAllocation(u) \/ RecordRealloc(u) \/ RecordRelease(u)
      BY <1>2, <2>1, <3>1, NoneIsNoSlot DEF Allocate, Reallocate, Release, Lock,
         Getline, LogCommand, Library
    <3>3. Unlock(u)
      BY <2>1, <3>2 DEF RecordAllocation, RecordRealloc, RecordRelease
    <3>4. QED
      BY <3>2, <3>3
  <2>3. InCall(u)
    BY <2>2 DEF RecordAllocation, RecordRealloc, RecordRelease, Returning, InCall
  <2>4. u = t
    BY <1>2, <2>3, OneCall DEF Inv
  <2>5. RecordRelease(t)
    BY <1>2, <2>2, <2>4 DEF RecordAllocation, RecordRealloc, Returning
  <2>6. call[t].found # None
    BY <2>1, <2>5 DEF RecordRelease
  <2>7. FoundInv(t) /\ call[t] \in Call
    BY <1>2, <2>3, <2>4 DEF Inv, CallInv, TypeOK
  <2>8. call[t].kind # "foreign" /\ call[t].kind \in Kinds \cup {"foreign"}
    BY <2>6, <2>7 DEF FoundInv, Call
  <2>9. call[t].ptr # None
    BY <1>2, <2>6, <2>7, ActivePtr, NoneIsNoSlot DEF FoundInv
  <2>10. QED
    BY <2>8, <2>9
<1>3. Inv /\ [Next]_vars =>
         [\A t \in Threads : mutex = t =>
             LET handed_out == call[t].ptr # None /\ call[t].kind \in Kinds
             IN  /\ crashed' /\ ~crashed /\ handed_out => refused
                 /\ mutex' = None /\ call[t].op = "release" => handed_out]_vars
  BY <1>1, <1>2
<1>4. QED
  BY <1>3, AlwaysInv, PTL DEF Spec, OnlyUnknownCrash

=============================================================================
