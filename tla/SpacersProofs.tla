----------------------------- MODULE SpacersProofs -----------------------------
(***************************************************************************)
(* The proofs for Spacers, for every set of bytes, files, command lines,   *)
(* capacities and numbers of runs: the invariants of the tool, and with    *)
(* them the calls of Vectors and Strings on what the tool makes of them.   *)
(*                                                                         *)
(* The argument for the text: while a file is read the lines in memory are *)
(* its lines (ReadingInv); while it is written each visible character of   *)
(* the lines that are done was handed to the stream, not behind its own    *)
(* place (Moved), so that what is overwritten was moved before, and what   *)
(* was handed over is the trimmed text up to there (Puts).  A place that   *)
(* stays in the trimmed text is found again by its rank among those that   *)
(* stay (Picked).                                                          *)
(***************************************************************************)
EXTENDS Spacers, Loops, FiniteSetTheorems, SequenceTheorems, TLAPS

-----------------------------------------------------------------------------
(* Blocks *)

\* A fresh block holds junk.
LEMMA MallocIs ==
    ASSUME NEW S, Junk \in S, NEW n \in Nat
    PROVE  /\ malloc(n) \in Seq(S)
           /\ Len(malloc(n)) = n
           /\ \A q \in 1..n : malloc(n)[q] = Junk
BY DEF malloc

\* A block of another size keeps the cells that it has room for.
LEMMA ReallocIs ==
    ASSUME NEW S, Junk \in S, NEW block \in Seq(S), NEW n \in Nat
    PROVE  /\ realloc(block, n) \in Seq(S)
           /\ Len(realloc(block, n)) = n
           /\ \A q \in 1..n :
                 realloc(block, n)[q] =
                    IF q <= Len(block) THEN block[q] ELSE Junk
<1>1. \A q \in 1..n :
         (IF q <= Len(block) THEN block[q] ELSE Junk) \in S
  OBVIOUS
<1>2. QED
  BY <1>1 DEF realloc

\* The block after cells are stored in it, from an offset on.
StoredAs(S, after, block, off, cells) ==
    /\ after \in Seq(S)
    /\ Len(after) = Len(block)
    /\ \A q \in 1..Len(block) :
          after[q] = IF off < q /\ q <= off + Len(cells)
                     THEN cells[q - off] ELSE block[q]

\* memcpy into a block.
LEMMA StoredIs ==
    ASSUME NEW S, NEW block \in Seq(S), NEW off \in Nat, NEW cells \in Seq(S)
    PROVE  StoredAs(S, Stored(block, off, cells), block, off, cells)
<1>1. \A q \in 1..Len(block) :
         /\ (q \in (off + 1)..(off + Len(cells))
               <=> off < q /\ q <= off + Len(cells))
         /\ (off < q /\ q <= off + Len(cells)) => cells[q - off] \in S
         /\ block[q] \in S
  OBVIOUS
<1>2. DOMAIN block = 1..Len(block) /\ Len(block) \in Nat
  OBVIOUS
<1>3. QED
  BY <1>1, <1>2 DEF Stored, StoredAs

StoredOneAs(S, after, block, off, cell) ==
    /\ after \in Seq(S)
    /\ Len(after) = Len(block)
    /\ \A q \in 1..Len(block) :
          after[q] = IF q = off + 1 THEN cell ELSE block[q]

\* One cell stored.
LEMMA StoredOneIs ==
    ASSUME NEW S, NEW block \in Seq(S), NEW off \in Nat, NEW cell \in S
    PROVE  StoredOneAs(S, Stored(block, off, <<cell>>), block, off, cell)
<1> DEFINE after == Stored(block, off, <<cell>>)
<1> DEFINE cells == <<cell>>
<1>1. cells \in Seq(S) /\ Len(cells) = 1 /\ cells[1] = cell
  OBVIOUS
<1>2. ASSUME NEW q \in 1..Len(block)
      PROVE  (off < q /\ q <= off + 1 <=> q = off + 1) /\ (off + 1) - off = 1
  OBVIOUS
<1>3. after = Stored(block, off, cells)
  OBVIOUS
<1> HIDE DEF cells, after
<1>4. StoredAs(S, after, block, off, cells)
  BY <1>1, <1>3, StoredIs
<1>5. StoredOneAs(S, after, block, off, cell)
  BY <1>1, <1>2, <1>4 DEF StoredAs, StoredOneAs
<1>6. QED
  BY <1>5 DEF after

-----------------------------------------------------------------------------
(* Vectors *)

VectorsOf(S) == [arr : Seq(S), len : Nat, capacity : Nat, bad : BOOLEAN]

\* The items are in the block, and the capacity too.
Fit(vec) == vec.len <= vec.capacity /\ vec.capacity <= Len(vec.arr) /\ ~vec.bad

\* The items are the cells below the length.
LEMMA ItemsAre ==
    ASSUME NEW S, NEW vec \in VectorsOf(S), vec.len <= Len(vec.arr)
    PROVE  /\ Items(vec) \in Seq(S)
           /\ Len(Items(vec)) = vec.len
           /\ \A q \in 1..vec.len : Items(vec)[q] = vec.arr[q]
<1>1. vec.arr \in Seq(S) /\ vec.len \in Nat
  BY DEF VectorsOf
<1>2. \A q \in 1..vec.len : vec.arr[q] \in S
  BY <1>1
<1>3. QED
  BY <1>1, <1>2, SubSeqProperties DEF Items

\* Two vectors hold the same if the cells below their length do.
LEMMA SameItems ==
    ASSUME NEW S, NEW vec \in VectorsOf(S), vec.len <= Len(vec.arr),
           NEW items \in Seq(S), Len(items) = vec.len,
           \A q \in 1..vec.len : vec.arr[q] = items[q]
    PROVE  Items(vec) = items
<1>1. /\ Items(vec) \in Seq(S)
      /\ Len(Items(vec)) = Len(items)
      /\ \A q \in 1..Len(items) : Items(vec)[q] = items[q]
  BY ItemsAre
<1>2. QED
  BY <1>1, SeqEqual

\* An item stored behind the others while the capacity has room for it.
LEMMA PushedIs ==
    ASSUME NEW S, NEW vec \in VectorsOf(S), NEW item \in S,
           vec.len < vec.capacity, vec.capacity <= Len(vec.arr), ~vec.bad
    PROVE  /\ Pushed(vec, item) \in VectorsOf(S)
           /\ Fit(Pushed(vec, item))
           /\ Pushed(vec, item).len = vec.len + 1
           /\ Pushed(vec, item).capacity = vec.capacity
           /\ Len(Pushed(vec, item).arr) = Len(vec.arr)
           /\ \A q \in 1..vec.len : Pushed(vec, item).arr[q] = vec.arr[q]
           /\ Pushed(vec, item).arr[vec.len + 1] = item
           /\ Items(Pushed(vec, item)) = Append(Items(vec), item)
<1> DEFINE p == Pushed(vec, item)
           stored == Stored(vec.arr, vec.len, <<item>>)
<1>1. /\ vec.arr \in Seq(S) /\ vec.len \in Nat /\ vec.capacity \in Nat
      /\ vec.bad = FALSE /\ Len(vec.arr) \in Nat
  BY DEF VectorsOf
<1>3. /\ stored \in Seq(S) /\ Len(stored) = Len(vec.arr)
      /\ \A q \in 1..Len(vec.arr) :
            stored[q] = IF q = vec.len + 1 THEN item ELSE vec.arr[q]
  <2>1. StoredOneAs(S, stored, vec.arr, vec.len, item)
    BY <1>1, StoredOneIs
  <2>2. QED
    BY <2>1 DEF StoredOneAs
<1>4. stored[vec.len + 1] = item /\ \A q \in 1..vec.len : stored[q] = vec.arr[q]
  <2>1. vec.len + 1 \in 1..Len(vec.arr)
    BY <1>1
  <2>2. \A q \in 1..vec.len : q \in 1..Len(vec.arr) /\ q # vec.len + 1
    BY <1>1
  <2>3. QED
    BY <1>3, <2>1, <2>2
<1>5. Within(vec.arr, vec.len, 1)
  BY <1>1 DEF Within
<1> HIDE DEF stored
<1>6. /\ p.arr = stored /\ p.len = vec.len + 1 /\ p.capacity = vec.capacity
      /\ p.bad = FALSE /\ p \in VectorsOf(S)
  <2>1. (vec.bad \/ ~Within(vec.arr, vec.len, 1)) = FALSE
    BY <1>1, <1>5
  <2>2. p = [vec EXCEPT !.arr = stored, !.len = vec.len + 1, !.bad = FALSE]
    BY <2>1 DEF Pushed, stored
  <2>3. p = [arr |-> stored, len |-> vec.len + 1, capacity |-> vec.capacity,
             bad |-> FALSE]
    BY <2>2 DEF VectorsOf
  <2> HIDE DEF p
  <2>4. QED
    BY <1>1, <1>3, <2>3 DEF VectorsOf
<1> HIDE DEF p
<1>7. Items(p) = Append(Items(vec), item)
  <2>1. /\ Items(vec) \in Seq(S) /\ Len(Items(vec)) = vec.len
        /\ \A q \in 1..vec.len : Items(vec)[q] = vec.arr[q]
    BY <1>1, ItemsAre
  <2>2. /\ Append(Items(vec), item) \in Seq(S)
        /\ Len(Append(Items(vec), item)) = p.len
        /\ \A q \in 1..vec.len : Append(Items(vec), item)[q] = Items(vec)[q]
        /\ Append(Items(vec), item)[vec.len + 1] = item
    BY <1>1, <1>6, <2>1, AppendProperties
  <2>3. \A q \in 1..p.len : p.arr[q] = Append(Items(vec), item)[q]
    <3>1. ASSUME NEW q \in 1..p.len PROVE q \in 1..vec.len \/ q = vec.len + 1
      BY <1>1, <1>6
    <3>2. QED
      BY <1>4, <1>6, <2>1, <2>2, <3>1
  <2>4. p.len <= Len(p.arr)
    BY <1>1, <1>3, <1>6
  <2>5. QED
    BY <1>6, <2>2, <2>3, <2>4, SameItems
<1>8. Fit(p)
  BY <1>1, <1>3, <1>6 DEF Fit
<1>9. QED
  BY <1>3, <1>4, <1>6, <1>7, <1>8 DEF p

\* What a call to mrv_append leaves, of a vector that fits its block.
AppendedTo(S, v, vec, item) ==
    /\ v \in VectorsOf(S)
    /\ Fit(v)
    /\ v.len = vec.len + 1
    /\ v.capacity > 0
    /\ \A q \in 1..vec.len : v.arr[q] = vec.arr[q]
    /\ v.arr[vec.len + 1] = item
    /\ Items(v) = Append(Items(vec), item)

\* mrv_append: the item is behind the others, or nothing changes when the
\* memory is refused.
LEMMA AppendIs ==
    ASSUME NEW S, Junk \in S, NEW vec \in VectorsOf(S), Fit(vec),
           NEW item \in S, NEW scaling \in Scalings, NEW granted \in BOOLEAN,
           vec.capacity # vec.len \/ ~granted \/ Grows(vec, scaling)
    PROVE  IF vec.capacity = vec.len /\ ~granted
           THEN mrv_append(vec, item, scaling, granted) = vec
           ELSE AppendedTo(S, mrv_append(vec, item, scaling, granted), vec, item)
<1> DEFINE v == mrv_append(vec, item, scaling, granted)
           capacity == Scaled(vec.capacity, scaling)
           longer == [vec EXCEPT !.arr = realloc(@, capacity),
                                 !.capacity = capacity]
<1>1. /\ vec.arr \in Seq(S) /\ vec.len \in Nat /\ vec.capacity \in Nat
      /\ vec.bad = FALSE /\ Len(vec.arr) \in Nat /\ vec.len <= vec.capacity
      /\ vec.capacity <= Len(vec.arr)
  BY DEF VectorsOf, Fit
<1>2. CASE vec.capacity # vec.len
  <2>1. v = Pushed(vec, item)
    BY <1>2 DEF mrv_append
  <2>2. vec.len < vec.capacity /\ vec.capacity > 0
    BY <1>1, <1>2
  <2>3. AppendedTo(S, Pushed(vec, item), vec, item)
    BY <1>1, <2>2, PushedIs DEF AppendedTo
  <2>4. QED
    BY <1>2, <2>1, <2>3
<1>3. CASE vec.capacity = vec.len /\ ~granted
  BY <1>3 DEF mrv_append
<1>4. CASE vec.capacity = vec.len /\ granted
  <2>1. v = Pushed(longer, item)
    BY <1>4 DEF mrv_append
  <2>2. capacity \in Nat /\ vec.len < capacity
    <3>1. CASE scaling = "INCREMENT"
      BY <1>1, <1>4, <3>1 DEF Scaled
    <3>2. CASE scaling # "INCREMENT" /\ vec.capacity = 0
      BY <1>1, <1>4, <3>2 DEF Scaled
    <3>3. CASE scaling = "DOUBLE" /\ vec.capacity # 0
      BY <1>1, <1>4, <3>3 DEF Scaled
    <3>4. CASE scaling = "ONE_POINT_FIVE" /\ vec.capacity # 0
      <4>1. vec.capacity # 1
        BY <1>1, <1>4, <3>4 DEF Grows
      <4>2. vec.capacity \div 2 \in Nat /\ vec.capacity \div 2 > 0
        BY <1>1, <3>4, <4>1
      <4>3. capacity = vec.capacity + vec.capacity \div 2
        <5>1. scaling # "INCREMENT" /\ scaling # "DOUBLE"
          BY <3>4
        <5>2. QED
          BY <3>4, <5>1 DEF Scaled
      <4>4. QED
        BY <1>1, <1>4, <4>2, <4>3
    <3>5. QED
      BY <3>1, <3>2, <3>3, <3>4 DEF Scalings
  <2>3. /\ realloc(vec.arr, capacity) \in Seq(S)
        /\ Len(realloc(vec.arr, capacity)) = capacity
        /\ \A q \in 1..vec.len : realloc(vec.arr, capacity)[q] = vec.arr[q]
    <3> HIDE DEF capacity
    <3>1. /\ realloc(vec.arr, capacity) \in Seq(S)
          /\ Len(realloc(vec.arr, capacity)) = capacity
          /\ \A q \in 1..capacity :
                realloc(vec.arr, capacity)[q] =
                   IF q <= Len(vec.arr) THEN vec.arr[q] ELSE Junk
      BY <1>1, <2>2, ReallocIs
    <3>2. \A q \in 1..vec.len : q \in 1..capacity /\ q <= Len(vec.arr)
      BY <1>1, <2>2
    <3>3. QED
      BY <3>1, <3>2
  <2> HIDE DEF capacity
  <2>4. /\ longer \in VectorsOf(S)
        /\ longer.len = vec.len
        /\ longer.capacity = capacity
        /\ longer.arr = realloc(vec.arr, capacity)
        /\ longer.bad = FALSE
    BY <1>1, <2>2, <2>3 DEF VectorsOf
  <2> HIDE DEF longer
  <2>5. AppendedTo(S, Pushed(longer, item), longer, item)
    <3>1. longer.len < longer.capacity /\ longer.capacity <= Len(longer.arr)
      BY <2>2, <2>3, <2>4
    <3>2. longer.capacity > 0
      BY <1>1, <2>2, <2>4
    <3>3. QED
      BY <2>4, <3>1, <3>2, PushedIs DEF AppendedTo
  <2>6. Items(longer) = Items(vec)
    <3>1. /\ Items(vec) \in Seq(S) /\ Len(Items(vec)) = vec.len
          /\ \A q \in 1..vec.len : Items(vec)[q] = vec.arr[q]
      BY <1>1, ItemsAre
    <3>2. longer.len <= Len(longer.arr)
      BY <1>1, <2>2, <2>3, <2>4
    <3>3. \A q \in 1..longer.len : longer.arr[q] = Items(vec)[q]
      BY <2>3, <2>4, <3>1
    <3>4. QED
      BY <2>4, <3>1, <3>2, <3>3, SameItems
  <2>7. AppendedTo(S, Pushed(longer, item), vec, item)
    BY <2>3, <2>4, <2>5, <2>6 DEF AppendedTo
  <2>8. QED
    BY <1>4, <2>1, <2>7
<1>5. QED
  BY <1>2, <1>3, <1>4

\* A vector that has taken the place of another and has its items.
Holding(S, v, items) ==
    /\ v \in VectorsOf(S)
    /\ Fit(v)
    /\ v.len = Len(items)
    /\ Items(v) = items

\* A vector whose cells are those items holds them.
LEMMA HoldingIs ==
    ASSUME NEW S, NEW v \in VectorsOf(S), Fit(v), NEW items \in Seq(S),
           v.len = Len(items), \A q \in 1..v.len : v.arr[q] = items[q]
    PROVE  Holding(S, v, items)
<1>1. v.len <= Len(v.arr)
  <2>1. v.len \in Nat /\ v.capacity \in Nat /\ v.arr \in Seq(S)
    BY DEF VectorsOf
  <2>2. QED
    BY <2>1 DEF Fit
<1>2. Items(v) = items
  BY <1>1, SameItems
<1>3. QED
  BY <1>2 DEF Holding

\* mrv_realloc_to_fit keeps the items of a vector that has some.
LEMMA RefitIs ==
    ASSUME NEW S, Junk \in S, NEW vec \in VectorsOf(S), Fit(vec), vec.len > 0
    PROVE  /\ Holding(S, mrv_realloc_to_fit(vec, TRUE), Items(vec))
           /\ mrv_realloc_to_fit(vec, TRUE).capacity = vec.len
<1> DEFINE v == mrv_realloc_to_fit(vec, TRUE)
           block == realloc(vec.arr, vec.len)
<1>1. /\ vec.arr \in Seq(S) /\ vec.len \in Nat /\ vec.capacity \in Nat
      /\ vec.bad = FALSE /\ Len(vec.arr) \in Nat /\ vec.len <= vec.capacity
      /\ vec.capacity <= Len(vec.arr) /\ vec.len <= Len(vec.arr)
  BY DEF VectorsOf, Fit
<1>2. /\ Items(vec) \in Seq(S) /\ Len(Items(vec)) = vec.len
      /\ \A q \in 1..vec.len : Items(vec)[q] = vec.arr[q]
  BY <1>1, ItemsAre
<1>3. CASE vec.capacity = vec.len
  <2>1. v = vec
    BY <1>3 DEF mrv_realloc_to_fit
  <2>2. QED
    BY <1>2, <1>3, <2>1, HoldingIs
<1>4. CASE vec.capacity # vec.len
  <2>1. /\ block \in Seq(S) /\ Len(block) = vec.len
        /\ \A q \in 1..vec.len :
              block[q] = IF q <= Len(vec.arr) THEN vec.arr[q] ELSE Junk
    BY <1>1, ReallocIs
  <2>2. \A q \in 1..vec.len : block[q] = vec.arr[q]
    BY <1>1, <2>1
  <2> HIDE DEF block
  <2>3. v = [vec EXCEPT !.capacity = vec.len, !.arr = block]
    BY <1>1, <1>4 DEF mrv_realloc_to_fit, block
  <2>4. v = [arr |-> block, len |-> vec.len, capacity |-> vec.len, bad |-> FALSE]
    BY <1>1, <2>3 DEF VectorsOf
  <2> HIDE DEF v
  <2>5. v \in VectorsOf(S) /\ Fit(v) /\ v.len = Len(Items(vec))
    BY <1>1, <1>2, <2>1, <2>4 DEF VectorsOf, Fit
  <2>6. \A q \in 1..v.len : v.arr[q] = Items(vec)[q]
    BY <1>2, <2>2, <2>4
  <2>7. v.capacity = vec.len
    BY <2>4
  <2>8. Holding(S, v, Items(vec))
    BY <1>2, <2>5, <2>6, HoldingIs
  <2>9. QED
    BY <2>7, <2>8 DEF v
<1>5. QED
  BY <1>3, <1>4

\* mrv_clear leaves none.
LEMMA ClearIs ==
    ASSUME NEW S, Junk \in S, NEW vec \in VectorsOf(S), Fit(vec)
    PROVE  /\ Holding(S, mrv_clear(vec), <<>>)
           /\ mrv_clear(vec).capacity = 0
<1> DEFINE v == mrv_clear(vec)
           block == Stored(vec.arr, 0, malloc(vec.len))
<1>1. /\ vec.arr \in Seq(S) /\ vec.len \in Nat /\ vec.capacity \in Nat
      /\ vec.bad = FALSE /\ Len(vec.arr) \in Nat
  BY DEF VectorsOf, Fit
<1>2. block \in Seq(S)
  <2>1. malloc(vec.len) \in Seq(S)
    BY <1>1, MallocIs
  <2>2. StoredAs(S, block, vec.arr, 0, malloc(vec.len))
    BY <1>1, <2>1, StoredIs
  <2>3. QED
    BY <2>2 DEF StoredAs
<1> HIDE DEF block
<1>3. v = [vec EXCEPT !.arr = block, !.len = 0, !.capacity = 0]
  BY DEF mrv_clear, block
<1>4. v = [arr |-> block, len |-> 0, capacity |-> 0, bad |-> FALSE]
  BY <1>1, <1>3 DEF VectorsOf
<1> HIDE DEF v
<1>5. v \in VectorsOf(S) /\ Fit(v) /\ v.len = Len(<<>>) /\ v.capacity = 0
  BY <1>2, <1>4 DEF VectorsOf, Fit
<1>6. <<>> \in Seq(S) /\ \A q \in 1..v.len : v.arr[q] = <<>>[q]
  BY <1>5
<1>7. Holding(S, v, <<>>)
  BY <1>5, <1>6, HoldingIs
<1>8. QED
  BY <1>5, <1>7 DEF v

\* mrv_dupe holds the same.
LEMMA DupeIs ==
    ASSUME NEW S, Junk \in S, NEW vec \in VectorsOf(S), Fit(vec)
    PROVE  /\ Holding(S, mrv_dupe(vec), Items(vec))
<1> DEFINE v == mrv_dupe(vec)
           room == malloc(vec.capacity)
           block == Stored(room, 0, Items(vec))
<1>1. /\ vec.arr \in Seq(S) /\ vec.len \in Nat /\ vec.capacity \in Nat
      /\ vec.bad = FALSE /\ Len(vec.arr) \in Nat /\ vec.len <= vec.capacity
      /\ vec.capacity <= Len(vec.arr) /\ vec.len <= Len(vec.arr)
  BY DEF VectorsOf, Fit
<1>2. /\ Items(vec) \in Seq(S) /\ Len(Items(vec)) = vec.len
      /\ \A q \in 1..vec.len : Items(vec)[q] = vec.arr[q]
  BY <1>1, ItemsAre
<1>3. room \in Seq(S) /\ Len(room) = vec.capacity
  BY <1>1, MallocIs
<1> HIDE DEF room
<1>4. StoredAs(S, block, room, 0, Items(vec))
  BY <1>2, <1>3, StoredIs
<1>5. v = [vec EXCEPT !.arr = block]
  BY DEF mrv_dupe, room
<1> HIDE DEF block
<1>6. v = [arr |-> block, len |-> vec.len, capacity |-> vec.capacity,
           bad |-> FALSE]
  BY <1>1, <1>5 DEF VectorsOf
<1> HIDE DEF v
<1>7. block \in Seq(S) /\ Len(block) = vec.capacity
  BY <1>3, <1>4 DEF StoredAs
<1>8. v \in VectorsOf(S) /\ Fit(v) /\ v.len = Len(Items(vec))
  BY <1>1, <1>2, <1>6, <1>7 DEF VectorsOf, Fit
<1>9. \A q \in 1..vec.len : block[q] = Items(vec)[q]
  <2>1. ASSUME NEW q \in 1..vec.len
        PROVE  q \in 1..Len(room) /\ 0 < q /\ q <= 0 + Len(Items(vec)) /\ q - 0 = q
    BY <1>1, <1>2, <1>3
  <2>2. QED
    BY <1>4, <2>1 DEF StoredAs
<1>10. Holding(S, v, Items(vec))
  BY <1>2, <1>6, <1>8, <1>9, HoldingIs
<1>11. QED
  BY <1>10 DEF v

\* Two appends are one of two.
LEMMA AppendTwice ==
    ASSUME NEW S, NEW s \in Seq(S), NEW x \in S
    PROVE  Append(Append(s, x), x) = s \o <<x, x>>
OBVIOUS

\* AppendsAgree holds of every vector that fits its block.
LEMMA AppendsAgreeIs ==
    ASSUME NEW S, Junk \in S, NEW vec \in VectorsOf(S), Fit(vec), NEW item \in S
    PROVE  AppendsAgree(vec, item)
<1> DEFINE items == Items(vec)
<1>1. /\ vec.arr \in Seq(S) /\ vec.len \in Nat /\ vec.capacity \in Nat
      /\ Len(vec.arr) \in Nat /\ vec.len <= vec.capacity
      /\ vec.len <= Len(vec.arr)
  BY DEF VectorsOf, Fit
<1>2. items \in Seq(S) /\ Len(items) = vec.len
  BY <1>1, ItemsAre
<1>3. /\ Append(items, item) \in Seq(S)
      /\ Append(Append(items, item), item) = items \o <<item, item>>
  BY <1>2, AppendTwice
<1>4. ASSUME NEW first \in Scalings
      PROVE  Holds(mrv_append(mrv_clear(vec), item, first, TRUE), <<item>>)
  <2> DEFINE c == mrv_clear(vec)
             v == mrv_append(c, item, first, TRUE)
  <2>1. Holding(S, c, <<>>) /\ c.capacity = 0
    BY ClearIs
  <2> HIDE DEF c
  <2>2. c \in VectorsOf(S) /\ Fit(c) /\ Items(c) = <<>> /\ Grows(c, first)
    BY <2>1 DEF Holding, Grows
  <2>3. AppendedTo(S, v, c, item)
    BY <2>2, AppendIs
  <2> HIDE DEF v
  <2>4. Append(<<>>, item) = <<item>>
    OBVIOUS
  <2>5. Items(v) = <<item>> /\ ~v.bad
    BY <2>2, <2>3, <2>4 DEF AppendedTo, Fit
  <2>6. QED
    BY <2>5 DEF Holds, v, c
<1>5. Holds(mrv_append(mrv_dupe(vec), item, "DOUBLE", TRUE), Append(items, item))
  <2> DEFINE d == mrv_dupe(vec)
             v == mrv_append(d, item, "DOUBLE", TRUE)
  <2>1. Holding(S, d, items)
    BY DupeIs
  <2> HIDE DEF d
  <2>2. d \in VectorsOf(S) /\ Fit(d) /\ Items(d) = items /\ Grows(d, "DOUBLE")
    BY <2>1 DEF Holding, Grows
  <2>3. AppendedTo(S, v, d, item)
    BY <2>2, AppendIs DEF Scalings
  <2> HIDE DEF v
  <2>4. Items(v) = Append(items, item) /\ ~v.bad
    BY <2>2, <2>3 DEF AppendedTo, Fit
  <2>5. QED
    BY <2>4 DEF Holds, v, d
<1>6. ASSUME NEW first \in Scalings, NEW second \in Scalings,
             Grows(vec, first) \/ vec.len = 0
      PROVE  LET once == mrv_append(vec, item, first, TRUE)
                 fit == mrv_realloc_to_fit(once, TRUE)
             IN  /\ Holds(once, Append(items, item))
                 /\ Holds(fit, Append(items, item))
                 /\ Grows(fit, second) =>
                       Holds(mrv_append(fit, item, second, TRUE),
                             items \o <<item, item>>)
                 /\ Holds(mrv_append(once, item, second, FALSE),
                          IF once.len = once.capacity THEN Items(once)
                          ELSE items \o <<item, item>>)
  <2> DEFINE once == mrv_append(vec, item, first, TRUE)
             fit == mrv_realloc_to_fit(once, TRUE)
             twice == mrv_append(fit, item, second, TRUE)
             refused == mrv_append(once, item, second, FALSE)
  <2>1. AppendedTo(S, once, vec, item)
    <3>1. vec.capacity # vec.len \/ Grows(vec, first)
      BY <1>6 DEF Grows
    <3>2. QED
      BY <3>1, AppendIs
  <2> HIDE DEF once
  <2>2. /\ once \in VectorsOf(S) /\ Fit(once) /\ once.len = vec.len + 1
        /\ once.len > 0 /\ Items(once) = Append(items, item) /\ ~once.bad
    BY <1>1, <2>1 DEF AppendedTo, Fit
  <2>3. Holds(once, Append(items, item))
    BY <2>2 DEF Holds
  <2>4. Holding(S, fit, Append(items, item))
    BY <2>2, RefitIs
  <2> HIDE DEF fit
  <2>5. /\ fit \in VectorsOf(S) /\ Fit(fit) /\ Items(fit) = Append(items, item)
        /\ ~fit.bad
    BY <2>4 DEF Holding, Fit
  <2>6. Holds(fit, Append(items, item))
    BY <2>5 DEF Holds
  <2>7. ASSUME Grows(fit, second)
        PROVE  Holds(twice, items \o <<item, item>>)
    <3>1. AppendedTo(S, twice, fit, item)
      BY <2>5, <2>7, AppendIs
    <3> HIDE DEF twice
    <3>2. Items(twice) = Append(Append(items, item), item) /\ ~twice.bad
      BY <2>5, <3>1 DEF AppendedTo, Fit
    <3>3. QED
      BY <1>3, <3>2 DEF Holds
  <2>8. Holds(refused, IF once.len = once.capacity THEN Items(once)
                       ELSE items \o <<item, item>>)
    <3>1. CASE once.capacity = once.len
      <4>1. refused = once
        BY <2>2, <3>1, AppendIs
      <4>2. QED
        BY <2>2, <3>1, <4>1 DEF Holds
    <3>2. CASE once.capacity # once.len
      <4>1. AppendedTo(S, refused, once, item)
        BY <2>2, <3>2, AppendIs
      <4> HIDE DEF refused
      <4>2. Items(refused) = Append(Append(items, item), item) /\ ~refused.bad
        BY <2>2, <4>1 DEF AppendedTo, Fit
      <4>3. QED
        BY <1>3, <3>2, <4>2 DEF Holds
    <3>3. QED
      BY <3>1, <3>2
  <2>9. QED
    BY <2>3, <2>6, <2>7, <2>8 DEF once, fit, twice, refused
<1>7. QED
  BY <1>4, <1>5, <1>6 DEF AppendsAgree

\* And so does RemovalsAgree.
LEMMA RemovalsAgreeIs ==
    ASSUME NEW S, Junk \in S, NEW vec \in VectorsOf(S), Fit(vec)
    PROVE  RemovalsAgree(vec)
<1> DEFINE items == Items(vec)
           last == vec.len
<1>1. /\ vec.arr \in Seq(S) /\ vec.len \in Nat /\ vec.capacity \in Nat
      /\ Len(vec.arr) \in Nat /\ vec.len <= vec.capacity
      /\ vec.len <= Len(vec.arr) /\ vec.bad = FALSE
  BY DEF VectorsOf, Fit
<1>2. /\ items \in Seq(S) /\ Len(items) = vec.len
      /\ \A q \in 1..vec.len : items[q] = vec.arr[q]
  BY <1>1, ItemsAre
<1> SUFFICES ASSUME NEW idx \in 0..(vec.len - 1)
             PROVE  LET rest == Items(mrv_remove(vec, idx))
                    IN  /\ Holds(mrv_pop(vec), SubSeq(items, 1, last - 1))
                        /\ Holds(mrv_pop_front(vec), Tail(items))
                        /\ Len(rest) = last - 1
                        /\ \A q \in 1..(last - 1) :
                              rest[q] = IF q = idx + 1 THEN items[last] ELSE items[q]
                        /\ LET first == mrv_get_item(vec, items[idx + 1])
                           IN  /\ first <= idx
                               /\ mrv_get_idx(vec, first) = items[idx + 1]
  BY DEF RemovalsAgree
<1>3. idx \in Nat /\ vec.len > 0 /\ vec.len - 1 \in Nat /\ idx + 1 \in 1..vec.len
  BY <1>1
<1>4. Holds(mrv_pop(vec), SubSeq(items, 1, last - 1))
  <2> DEFINE v == mrv_pop(vec)
             front == SubSeq(items, 1, last - 1)
  <2>1. v = [arr |-> vec.arr, len |-> vec.len - 1, capacity |-> vec.capacity,
             bad |-> FALSE]
    <3>1. v = [vec EXCEPT !.len = vec.len - 1]
      BY DEF mrv_pop
    <3> HIDE DEF v
    <3>2. QED
      BY <1>1, <3>1 DEF VectorsOf
  <2> HIDE DEF v
  <2>2. /\ v \in VectorsOf(S) /\ v.len <= Len(v.arr) /\ v.len = last - 1
        /\ v.arr = vec.arr /\ ~v.bad
    BY <1>1, <1>3, <2>1 DEF VectorsOf
  <2>3. /\ front \in Seq(S) /\ Len(front) = last - 1
        /\ \A q \in 1..(last - 1) : front[q] = items[q]
    BY <1>2, <1>3
  <2> HIDE DEF front
  <2>4. \A q \in 1..v.len : v.arr[q] = front[q]
    <3>1. \A q \in 1..v.len : q \in 1..vec.len
      BY <1>1, <2>2
    <3>2. QED
      BY <1>2, <2>2, <2>3, <3>1
  <2>5. Items(v) = front
    BY <2>2, <2>3, <2>4, SameItems
  <2>6. QED
    BY <2>2, <2>5 DEF Holds, v, front
<1>5. Holds(mrv_pop_front(vec), Tail(items))
  <2> DEFINE v == mrv_pop_front(vec)
             back == SubSeq(vec.arr, 2, vec.len)
             block == Stored(vec.arr, 0, back)
  <2>1. /\ back \in Seq(S) /\ Len(back) = vec.len - 1
        /\ \A q \in 1..(vec.len - 1) : back[q] = vec.arr[q + 1]
    <3>1. \A q \in 2..vec.len : vec.arr[q] \in S
      BY <1>1
    <3>2. back \in Seq(S)
      BY <1>1, <3>1, SubSeqProperties
    <3>3. QED
      BY <1>1, <1>3, <3>2
  <2> HIDE DEF back
  <2>2. StoredAs(S, block, vec.arr, 0, back)
    BY <1>1, <2>1, StoredIs
  <2>3. v = [vec EXCEPT !.arr = block, !.len = vec.len - 1]
    BY DEF mrv_pop_front, back
  <2> HIDE DEF block
  <2>4. v = [arr |-> block, len |-> vec.len - 1, capacity |-> vec.capacity,
             bad |-> FALSE]
    BY <1>1, <2>3 DEF VectorsOf
  <2> HIDE DEF v
  <2>5. block \in Seq(S) /\ Len(block) = Len(vec.arr)
    BY <2>2 DEF StoredAs
  <2>6. /\ v \in VectorsOf(S) /\ v.len <= Len(v.arr) /\ v.len = last - 1
        /\ v.arr = block /\ ~v.bad
    BY <1>1, <1>3, <2>4, <2>5 DEF VectorsOf
  <2>7. /\ Tail(items) \in Seq(S) /\ Len(Tail(items)) = last - 1
        /\ \A q \in 1..(last - 1) : Tail(items)[q] = items[q + 1]
    BY <1>2, <1>3
  <2>8. ASSUME NEW q \in 1..v.len PROVE v.arr[q] = Tail(items)[q]
    <3>1. /\ q \in 1..(vec.len - 1) /\ q + 1 \in 1..vec.len
          /\ q \in 1..Len(vec.arr) /\ 0 < q /\ q <= 0 + Len(back) /\ q - 0 = q
      BY <1>1, <2>1, <2>6
    <3>2. block[q] = back[q]
      BY <2>2, <3>1 DEF StoredAs
    <3>3. QED
      BY <1>2, <2>1, <2>6, <2>7, <3>1, <3>2
  <2>9. Items(v) = Tail(items)
    BY <2>6, <2>7, <2>8, SameItems
  <2>10. QED
    BY <2>6, <2>9 DEF Holds, v
<1>6. LET rest == Items(mrv_remove(vec, idx))
      IN  /\ Len(rest) = last - 1
          /\ \A q \in 1..(last - 1) :
                rest[q] = IF q = idx + 1 THEN items[last] ELSE items[q]
  <2> DEFINE v == mrv_remove(vec, idx)
             end == mrv_get_last(vec)
             block == Stored(vec.arr, idx, <<end>>)
  <2>1. end = vec.arr[vec.len] /\ end \in S /\ end = items[last]
    <3>1. vec.len - 1 + 1 = vec.len /\ vec.len \in 1..Len(vec.arr) /\ vec.len \in 1..vec.len
      BY <1>1, <1>3
    <3>2. QED
      BY <1>1, <1>2, <3>1 DEF mrv_get_last, mrv_get_idx
  <2> HIDE DEF end
  <2>2. StoredOneAs(S, block, vec.arr, idx, end)
    BY <1>1, <1>3, <2>1, StoredOneIs
  <2>3. v = [vec EXCEPT !.arr = block, !.len = vec.len - 1]
    BY DEF mrv_remove, end
  <2> HIDE DEF block
  <2>4. v = [arr |-> block, len |-> vec.len - 1, capacity |-> vec.capacity,
             bad |-> FALSE]
    BY <1>1, <2>3 DEF VectorsOf
  <2> HIDE DEF v
  <2>5. block \in Seq(S) /\ Len(block) = Len(vec.arr)
    BY <2>2 DEF StoredOneAs
  <2>6. /\ v \in VectorsOf(S) /\ v.len <= Len(v.arr) /\ v.len = last - 1
        /\ v.arr = block
    BY <1>1, <1>3, <2>4, <2>5 DEF VectorsOf
  <2>7. /\ Len(Items(v)) = last - 1
        /\ \A q \in 1..(last - 1) : Items(v)[q] = block[q]
    BY <2>6, ItemsAre
  <2>8. ASSUME NEW q \in 1..(last - 1)
        PROVE  Items(v)[q] = IF q = idx + 1 THEN items[last] ELSE items[q]
    <3>1. q \in 1..Len(vec.arr) /\ q \in 1..vec.len
      BY <1>1
    <3>2. block[q] = IF q = idx + 1 THEN end ELSE vec.arr[q]
      BY <2>2, <3>1 DEF StoredOneAs
    <3>3. QED
      BY <1>2, <2>1, <2>7, <3>1, <3>2
  <2>9. QED
    BY <2>7, <2>8 DEF v
<1>7. LET first == mrv_get_item(vec, items[idx + 1])
      IN  /\ first <= idx
          /\ mrv_get_idx(vec, first) = items[idx + 1]
  <2> DEFINE item == items[idx + 1]
             found == {n \in 0..(vec.len - 1) : mrv_get_idx(vec, n) \in {item}}
  <2>1. idx \in found
    BY <1>2, <1>3 DEF mrv_get_idx
  <2>2. found \in SUBSET Nat /\ found # {}
    BY <1>1, <2>1
  <2>3. \A n \in found : mrv_get_idx(vec, n) = item
    OBVIOUS
  <2>4. mrv_get_item(vec, item) =
           CHOOSE n \in found : \A m \in found : n <= m
    BY <2>2 DEF mrv_get_item, mrv_get_item_where
  <2> HIDE DEF found
  <2>5. \E n \in found : \A m \in found : n <= m
    BY <2>2, LeastNatural
  <2>6. /\ mrv_get_item(vec, item) \in found
        /\ \A m \in found : mrv_get_item(vec, item) <= m
    BY <2>4, <2>5
  <2>7. QED
    BY <2>1, <2>3, <2>6
<1>8. QED
  BY <1>4, <1>5, <1>6, <1>7

-----------------------------------------------------------------------------
(* Strings *)

\* What a cell of a string's block can hold.
Chars == Bytes \cup {Nul, Newline, Junk}

Strs == [value : Seq(Chars), len : Nat, capacity : Nat, bad : BOOLEAN]

\* The block of a string starts with a text.
Has(s, text) ==
    /\ s \in Strs
    /\ s.len = Len(text)
    /\ s.len <= Len(s.value)
    /\ s.len <= s.capacity
    /\ s.bad = FALSE
    /\ \A q \in 1..Len(text) : s.value[q] = text[q]

\* And has its terminator.
Spells(s, text) == Has(s, text) /\ Terminated(s)

\* Another block for a string.
LEMMA MovedIs ==
    ASSUME NEW s \in Strs, s.bad = FALSE, NEW block, NEW capacity
    PROVE  [s EXCEPT !.value = block, !.capacity = capacity] =
              [value |-> block, len |-> s.len, capacity |-> capacity,
               bad |-> FALSE]
<1>1. SUFFICES ASSUME NEW r,
                      r = [s EXCEPT !.value = block, !.capacity = capacity]
               PROVE  r = [value |-> block, len |-> s.len,
                           capacity |-> capacity, bad |-> FALSE]
  BY Zenon
<1>2. QED
  BY <1>1 DEF Strs

\* What the code itself writes into a block.
LEMMA CharsAre == Junk \in Chars /\ Nul \in Chars /\ Newline \in Chars
BY DEF Chars

\* The text of a string is what its block starts with.
LEMMA TextIs ==
    ASSUME NEW s, NEW text \in Seq(Chars), Has(s, text)
    PROVE  Text(s) = text
<1>1. /\ s.value \in Seq(Chars) /\ s.len = Len(text) /\ s.len \in Nat
      /\ s.len <= Len(s.value) /\ Len(s.value) \in Nat
      /\ \A q \in 1..Len(text) : s.value[q] = text[q]
  BY DEF Has, Strs
<1>2. \A q \in 1..s.len : s.value[q] \in Chars
  BY <1>1
<1>3. /\ Text(s) \in Seq(Chars) /\ Len(Text(s)) = s.len
      /\ \A q \in 1..s.len : Text(s)[q] = s.value[q]
  BY <1>1, <1>2, SubSeqProperties DEF Text
<1>4. QED
  BY <1>1, <1>3, SeqEqual

\* The other way about: a string in its block has its own text.
LEMMA HasText ==
    ASSUME NEW s \in Strs, s.len <= Len(s.value), s.len <= s.capacity,
           s.bad = FALSE
    PROVE  Text(s) \in Seq(Chars) /\ Has(s, Text(s))
<1>1. s.value \in Seq(Chars) /\ s.len \in Nat /\ Len(s.value) \in Nat
  BY DEF Strs
<1>2. \A q \in 1..s.len : s.value[q] \in Chars
  BY <1>1
<1>3. /\ Text(s) \in Seq(Chars) /\ Len(Text(s)) = s.len
      /\ \A q \in 1..s.len : Text(s)[q] = s.value[q]
  BY <1>1, <1>2, SubSeqProperties DEF Text
<1>4. QED
  BY <1>3 DEF Has

\* What a store of chars and a terminator leaves, from an offset on.
Ended(e, s, off, chars) ==
    /\ e \in Strs
    /\ e.len = off + Len(chars)
    /\ e.capacity = s.capacity
    /\ e.bad = FALSE
    /\ Len(e.value) = Len(s.value)
    /\ \A q \in 1..off : e.value[q] = s.value[q]
    /\ \A q \in 1..Len(chars) : e.value[off + q] = chars[q]
    /\ Terminated(e)

\* A store of characters and a terminator that the block has room for.
LEMMA EndingIs ==
    ASSUME NEW s \in Strs, NEW off \in Nat, NEW chars \in Seq(Chars),
           off + Len(chars) + 1 <= Len(s.value), s.bad = FALSE
    PROVE  Ended(Ending(s, off, chars), s, off, chars)
<1> DEFINE e == Ending(s, off, chars)
           cells == Append(chars, Nul)
           block == Stored(s.value, off, cells)
<1>1. /\ s.value \in Seq(Chars) /\ s.len \in Nat /\ s.capacity \in Nat
      /\ Len(s.value) \in Nat /\ Len(chars) \in Nat
  BY DEF Strs
<1>2. /\ cells \in Seq(Chars) /\ Len(cells) = Len(chars) + 1
      /\ \A q \in 1..Len(chars) : cells[q] = chars[q]
      /\ cells[Len(chars) + 1] = Nul
  BY CharsAre, AppendProperties
<1> HIDE DEF cells
<1>3. StoredAs(Chars, block, s.value, off, cells)
  BY <1>1, <1>2, StoredIs
<1>4. (s.bad \/ ~Within(s.value, off, Len(chars) + 1)) = FALSE
  <2>1. Within(s.value, off, Len(chars) + 1)
    BY <1>1 DEF Within
  <2>2. QED
    BY <2>1
<1>5. e = [s EXCEPT !.value = block, !.len = off + Len(chars), !.bad = FALSE]
  BY <1>4 DEF Ending, cells
<1> HIDE DEF block
<1>6. e = [value |-> block, len |-> off + Len(chars), capacity |-> s.capacity,
           bad |-> FALSE]
  BY <1>5 DEF Strs
<1> HIDE DEF e
<1>7. block \in Seq(Chars) /\ Len(block) = Len(s.value)
  BY <1>3 DEF StoredAs
<1>8. /\ e \in Strs /\ e.len = off + Len(chars) /\ e.capacity = s.capacity
      /\ e.bad = FALSE /\ e.value = block
  BY <1>1, <1>6, <1>7 DEF Strs
<1>9. \A q \in 1..off : block[q] = s.value[q]
  <2>1. \A q \in 1..off : q \in 1..Len(s.value) /\ ~(off < q)
    BY <1>1
  <2>2. QED
    BY <1>3, <2>1 DEF StoredAs
<1>10. ASSUME NEW q \in 1..(Len(chars) + 1) PROVE block[off + q] = cells[q]
  <2>1. /\ off + q \in 1..Len(s.value) /\ off < off + q
        /\ off + q <= off + Len(cells) /\ (off + q) - off = q
    BY <1>1, <1>2
  <2>2. QED
    BY <1>3, <2>1 DEF StoredAs
<1>11. \A q \in 1..Len(chars) : block[off + q] = chars[q]
  <2>1. \A q \in 1..Len(chars) : q \in 1..(Len(chars) + 1)
    BY <1>1
  <2>2. QED
    BY <1>2, <1>10, <2>1
<1>12. Terminated(e)
  <2>1. Len(chars) + 1 \in 1..(Len(chars) + 1) /\ off + Len(chars) < Len(s.value)
    BY <1>1
  <2>2. block[off + (Len(chars) + 1)] = Nul
    BY <1>2, <1>10, <2>1
  <2>3. off + (Len(chars) + 1) = e.len + 1
    BY <1>1, <1>8
  <2>4. QED
    BY <1>7, <1>8, <2>1, <2>2, <2>3 DEF Terminated
<1>13. Ended(e, s, off, chars)
  BY <1>7, <1>8, <1>9, <1>11, <1>12 DEF Ended
<1>14. QED
  BY <1>13 DEF e

\* A string without memory has the empty text.
LEMMA FailedIs == Failed \in Strs /\ Has(Failed, <<>>) /\ Text(Failed) = <<>>
<1>1. Failed \in Strs /\ Failed.len = 0 /\ Failed.capacity = 0
      /\ Failed.bad = FALSE /\ Failed.value = <<>>
  BY DEF Failed, Strs, Null
<1>2. Has(Failed, <<>>)
  BY <1>1 DEF Has
<1>3. <<>> \in Seq(Chars)
  OBVIOUS
<1>4. QED
  BY <1>1, <1>2, <1>3, TextIs

\* mrs_init of characters: a string of them with room for no more.
LEMMA InitIs ==
    ASSUME NEW chars \in Seq(Chars), Len(chars) > 0
    PROVE  /\ Spells(mrs_init(Len(chars), chars, TRUE), chars)
           /\ mrs_init(Len(chars), chars, TRUE).capacity = Len(chars)
           /\ Sized(mrs_init(Len(chars), chars, TRUE))
<1> DEFINE n == Len(chars)
           room == malloc(n + 1)
           block == Block(n)
           s == mrs_create(n)
           e == Ending(s, 0, chars)
<1>1. n \in Nat
  OBVIOUS
<1>2. SubSeq(chars, 1, n) = chars
  OBVIOUS
<1>3. mrs_init(n, chars, TRUE) = e
  <2>1. mrs_init(n, chars, TRUE) = mrs_setstrn(s, chars, n)
    BY <1>1 DEF mrs_init
  <2>2. s.capacity = n
    BY DEF mrs_create, Failed
  <2>3. ~(n > s.capacity) /\ ~(n > Len(chars))
    BY <1>1, <2>2
  <2> HIDE DEF s, n
  <2>4. mrs_setstrn(s, chars, n) = Ending(s, 0, SubSeq(chars, 1, n))
    BY <2>3 DEF mrs_setstrn
  <2>5. QED
    BY <1>2, <2>1, <2>4
<1>4. block \in Seq(Chars) /\ Len(block) = n + 1
  <2> HIDE DEF n
  <2>0. n + 1 \in Nat
    BY <1>1
  <2> HIDE DEF block
  <2>1. room \in Seq(Chars) /\ Len(room) = n + 1
    BY <2>0, CharsAre, MallocIs
  <2>2. block = Stored(room, n, <<Nul>>)
    BY DEF Block, block
  <2> HIDE DEF room
  <2>3. StoredOneAs(Chars, block, room, n, Nul)
    BY <1>1, <2>1, <2>2, CharsAre, StoredOneIs
  <2>4. QED
    BY <2>1, <2>3 DEF StoredOneAs
<1>5. s = [value |-> block, len |-> 0, capacity |-> n, bad |-> FALSE]
  <2> HIDE DEF n, block
  <2>1. s = [Failed EXCEPT !.value = block, !.capacity = n]
    BY DEF mrs_create, block
  <2>2. Failed \in Strs /\ Failed.len = 0 /\ Failed.bad = FALSE
    BY FailedIs DEF Failed
  <2> HIDE DEF s
  <2>3. QED
    BY <2>1, <2>2, MovedIs
<1> HIDE DEF s, block, n
<1>6. /\ s \in Strs /\ s.bad = FALSE /\ s.value = block /\ s.capacity = n
  BY <1>1, <1>4, <1>5 DEF Strs
<1>7. 0 + Len(chars) + 1 <= Len(s.value)
  BY <1>1, <1>4, <1>6 DEF n
<1>8. Ended(e, s, 0, chars)
  BY <1>6, <1>7, EndingIs
<1> HIDE DEF e
<1>9. /\ e \in Strs /\ e.len = n /\ e.capacity = n /\ e.bad = FALSE
      /\ Len(e.value) = n + 1 /\ Terminated(e)
      /\ \A q \in 1..n : e.value[q] = chars[q]
  <2>1. \A q \in 1..n : 0 + q = q /\ 0 + n = n
    BY <1>1
  <2>2. QED
    BY <1>1, <1>4, <1>6, <1>8, <2>1 DEF Ended, n
<1>10. Spells(e, chars)
  BY <1>1, <1>9 DEF Spells, Has, n
<1>11. Sized(e)
  <2>1. e.value # Null
    BY <1>1, <1>9 DEF Null
  <2>2. QED
    BY <1>9, <2>1 DEF Sized
<1>12. QED
  BY <1>3, <1>9, <1>10, <1>11 DEF n

\* Without memory it is the failed string.
LEMMA InitFails ==
    ASSUME NEW chars \in Seq(Chars)
    PROVE  mrs_init(Len(chars), chars, FALSE) = Failed
BY DEF mrs_init

\* The characters of a string that gets others behind them.
LEMMA PushIs ==
    ASSUME NEW s, NEW text \in Seq(Chars), Has(s, text), NEW chars \in Seq(Chars)
    PROVE  /\ Spells(mrs_pushstr(s, chars, TRUE), text \o chars)
           /\ mrs_pushstr(s, chars, FALSE) = s
<1> DEFINE len == s.len + Len(chars)
           block == realloc(s.value, len + 1)
           capacity == IF len > s.capacity THEN len ELSE s.capacity
           r == [s EXCEPT !.value = block, !.capacity = capacity]
           e == Ending(r, s.len, chars)
<1>1. /\ s \in Strs /\ s.len = Len(text) /\ s.len <= Len(s.value)
      /\ s.len <= s.capacity /\ s.bad = FALSE
      /\ \A q \in 1..Len(text) : s.value[q] = text[q]
  BY DEF Has
<1>2. /\ s.value \in Seq(Chars) /\ s.len \in Nat /\ s.capacity \in Nat
      /\ Len(chars) \in Nat /\ Len(s.value) \in Nat /\ Len(text) \in Nat
  BY <1>1 DEF Strs
<1>3. mrs_pushstr(s, chars, TRUE) = e /\ mrs_pushstr(s, chars, FALSE) = s
  BY DEF mrs_pushstr
<1>4. len \in Nat /\ capacity \in Nat /\ len <= capacity
  BY <1>2
<1>5. block \in Seq(Chars) /\ Len(block) = len + 1
      /\ \A q \in 1..s.len : block[q] = s.value[q]
  <2> HIDE DEF len
  <2>0. len + 1 \in Nat
    BY <1>4
  <2>1. /\ block \in Seq(Chars) /\ Len(block) = len + 1
        /\ \A q \in 1..(len + 1) :
              block[q] = IF q <= Len(s.value) THEN s.value[q] ELSE Junk
    BY <1>2, <2>0, CharsAre, ReallocIs
  <2>2. \A q \in 1..s.len : q \in 1..(len + 1) /\ q <= Len(s.value)
    BY <1>1, <1>2, <1>4 DEF len
  <2>3. QED
    BY <2>1, <2>2
<1> HIDE DEF block, capacity
<1>6. r = [value |-> block, len |-> s.len, capacity |-> capacity, bad |-> FALSE]
  BY <1>1, MovedIs
<1> HIDE DEF r
<1>7. /\ r \in Strs /\ r.bad = FALSE /\ r.value = block /\ r.capacity = capacity
      /\ r.len = s.len
  BY <1>2, <1>4, <1>5, <1>6 DEF Strs
<1>8. s.len + Len(chars) + 1 <= Len(r.value)
  BY <1>2, <1>5, <1>7
<1>9. Ended(e, r, s.len, chars)
  BY <1>2, <1>7, <1>8, EndingIs
<1> HIDE DEF e
<1>10. /\ e \in Strs /\ e.len = len /\ e.capacity = capacity /\ e.bad = FALSE
       /\ Len(e.value) = len + 1 /\ Terminated(e)
       /\ \A q \in 1..s.len : e.value[q] = text[q]
       /\ \A q \in 1..Len(chars) : e.value[s.len + q] = chars[q]
  BY <1>1, <1>5, <1>7, <1>9 DEF Ended
<1>11. /\ text \o chars \in Seq(Chars) /\ Len(text \o chars) = len
       /\ \A q \in 1..len : (text \o chars)[q] =
             IF q <= s.len THEN text[q] ELSE chars[q - s.len]
  BY <1>1, <1>2, ConcatProperties
<1>12. ASSUME NEW q \in 1..len
       PROVE  e.value[q] = (text \o chars)[q]
  <2>1. CASE q <= s.len
    <3>1. q \in 1..s.len
      BY <1>2, <2>1
    <3>2. QED
      BY <1>10, <1>11, <2>1, <3>1
  <2>2. CASE ~(q <= s.len)
    <3>1. q - s.len \in 1..Len(chars) /\ s.len + (q - s.len) = q
      BY <1>2, <2>2
    <3>2. QED
      BY <1>10, <1>11, <2>2, <3>1
  <2>3. QED
    BY <2>1, <2>2
<1>13. Has(e, text \o chars)
  <2>1. len <= len + 1
    BY <1>4
  <2> HIDE DEF len
  <2>2. QED
    BY <1>4, <1>10, <1>11, <1>12, <2>1 DEF Has
<1>14. QED
  BY <1>3, <1>10, <1>13 DEF Spells

\* A turn of the loop that pops the space at the end.
TrimTurn(r) ==
    IF r.len > 0 /\ isspace(r.value[r.len]) THEN mrs_pop_char(r) ELSE r

\* s with a text of n characters left.
CutTo(r, s, n) ==
    /\ r \in Strs
    /\ r.len = n
    /\ r.capacity = s.capacity
    /\ r.bad = FALSE
    /\ Len(r.value) = Len(s.value)
    /\ Terminated(r)
    /\ \A q \in 1..n : r.value[q] = s.value[q]

\* mrs_pop_char writes the terminator over the last character.
LEMMA PopCharIs ==
    ASSUME NEW r \in Strs, r.len > 0
    PROVE  LET p == mrs_pop_char(r)
           IN  /\ p \in Strs
               /\ p.len = r.len - 1
               /\ p.capacity = r.capacity
               /\ p.bad = r.bad
               /\ StoredOneAs(Chars, p.value, r.value, r.len - 1, Nul)
<1> DEFINE p == mrs_pop_char(r)
           block == Stored(r.value, r.len - 1, <<Nul>>)
<1>1. /\ r.value \in Seq(Chars) /\ r.len \in Nat /\ r.capacity \in Nat
      /\ r.bad \in BOOLEAN /\ r.len - 1 \in Nat
  BY DEF Strs
<1>2. StoredOneAs(Chars, block, r.value, r.len - 1, Nul)
  BY <1>1, CharsAre, StoredOneIs
<1>3. p = [r EXCEPT !.value = block, !.len = r.len - 1]
  BY <1>1 DEF mrs_pop_char
<1> HIDE DEF block, p
<1>4. block \in Seq(Chars)
  BY <1>2 DEF StoredOneAs
<1>5. /\ p.value = block /\ p.len = r.len - 1 /\ p.capacity = r.capacity
      /\ p.bad = r.bad
  BY <1>3 DEF Strs
<1>6. p \in Strs
  BY <1>1, <1>3, <1>4 DEF Strs
<1>7. QED
  BY <1>2, <1>5, <1>6 DEF p

\* A pop leaves one character less of the text.
LEMMA PopCutIs ==
    ASSUME NEW s, NEW r, NEW n \in Nat, n > 0, CutTo(r, s, n)
    PROVE  CutTo(mrs_pop_char(r), s, n - 1)
<1> DEFINE p == mrs_pop_char(r)
<1>1. /\ r \in Strs /\ r.len = n /\ r.capacity = s.capacity /\ r.bad = FALSE
      /\ Len(r.value) = Len(s.value) /\ n < Len(r.value)
      /\ \A q \in 1..n : r.value[q] = s.value[q]
  BY DEF CutTo, Terminated
<1>2. r.value \in Seq(Chars) /\ Len(r.value) \in Nat
  BY <1>1 DEF Strs
<1>3. /\ p \in Strs /\ p.len = n - 1 /\ p.capacity = r.capacity /\ p.bad = r.bad
      /\ StoredOneAs(Chars, p.value, r.value, n - 1, Nul)
  BY <1>1, PopCharIs
<1> HIDE DEF p
<1>4. /\ Len(p.value) = Len(r.value)
      /\ p.value[n] = Nul
      /\ \A q \in 1..(n - 1) : p.value[q] = r.value[q]
  <2>1. /\ n \in 1..Len(r.value) /\ n = (n - 1) + 1
        /\ \A q \in 1..(n - 1) : q \in 1..Len(r.value) /\ q # (n - 1) + 1
    BY <1>1, <1>2
  <2>2. QED
    BY <1>3, <2>1 DEF StoredOneAs
<1>5. Terminated(p)
  <2>1. n - 1 < Len(r.value) /\ (n - 1) + 1 = n
    BY <1>1, <1>2
  <2>2. QED
    BY <1>3, <1>4, <2>1 DEF Terminated
<1>6. \A q \in 1..(n - 1) : p.value[q] = s.value[q]
  <2>1. \A q \in 1..(n - 1) : q \in 1..n
    OBVIOUS
  <2>2. QED
    BY <1>1, <1>4, <2>1
<1>7. CutTo(p, s, n - 1)
  BY <1>1, <1>3, <1>4, <1>5, <1>6 DEF CutTo
<1>8. QED
  BY <1>7 DEF p

\* The loop as a function.
LEMMA TrimTurns ==
    ASSUME NEW s \in Strs
    PROVE  \E f : /\ f[0] = s
                  /\ \A n \in 1..s.len : f[n] = TrimTurn(f[n - 1])
                  /\ mrs_trim_trailing_whitespace(s) = f[s.len]
<1> DEFINE m == s.len
           F == [n \in 1..m |-> [r \in Strs |-> TrimTurn(r)]]
           Is(f) == f = [n \in 0..s.len |->
                      IF n = 0 THEN s
                      ELSE LET r == f[n - 1]
                           IN  IF r.len > 0 /\ isspace(r.value[r.len])
                               THEN mrs_pop_char(r) ELSE r]
           turns == CHOOSE f : Is(f)
<1>1. m \in Nat
  BY DEF Strs
<1>2. \A r \in Strs : TrimTurn(r) \in Strs
  BY PopCharIs DEF TrimTurn
<1>3. F \in [1..m -> [Strs -> Strs]]
  BY <1>2
<1>4. PICK g : AreTurns(g, Strs, F, s, m)
  <2> HIDE DEF F, m
  <2>1. QED
    BY <1>1, <1>3, TurnsExist
<1>5. Is(g)
  <2>1. ASSUME NEW n \in 0..m, n # 0
        PROVE  g[n] = TrimTurn(g[n - 1])
    <3>1. n - 1 \in 0..m /\ n \in 1..m
      BY <1>1, <2>1
    <3>2. g[n - 1] \in Strs /\ g[n] = F[n][g[n - 1]]
      BY <1>4, <3>1 DEF AreTurns
    <3>3. QED
      BY <3>1, <3>2
  <2>2. g = [n \in 0..m |-> IF n = 0 THEN s ELSE TrimTurn(g[n - 1])]
    BY <1>4, <2>1 DEF AreTurns
  <2>3. QED
    BY <2>2 DEF TrimTurn
<1>6. Is(turns)
  BY <1>5
<1>7. mrs_trim_trailing_whitespace(s) = turns[m]
  BY DEF mrs_trim_trailing_whitespace
<1> HIDE DEF turns
<1>8. turns = [n \in 0..m |-> IF n = 0 THEN s ELSE TrimTurn(turns[n - 1])]
  BY <1>6 DEF TrimTurn
<1>9. turns[0] = s /\ \A n \in 1..m : turns[n] = TrimTurn(turns[n - 1])
  BY <1>1, <1>8
<1>10. QED
  BY <1>7, <1>9

\* t characters of a text stay when the space at its end goes.
TrimsTo(text, t) ==
    /\ t \in 0..Len(text)
    /\ \A q \in (t + 1)..Len(text) : isspace(text[q])
    /\ t > 0 => ~isspace(text[t])

\* mrs_trim_trailing_whitespace cuts the text behind its last character that
\* is no space.
LEMMA TrimIs ==
    ASSUME NEW s, NEW text \in Seq(Chars), Spells(s, text)
    PROVE  \E t \in Nat : /\ TrimsTo(text, t)
                          /\ CutTo(mrs_trim_trailing_whitespace(s), s, t)
<1> DEFINE m == s.len
<1>1. /\ s \in Strs /\ m = Len(text) /\ s.bad = FALSE /\ Terminated(s)
      /\ m \in Nat
      /\ \A q \in 1..m : s.value[q] = text[q]
  BY DEF Spells, Has, Strs
<1>2. PICK f : /\ f[0] = s
               /\ \A n \in 1..m : f[n] = TrimTurn(f[n - 1])
               /\ mrs_trim_trailing_whitespace(s) = f[m]
  BY <1>1, TrimTurns
<1> HIDE DEF m
<1> DEFINE At(n, t) == /\ CutTo(f[n], s, t)
                       /\ t = m - n \/ t = 0 \/ ~isspace(text[t])
                       /\ \A q \in (t + 1)..m : isspace(text[q])
           T == {n \in 0..m : \E t \in 0..m : At(n, t)}
<1>3. 0 \in T
  <2>1. CutTo(s, s, m)
    BY <1>1 DEF CutTo, m
  <2>2. \A q \in (m + 1)..m : isspace(text[q])
    BY <1>1
  <2>3. At(0, m)
    BY <1>1, <1>2, <2>1, <2>2
  <2>4. QED
    BY <1>1, <2>3
<1>4. ASSUME NEW n \in 1..m, n - 1 \in T
      PROVE  n \in T
  <2>1. PICK t \in 0..m : At(n - 1, t)
    BY <1>4
  <2>2. n \in 0..m /\ f[n] = TrimTurn(f[n - 1]) /\ t \in Nat
    BY <1>1, <1>2
  <2>3. /\ CutTo(f[n - 1], s, t) /\ f[n - 1].len = t
        /\ \A q \in (t + 1)..m : isspace(text[q])
    BY <2>1 DEF CutTo
  <2>4. t > 0 => f[n - 1].value[t] = text[t]
    <3>1. t > 0 => t \in 1..t /\ t \in 1..m
      BY <2>2
    <3>2. QED
      BY <1>1, <2>3, <3>1 DEF CutTo
  <2>5. CASE t > 0 /\ isspace(text[t])
    <3>1. f[n] = mrs_pop_char(f[n - 1])
      BY <2>2, <2>3, <2>4, <2>5 DEF TrimTurn
    <3>2. CutTo(f[n], s, t - 1)
      BY <2>2, <2>3, <2>5, <3>1, PopCutIs
    <3>3. t = m - (n - 1)
      BY <2>1, <2>2, <2>5
    <3>4. t - 1 \in 0..m /\ t - 1 = m - n
      BY <1>1, <2>5, <3>3
    <3>5. ASSUME NEW q \in ((t - 1) + 1)..m PROVE isspace(text[q])
      <4>1. q = t \/ q \in (t + 1)..m
        BY <1>1, <2>2
      <4>2. QED
        BY <2>3, <2>5, <4>1
    <3>6. At(n, t - 1)
      BY <3>2, <3>4, <3>5
    <3>7. QED
      BY <2>2, <3>4, <3>6
  <2>6. CASE ~(t > 0 /\ isspace(text[t]))
    <3>1. f[n] = f[n - 1]
      BY <2>2, <2>3, <2>4, <2>6 DEF TrimTurn
    <3>2. t = 0 \/ ~isspace(text[t])
      BY <2>2, <2>6
    <3>3. At(n, t)
      BY <2>3, <3>1, <3>2
    <3>4. QED
      BY <2>2, <3>3
  <2>7. QED
    BY <2>5, <2>6
<1> HIDE DEF T
<1>5. \A n \in 0..m : n \in T
  BY <1>1, <1>3, <1>4, EveryTurn
<1>6. PICK t \in 0..m : At(m, t)
  <2>1. m \in T
    BY <1>1, <1>5
  <2>2. QED
    BY <2>1 DEF T
<1>7. /\ CutTo(f[m], s, t) /\ (t > 0 => ~isspace(text[t]))
      /\ \A q \in (t + 1)..m : isspace(text[q])
  BY <1>1, <1>6
<1>8. TrimsTo(text, t)
  BY <1>1, <1>7 DEF TrimsTo
<1>9. QED
  BY <1>1, <1>2, <1>7, <1>8

\* A string without memory stays.
LEMMA TrimFailed == mrs_trim_trailing_whitespace(Failed) = Failed
<1>1. Failed \in Strs /\ Failed.len = 0
  BY FailedIs DEF Failed
<1>2. QED
  BY <1>1, TrimTurns

-----------------------------------------------------------------------------
(* The end of the vector of lines *)

\* From r on the lines are empty.
StripsTo(vec, r) ==
    /\ r \in 0..vec.len
    /\ \A n \in (r + 1)..vec.len : vec.arr[n].len = 0
    /\ r > 0 => vec.arr[r].len # 0

\* The vector is cut behind its last line that is not empty.
LEMMA StripIs ==
    ASSUME NEW vec, vec.len \in Nat
    PROVE  \E r : StripsTo(vec, r) /\ Strip(vec) = [vec EXCEPT !.len = r]
<1> DEFINE m == vec.len
           IsEmpty(n) == n > 0 /\ mrv_get_idx(vec, n - 1).len = 0
           F == [n \in 1..m |-> [r \in Nat |-> IF IsEmpty(n) THEN r ELSE n]]
           Is(f) == f = [n \in 0..vec.len |->
                      IF n > 0 /\ mrv_get_idx(vec, n - 1).len = 0
                      THEN f[n - 1] ELSE n]
           rest == CHOOSE f : Is(f)
<1>1. m \in Nat
  OBVIOUS
<1>2. F \in [1..m -> [Nat -> Nat]]
  <2> HIDE DEF IsEmpty
  <2>1. QED
    BY <1>1
<1>3. PICK g : AreTurns(g, Nat, F, 0, m)
  <2> HIDE DEF F, m
  <2>1. QED
    BY <1>1, <1>2, TurnsExist
<1>4. Is(g)
  <2>1. ASSUME NEW n \in 0..m
        PROVE  g[n] = IF IsEmpty(n) THEN g[n - 1] ELSE n
    <3>1. CASE n = 0
      BY <1>3, <3>1 DEF AreTurns
    <3>2. CASE n # 0
      <4>1. n - 1 \in 0..m /\ n \in 1..m
        BY <1>1, <3>2
      <4>2. g[n - 1] \in Nat /\ g[n] = F[n][g[n - 1]]
        BY <1>3, <4>1 DEF AreTurns
      <4> HIDE DEF IsEmpty
      <4>3. QED
        BY <4>1, <4>2
    <3>3. QED
      BY <3>1, <3>2
  <2> HIDE DEF IsEmpty
  <2>2. g = [n \in 0..m |-> IF IsEmpty(n) THEN g[n - 1] ELSE n]
    BY <1>3, <2>1 DEF AreTurns
  <2>3. QED
    BY <2>2 DEF IsEmpty
<1>5. Is(rest)
  BY <1>4
<1>6. Strip(vec) = [vec EXCEPT !.len = rest[m]]
  BY DEF Strip
<1> HIDE DEF rest
<1>7. \A n \in 0..m : rest[n] = IF IsEmpty(n) THEN rest[n - 1] ELSE n
  BY <1>5
<1>8. \A n \in 1..m : IsEmpty(n) <=> vec.arr[n].len = 0
  <2>1. \A n \in 1..m : n > 0 /\ (n - 1) + 1 = n
    BY <1>1
  <2>2. QED
    BY <2>1 DEF mrv_get_idx
<1>9. rest[0] = 0
  BY <1>1, <1>7
<1> HIDE DEF IsEmpty
<1> DEFINE Found(n) ==
               /\ rest[n] \in 0..n
               /\ \A q \in (rest[n] + 1)..n : vec.arr[q].len = 0
               /\ rest[n] > 0 => vec.arr[rest[n]].len # 0
           T == {n \in 0..m : Found(n)}
<1>10. 0 \in T
  BY <1>1, <1>9
<1>11. ASSUME NEW n \in 1..m, n - 1 \in T
       PROVE  n \in T
  <2>1. n \in 0..m /\ n \in Nat /\ n - 1 \in Nat
    BY <1>1
  <2>2. CASE IsEmpty(n)
    <3>1. rest[n] = rest[n - 1] /\ vec.arr[n].len = 0
      BY <1>7, <1>8, <2>1, <2>2
    <3>2. Found(n - 1)
      BY <1>11
    <3>3. rest[n] \in 0..n
      BY <2>1, <3>1, <3>2
    <3>4. ASSUME NEW q \in (rest[n] + 1)..n PROVE vec.arr[q].len = 0
      <4>1. q = n \/ q \in (rest[n - 1] + 1)..(n - 1)
        BY <2>1, <3>1, <3>3
      <4>2. QED
        BY <3>1, <3>2, <4>1
    <3>5. QED
      BY <2>1, <3>1, <3>2, <3>3, <3>4
  <2>3. CASE ~IsEmpty(n)
    <3>1. rest[n] = n /\ vec.arr[n].len # 0
      BY <1>7, <1>8, <2>1, <2>3
    <3>2. QED
      BY <2>1, <3>1
  <2>4. QED
    BY <2>2, <2>3
<1> HIDE DEF T
<1>12. \A n \in 0..m : n \in T
  BY <1>1, <1>10, <1>11, EveryTurn
<1>13. Found(m)
  <2>1. m \in T
    BY <1>1, <1>12
  <2>2. QED
    BY <2>1 DEF T
<1>14. StripsTo(vec, rest[m])
  BY <1>1, <1>13 DEF StripsTo
<1>15. QED
  BY <1>6, <1>14

-----------------------------------------------------------------------------
(* getline *)

\* The line of a text from start on ends at its n-th character.
LineEndsAt(text, start, n) ==
    /\ n \in (start + 1)..Len(text)
    /\ text[n] = Newline \/ n = Len(text)
    /\ \A q \in (start + 1)..(n - 1) : text[q] # Newline

\* getline returns the characters up to the first newline, or to the end.
LEMMA LineAtIs ==
    ASSUME NEW S, NEW text \in Seq(S), NEW start \in Nat, start < Len(text)
    PROVE  \E n : /\ LineEndsAt(text, start, n)
                  /\ LineAt(text, start) \in Seq(S)
                  /\ Len(LineAt(text, start)) = n - start
                  /\ \A q \in 1..(n - start) :
                        LineAt(text, start)[q] = text[start + q]
<1> DEFINE ends == {n \in (start + 1)..Len(text) :
                       text[n] = Newline \/ n = Len(text)}
           least == CHOOSE n \in ends : \A e \in ends : n <= e
<1>1. Len(text) \in Nat
  OBVIOUS
<1>2. LineAt(text, start) = SubSeq(text, start + 1, least)
  BY DEF LineAt
<1>3. Len(text) \in ends /\ ends \in SUBSET Nat
  BY <1>1
<1>4. \E n \in ends : \A e \in ends : n <= e
  <2> HIDE DEF ends
  <2>1. ends # {}
    BY <1>3
  <2>2. QED
    BY <1>3, <2>1, LeastNatural
<1>5. least \in ends /\ \A e \in ends : least <= e
  BY <1>4
<1> HIDE DEF least
<1>6. /\ least \in (start + 1)..Len(text)
      /\ text[least] = Newline \/ least = Len(text)
  BY <1>5
<1>7. ASSUME NEW q \in (start + 1)..(least - 1) PROVE text[q] # Newline
  <2>1. q \in (start + 1)..Len(text) /\ ~(least <= q)
    BY <1>1, <1>6
  <2>2. q \notin ends
    BY <1>5, <2>1
  <2>3. QED
    BY <2>1, <2>2
<1>8. LineEndsAt(text, start, least)
  BY <1>6, <1>7 DEF LineEndsAt
<1>9. \A q \in (start + 1)..least : text[q] \in S
  BY <1>1, <1>6
<1>10. /\ SubSeq(text, start + 1, least) \in Seq(S)
       /\ Len(SubSeq(text, start + 1, least)) = least - start
       /\ \A q \in 1..(least - start) :
             SubSeq(text, start + 1, least)[q] = text[start + q]
  <2> DEFINE sub == SubSeq(text, start + 1, least)
  <2>1. start + 1 \in Int /\ least \in Int /\ start + 1 <= least
    BY <1>6
  <2>2. sub \in Seq(S)
    BY <1>9, <2>1, SubSeqProperties
  <2>3. Len(sub) = least - start
    BY <1>6, <2>1
  <2>4. ASSUME NEW q \in 1..(least - start) PROVE sub[q] = text[start + q]
    BY <1>6, <2>1
  <2>5. QED
    BY <2>2, <2>3, <2>4
<1>11. QED
  BY <1>2, <1>8, <1>10

-----------------------------------------------------------------------------
(* What is picked from a sequence *)

\* How many places there are up to the n-th.
Rank(places, n) == Cardinality({m \in places : m <= n})

\* Places are counted.
LEMMA PlacesAre ==
    ASSUME NEW m \in Nat, NEW P \in SUBSET (1..m)
    PROVE  /\ IsFiniteSet(P)
           /\ Cardinality(P) \in Nat
           /\ P \in SUBSET Nat
<1>1. IsFiniteSet(1..m)
  BY FS_Interval
<1>2. IsFiniteSet(P)
  BY <1>1, FS_Subset
<1>3. QED
  BY <1>2, FS_CardinalityType

\* The rank of a number: how many places are up to it.
LEMMA RankIs ==
    ASSUME NEW m \in Nat, NEW P \in SUBSET (1..m), NEW n \in Nat
    PROVE  /\ Rank(P, n) \in Nat
           /\ Rank(P, n) <= Cardinality(P)
           /\ Rank(P, n) <= n
           /\ n \in P => Rank(P, n) > 0
<1> DEFINE U == {q \in P : q <= n}
<1>1. /\ IsFiniteSet(P) /\ Cardinality(P) \in Nat
      /\ \A q \in P : q \in Nat /\ q >= 1
  BY PlacesAre
<1>2. U \subseteq P /\ U \subseteq 1..n
  <2>1. U \subseteq P /\ \A q \in U : q \in Nat /\ q >= 1 /\ q <= n
    BY <1>1
  <2> HIDE DEF U
  <2>2. QED
    BY <2>1
<1>3. n \in P => n \in U
  BY <1>1
<1>4. Rank(P, n) = Cardinality(U)
  BY DEF Rank
<1> HIDE DEF U
<1>5. IsFiniteSet(U) /\ Cardinality(U) <= Cardinality(P)
  BY <1>1, <1>2, FS_Subset
<1>6. Cardinality(U) \in Nat
  BY <1>5, FS_CardinalityType
<1>7. Cardinality(U) <= n
  <2>1. IsFiniteSet(1..n) /\ Cardinality(1..n) = n
    BY FS_Interval
  <2>2. Cardinality(U) <= Cardinality(1..n)
    BY <1>2, <2>1, FS_Subset
  <2>3. QED
    BY <2>1, <2>2
<1>8. n \in P => Cardinality(U) > 0
  <2>1. n \in P => U # {}
    BY <1>3
  <2>2. U # {} => Cardinality(U) # 0
    BY <1>5, FS_EmptySet
  <2>3. QED
    BY <1>6, <2>1, <2>2
<1>9. QED
  BY <1>4, <1>5, <1>6, <1>7, <1>8

\* A place has one behind it of a higher rank.
LEMMA RankGrows ==
    ASSUME NEW m \in Nat, NEW P \in SUBSET (1..m), NEW n \in Nat, NEW p \in P,
           n < p
    PROVE  Rank(P, n) < Rank(P, p)
<1> DEFINE U == {q \in P : q <= n}
           V == {q \in P : q <= p}
<1>1. IsFiniteSet(P) /\ \A q \in P : q \in Nat
  BY PlacesAre
<1>2. U \subseteq P /\ V \subseteq P /\ p \in Nat
  BY <1>1
<1>3. p \notin U /\ U \cup {p} \subseteq V
  <2>1. ~(p <= n) /\ p <= p
    BY <1>2
  <2>2. \A q \in U : q \in P /\ q <= p
    BY <1>1, <1>2
  <2>3. QED
    BY <2>1, <2>2
<1> HIDE DEF U, V
<1>4. IsFiniteSet(U) /\ IsFiniteSet(V)
  BY <1>1, <1>2, FS_Subset
<1>5. Cardinality(U) \in Nat /\ Cardinality(V) \in Nat
  BY <1>4, FS_CardinalityType
<1>6. Cardinality(U \cup {p}) = Cardinality(U) + 1
  BY <1>3, <1>4, FS_AddElement
<1>7. Cardinality(U \cup {p}) <= Cardinality(V)
  BY <1>3, <1>4, FS_Subset
<1>8. QED
  BY <1>5, <1>6, <1>7 DEF Rank, U, V

\* Every rank is that of a place.
LEMMA RankOfSome ==
    ASSUME NEW m \in Nat, NEW P \in SUBSET (1..m), NEW r \in 1..Cardinality(P)
    PROVE  \E p \in P : Rank(P, p) = r
<1>1. IsFiniteSet(P) /\ P \in SUBSET Nat /\ Cardinality(P) \in Nat
  BY PlacesAre
<1>2. r \in Nat /\ r - 1 \in Nat /\ r - 1 < Cardinality(P)
  BY <1>1
<1>3. PICK p \in P : Cardinality({q \in P : q < p}) = r - 1
  BY <1>1, <1>2, EveryRank
<1> DEFINE U == {q \in P : q < p}
           V == {q \in P : q <= p}
<1>4. p \notin U /\ V = U \cup {p} /\ U \subseteq P
  <2>1. \A q \in P : q \in Nat /\ p \in Nat
    BY <1>1
  <2>2. \A q \in P : q <= p <=> (q < p \/ q = p)
    BY <2>1
  <2>3. ~(p < p)
    BY <2>1
  <2>4. QED
    BY <2>2, <2>3
<1>5. Cardinality(U) = r - 1
  BY <1>3
<1>6. Rank(P, p) = Cardinality(V)
  BY DEF Rank
<1> HIDE DEF U, V
<1>7. IsFiniteSet(U)
  BY <1>1, <1>4, FS_Subset
<1>8. Cardinality(V) = Cardinality(U) + 1
  BY <1>4, <1>7, FS_AddElement
<1>9. QED
  BY <1>2, <1>5, <1>6, <1>8

\* And of one only.
LEMMA RankOfOne ==
    ASSUME NEW m \in Nat, NEW P \in SUBSET (1..m), NEW p \in P, NEW q \in P,
           Rank(P, p) = Rank(P, q)
    PROVE  p = q
<1>1. p \in Nat /\ q \in Nat
  BY PlacesAre
<1>2. Rank(P, p) \in Nat /\ Rank(P, q) \in Nat
  BY <1>1, RankIs
<1>3. ASSUME p < q PROVE FALSE
  <2>1. Rank(P, p) < Rank(P, q)
    BY <1>1, <1>3, RankGrows
  <2>2. QED
    BY <1>2, <2>1
<1>4. ASSUME q < p PROVE FALSE
  <2>1. Rank(P, q) < Rank(P, p)
    BY <1>1, <1>4, RankGrows
  <2>2. QED
    BY <1>2, <2>1
<1>5. QED
  BY <1>1, <1>3, <1>4

\* A place has a rank among all.
LEMMA RankRange ==
    ASSUME NEW m \in Nat, NEW P \in SUBSET (1..m), NEW p \in P
    PROVE  Rank(P, p) \in 1..Cardinality(P)
<1>1. p \in Nat /\ Cardinality(P) \in Nat
  BY PlacesAre
<1>2. Rank(P, p) \in Nat /\ Rank(P, p) <= Cardinality(P) /\ Rank(P, p) > 0
  BY <1>1, RankIs
<1>3. QED
  BY <1>1, <1>2

\* A place's item is picked at the place's rank.
IsPicked(S, s, text, P) ==
    /\ s \in Seq(S)
    /\ Len(s) = Cardinality(P)
    /\ \A p \in P : s[Rank(P, p)] = text[p]

\* The items at the places, in their order.
LEMMA PickedIs ==
    ASSUME NEW S, NEW text \in Seq(S), NEW P \in SUBSET (1..Len(text))
    PROVE  IsPicked(S, Picked(text, P), text, P)
<1> DEFINE c == Cardinality(P)
           At(r) == CHOOSE n \in P : Cardinality({m \in P : m <= n}) = r
           s == Picked(text, P)
<1>1. Len(text) \in Nat
  OBVIOUS
<1>2. c \in Nat
  BY <1>1, PlacesAre
<1>3. ASSUME NEW r \in 1..c
      PROVE  At(r) \in P /\ Rank(P, At(r)) = r
  <2>1. \E n \in P : Cardinality({m \in P : m <= n}) = r
    BY <1>1, RankOfSome DEF Rank
  <2>2. QED
    BY <2>1 DEF Rank
<1>4. s = [r \in 1..c |-> text[At(r)]]
  BY DEF Picked
<1> HIDE DEF c, At, s
<1>5. ASSUME NEW r \in 1..c PROVE text[At(r)] \in S
  <2>1. At(r) \in 1..Len(text)
    BY <1>3
  <2>2. QED
    BY <2>1
<1>6. s \in Seq(S) /\ Len(s) = c
  BY <1>2, <1>4, <1>5
<1>7. ASSUME NEW p \in P PROVE s[Rank(P, p)] = text[p]
  <2>1. p \in Nat
    OBVIOUS
  <2>2. Rank(P, p) \in 1..c
    BY <1>1, RankRange DEF c
  <2>3. At(Rank(P, p)) = p
    BY <1>1, <1>3, <2>2, RankOfOne
  <2>4. QED
    BY <1>4, <2>2, <2>3
<1>8. QED
  BY <1>6, <1>7 DEF IsPicked, s, c

\* There is no other such sequence.
LEMMA PickedUnique ==
    ASSUME NEW S, NEW text \in Seq(S), NEW P \in SUBSET (1..Len(text)),
           NEW s, IsPicked(S, s, text, P)
    PROVE  Picked(text, P) = s
<1> DEFINE t == Picked(text, P)
<1>1. IsPicked(S, t, text, P)
  BY PickedIs
<1> HIDE DEF t
<1>2. Len(text) \in Nat
  OBVIOUS
<1>3. t \in Seq(S) /\ s \in Seq(S) /\ Len(t) = Len(s) /\ Len(s) = Cardinality(P)
  BY <1>1 DEF IsPicked
<1>4. ASSUME NEW r \in 1..Len(s) PROVE t[r] = s[r]
  <2>1. PICK p \in P : Rank(P, p) = r
    BY <1>2, <1>3, RankOfSome
  <2>2. QED
    BY <1>1, <2>1 DEF IsPicked
<1>5. t = s
  BY <1>3, <1>4, SeqEqual
<1>6. QED
  BY <1>5 DEF t

\* One more place, behind the others.
LEMMA PickedNext ==
    ASSUME NEW S, NEW text \in Seq(S), NEW P \in SUBSET (1..Len(text)),
           NEW n \in 1..Len(text), \A p \in P : p < n
    PROVE  Picked(text, P \cup {n}) = Append(Picked(text, P), text[n])
<1> DEFINE s == Picked(text, P)
           t == Append(s, text[n])
           Q == P \cup {n}
<1>1. Len(text) \in Nat /\ Q \in SUBSET (1..Len(text)) /\ n \in Nat
      /\ text[n] \in S
  OBVIOUS
<1>2. n \notin P
  BY <1>1
<1>3. IsFiniteSet(P) /\ Cardinality(P) \in Nat /\ \A p \in P : p \in Nat
  BY <1>1, PlacesAre
<1>4. Cardinality(Q) = Cardinality(P) + 1
  BY <1>2, <1>3, FS_AddElement
<1>5. IsPicked(S, s, text, P)
  BY PickedIs
<1> HIDE DEF s
<1>6. s \in Seq(S) /\ Len(s) = Cardinality(P)
  BY <1>5 DEF IsPicked
<1>7. /\ t \in Seq(S) /\ Len(t) = Cardinality(Q)
      /\ \A r \in 1..Cardinality(P) : t[r] = s[r]
      /\ t[Cardinality(P) + 1] = text[n]
  BY <1>1, <1>3, <1>4, <1>6, AppendProperties
<1> HIDE DEF t
<1>8. ASSUME NEW p \in Q PROVE t[Rank(Q, p)] = text[p]
  <2>1. CASE p \in P
    <3>1. p \in Nat /\ p < n
      BY <1>3, <2>1
    <3>2. {q \in Q : q <= p} = {q \in P : q <= p}
      BY <1>1, <3>1
    <3>3. Rank(Q, p) = Rank(P, p)
      BY <3>2 DEF Rank
    <3>4. Rank(P, p) \in 1..Cardinality(P)
      BY <1>1, <2>1, RankRange
    <3>5. QED
      BY <1>5, <1>7, <2>1, <3>3, <3>4 DEF IsPicked
  <2>2. CASE p = n
    <3>0. \A q \in Q : q <= n
      BY <1>1, <1>3
    <3>1. {q \in Q : q <= n} = Q
      BY <3>0
    <3>2. Rank(Q, n) = Cardinality(P) + 1
      BY <1>4, <3>1 DEF Rank
    <3>3. QED
      BY <1>7, <2>2, <3>2
  <2>3. QED
    BY <2>1, <2>2
<1>9. IsPicked(S, t, text, Q)
  BY <1>7, <1>8 DEF IsPicked
<1> HIDE DEF Q
<1>10. Picked(text, Q) = t
  BY <1>1, <1>9, PickedUnique
<1>11. QED
  BY <1>10 DEF s, t, Q

\* No place.
LEMMA PickedNone ==
    ASSUME NEW S, NEW text \in Seq(S)
    PROVE  Picked(text, {}) = <<>>
<1>1. Cardinality({}) = 0
  BY FS_EmptySet
<1>2. IsPicked(S, <<>>, text, {})
  BY <1>1 DEF IsPicked
<1>3. QED
  BY <1>2, PickedUnique

AppendsBehind(a, b, x) == Append(a \o b, x) = a \o Append(b, x)

\* Appending to the second of two sequences appends to both.
LEMMA AppendBehind ==
    ASSUME NEW S, NEW a \in Seq(S), NEW b \in Seq(S), NEW x \in S
    PROVE  AppendsBehind(a, b, x)
<1> DEFINE u == Append(a \o b, x)
           v == a \o Append(b, x)
<1>1. /\ a \o b \in Seq(S) /\ Len(a \o b) = Len(a) + Len(b)
      /\ Append(b, x) \in Seq(S) /\ Len(Append(b, x)) = Len(b) + 1
      /\ Len(a) \in Nat /\ Len(b) \in Nat
  OBVIOUS
<1>2. /\ u \in Seq(S) /\ Len(u) = Len(a) + Len(b) + 1
      /\ v \in Seq(S) /\ Len(v) = Len(a) + Len(b) + 1
  BY <1>1
<1>3. ASSUME NEW q \in 1..(Len(a) + Len(b) + 1) PROVE u[q] = v[q]
  <2>1. CASE q <= Len(a)
    BY <1>1, <2>1
  <2>2. CASE q > Len(a) /\ q <= Len(a) + Len(b)
    BY <1>1, <2>2
  <2>3. CASE q = Len(a) + Len(b) + 1
    BY <1>1, <2>3
  <2>4. QED
    BY <1>1, <2>1, <2>2, <2>3
<1>4. u = v
  BY <1>2, <1>3, SeqEqual
<1>5. QED
  BY <1>4 DEF AppendsBehind

\* All of the n places behind s, after the others.
PicksRun(text, P, s, n, run) ==
    Picked(text, P \cup ((s + 1)..(s + n))) = Picked(text, P) \o run

\* A run of places behind the others adds the run of items there.
LEMMA PickedRun ==
    ASSUME NEW S, NEW text \in Seq(S), NEW P \in SUBSET (1..Len(text)),
           NEW s \in Nat, \A p \in P : p <= s,
           NEW n \in Nat, s + n <= Len(text),
           NEW run \in Seq(S), Len(run) = n,
           \A q \in 1..n : run[q] = text[s + q]
    PROVE  PicksRun(text, P, s, n, run)
<1> DEFINE Q(m) == P \cup ((s + 1)..(s + m))
           T == {m \in 0..n : Picked(text, Q(m)) =
                                 Picked(text, P) \o SubSeq(run, 1, m)}
           old == Picked(text, P)
<1>1. /\ Len(text) \in Nat
      /\ \A m \in 0..n : Q(m) \in SUBSET (1..Len(text))
  OBVIOUS
<1>2. old \in Seq(S)
  BY PickedIs DEF IsPicked
<1> HIDE DEF old
<1>3. 0 \in T
  <2>1. (s + 1)..(s + 0) = {}
    OBVIOUS
  <2>2. Q(0) = P
    BY <2>1
  <2>3. SubSeq(run, 1, 0) = <<>>
    OBVIOUS
  <2>4. old \o <<>> = old
    BY <1>2
  <2> HIDE DEF Q
  <2>5. Picked(text, Q(0)) = old \o SubSeq(run, 1, 0)
    BY <2>2, <2>3, <2>4 DEF old
  <2>6. QED
    BY <2>5 DEF old
<1>4. ASSUME NEW m \in 1..n, m - 1 \in T
      PROVE  m \in T
  <2>1. /\ m \in 0..n /\ s + m \in 1..Len(text) /\ m - 1 \in 0..n /\ m \in Nat
        /\ (s + 1)..(s + m) = ((s + 1)..(s + (m - 1))) \cup {s + m}
    BY <1>1
  <2>2. Q(m) = Q(m - 1) \cup {s + m}
    BY <2>1
  <2>3. \A p \in Q(m - 1) : p < s + m
    BY <2>1
  <2>4. Q(m - 1) \in SUBSET (1..Len(text))
    BY <1>1, <2>1
  <2>5. Picked(text, Q(m - 1)) = old \o SubSeq(run, 1, m - 1)
    BY <1>4 DEF old
  <2> HIDE DEF Q
  <2>6. Picked(text, Q(m)) = Append(old \o SubSeq(run, 1, m - 1), text[s + m])
    BY <2>1, <2>2, <2>3, <2>4, <2>5, PickedNext
  <2>7. SubSeq(run, 1, m) = Append(SubSeq(run, 1, m - 1), run[m])
        /\ SubSeq(run, 1, m - 1) \in Seq(S) /\ run[m] \in S
    <3>1. /\ \A q \in 1..m : run[q] \in S
          /\ \A q \in 1..(m - 1) : run[q] \in S
      BY <2>1
    <3>2. /\ SubSeq(run, 1, m) \in Seq(S) /\ SubSeq(run, 1, m - 1) \in Seq(S)
      BY <2>1, <3>1, SubSeqProperties
    <3>3. QED
      BY <2>1, <3>2
  <2>9. Append(old \o SubSeq(run, 1, m - 1), run[m]) =
           old \o Append(SubSeq(run, 1, m - 1), run[m])
    <3> DEFINE front == SubSeq(run, 1, m - 1)
    <3>1. front \in Seq(S) /\ run[m] \in S
      BY <2>7
    <3> HIDE DEF front
    <3>2. Append(old \o front, run[m]) = old \o Append(front, run[m])
      <4>1. AppendsBehind(old, front, run[m])
        BY <1>2, <3>1, AppendBehind
      <4>2. QED
        BY <4>1 DEF AppendsBehind
    <3>3. QED
      BY <3>2 DEF front
  <2>10. Picked(text, Q(m)) = old \o SubSeq(run, 1, m)
    BY <2>6, <2>7, <2>9
  <2>11. QED
    BY <2>1, <2>10 DEF old
<1> HIDE DEF T
<1>5. n \in T
  <2>1. \A m \in 0..n : m \in T
    BY <1>3, <1>4, EveryTurn
  <2>2. QED
    BY <2>1
<1>6. SubSeq(run, 1, n) = run
  OBVIOUS
<1>7. QED
  BY <1>5, <1>6 DEF T, Q, old, PicksRun

-----------------------------------------------------------------------------
(* What is in memory and on the disk *)

Cells == Strs \cup {Junk}

\* A line in memory, trimmed, pushed to or without memory.
Fine(s) ==
    /\ s \in Strs
    /\ s.len <= Len(s.value)
    /\ s.len <= s.capacity
    /\ s.bad = FALSE
    /\ s.value = Null \/ Terminated(s)

Places == {"exit", "open", "read", "check", "write", "flush", "truncate", "close"}

FilesInv ==
    /\ at \in Places
    /\ \A f \in DOMAIN files : files[f] \in Seq(Chars)
    /\ before \in Seq(Chars)
    /\ paths \in Seq(DOMAIN files)
    /\ i \in Nat
    /\ at # "exit" => i > 0
    /\ Processing => i <= Len(paths)

StreamInv ==
    /\ pos \in Nat
    /\ out \in Seq(Chars)
    /\ Processing => pos <= Len(files[name])
    /\ at \in {"exit", "open", "read", "check"} => pos = 0 /\ out = <<>>

ReadInv ==
    /\ rd \in Nat
    /\ at \in {"exit", "open"} => rd = 0
    /\ at \in {"read", "check"} => rd <= Len(files[name])

LinesInv ==
    /\ lines \in VectorsOf(Cells)
    /\ Fit(lines)
    /\ \A n \in 1..lines.len : Fine(lines.arr[n])
    /\ at \in {"exit", "open", "check"} => lines = Empty

CountInv ==
    /\ k \in Nat
    /\ at \in {"exit", "open", "read", "check"} => k = 0
    /\ at = "write" => k <= lines.len

TypeInv == FilesInv /\ StreamInv /\ ReadInv /\ LinesInv /\ CountInv

\* While a file is processed it has a name and is on the disk.
LEMMA NameIs ==
    ASSUME FilesInv, Processing
    PROVE  name \in DOMAIN files /\ files[name] \in Seq(Chars)
<1>1. i \in 1..Len(paths)
  BY DEF FilesInv, Processing
<1>2. paths[i] \in DOMAIN files
  BY <1>1 DEF FilesInv
<1>3. QED
  BY <1>2 DEF FilesInv, name

\* A vector as process_files makes it.
LEMMA EmptyIs ==
    /\ Empty \in VectorsOf(Cells)
    /\ Fit(Empty)
    /\ Empty.len = 0
<1>1. LinesCapacity \in Nat
  BY SpacersAssumption
<1>2. malloc(LinesCapacity) \in Seq(Cells) /\ Len(malloc(LinesCapacity)) = LinesCapacity
  BY <1>1, MallocIs DEF Cells
<1>3. Empty = [arr |-> malloc(LinesCapacity), len |-> 0,
               capacity |-> LinesCapacity, bad |-> FALSE]
  BY DEF Empty, mrv_init
<1>4. QED
  BY <1>1, <1>2, <1>3 DEF VectorsOf, Fit

\* It has no line that could be broken.
LEMMA EmptyLines ==
    /\ Empty \in VectorsOf(Cells)
    /\ Fit(Empty)
    /\ \A n \in 1..Empty.len : Fine(Empty.arr[n])
<1>1. 1..0 = {}
  OBVIOUS
<1>2. QED
  BY <1>1, EmptyIs

\* A string that got no memory is no harm to the calls.
LEMMA FailedIsFine == Fine(Failed)
<1>1. /\ Failed \in Strs /\ Failed.value = Null /\ Failed.len = 0
      /\ Failed.capacity = 0 /\ Failed.bad = FALSE
  BY FailedIs DEF Failed
<1>2. QED
  BY <1>1 DEF Fine, Null

\* Nor is one that spells a text.
LEMMA SpellsIsFine ==
    ASSUME NEW s, NEW text, Spells(s, text)
    PROVE  Fine(s)
BY DEF Spells, Has, Fine

\* A text written over a file from an offset on.
IsOver(r, file, off, text) ==
    /\ r \in Seq(Chars)
    /\ Len(r) >= Len(file)
    /\ Len(r) >= off + Len(text)
    /\ Len(r) <= Len(file) \/ Len(r) <= off + Len(text)
    /\ \A p \in 1..off : r[p] = file[p]
    /\ \A p \in 1..Len(text) : r[off + p] = text[p]
    /\ \A p \in (off + Len(text) + 1)..Len(file) : r[p] = file[p]

\* A text stored over a file, which gets longer where it has to.
LEMMA OverIs ==
    ASSUME NEW file \in Seq(Chars), NEW off \in Nat, off <= Len(file),
           NEW text \in Seq(Chars)
    PROVE  IsOver(Over(file, off, text), file, off, text)
<1> DEFINE a == SubSeq(file, 1, off)
           c == SubSeq(file, off + Len(text) + 1, Len(file))
           ab == a \o text
           r == ab \o c
<1>1. Len(file) \in Nat /\ Len(text) \in Nat
  OBVIOUS
<1>2. a \in Seq(Chars) /\ Len(a) = off /\ \A p \in 1..off : a[p] = file[p]
  <2>1. \A p \in 1..off : file[p] \in Chars
    BY <1>1
  <2>2. a \in Seq(Chars)
    BY <1>1, <2>1, SubSeqProperties
  <2>3. QED
    BY <1>1, <2>2
<1>3. /\ c \in Seq(Chars)
      /\ Len(c) = IF off + Len(text) < Len(file)
                  THEN Len(file) - off - Len(text) ELSE 0
      /\ \A p \in 1..Len(c) : c[p] = file[off + Len(text) + p]
  <2>1. \A p \in (off + Len(text) + 1)..Len(file) : file[p] \in Chars
    BY <1>1
  <2>2. off + Len(text) + 1 \in Int /\ Len(file) \in Int
    BY <1>1
  <2>3. c \in Seq(Chars)
    BY <2>1, <2>2, SubSeqProperties
  <2>4. CASE off + Len(text) < Len(file)
    <3>1. Len(c) = Len(file) - off - Len(text)
      BY <1>1, <2>4
    <3>2. ASSUME NEW p \in 1..Len(c) PROVE c[p] = file[off + Len(text) + p]
      BY <1>1, <2>4, <3>1
    <3>3. QED
      BY <2>3, <2>4, <3>1, <3>2
  <2>5. CASE ~(off + Len(text) < Len(file))
    <3>1. Len(c) = 0
      BY <1>1, <2>5
    <3>2. QED
      BY <2>3, <2>5, <3>1
  <2>6. QED
    BY <2>4, <2>5
<1> HIDE DEF a, c
<1>4. /\ ab \in Seq(Chars) /\ Len(ab) = off + Len(text)
      /\ \A p \in 1..off : ab[p] = file[p]
      /\ \A p \in 1..Len(text) : ab[off + p] = text[p]
  <2>1. ab \in Seq(Chars) /\ Len(ab) = off + Len(text)
    BY <1>1, <1>2
  <2>2. ASSUME NEW p \in 1..off PROVE ab[p] = file[p]
    BY <1>1, <1>2, <2>2
  <2>3. ASSUME NEW p \in 1..Len(text) PROVE ab[off + p] = text[p]
    BY <1>1, <1>2, <2>3
  <2>4. QED
    BY <2>1, <2>2, <2>3
<1> HIDE DEF ab
<1>5. /\ r \in Seq(Chars) /\ Len(r) = off + Len(text) + Len(c)
      /\ \A p \in 1..(off + Len(text)) : r[p] = ab[p]
      /\ \A p \in 1..Len(c) : r[off + Len(text) + p] = c[p]
  <2>0. Len(c) \in Nat
    BY <1>3
  <2>5. r \in Seq(Chars)
    BY <1>3, <1>4
  <2>7. ab \in Seq(Chars) /\ c \in Seq(Chars)
    BY <1>3, <1>4
  <2>6. Len(r) = Len(ab) + Len(c)
    BY <2>7, ConcatProperties
  <2>1. r \in Seq(Chars) /\ Len(r) = off + Len(text) + Len(c) /\ Len(c) \in Nat
    BY <1>4, <2>0, <2>5, <2>6
  <2>2. ASSUME NEW p \in 1..(off + Len(text)) PROVE r[p] = ab[p]
    BY <1>1, <1>3, <1>4, <2>1, <2>2
  <2>3. ASSUME NEW p \in 1..Len(c) PROVE r[off + Len(text) + p] = c[p]
    BY <1>1, <1>3, <1>4, <2>1, <2>3
  <2>4. QED
    BY <2>1, <2>2, <2>3
<1> HIDE DEF r
<1>6. /\ Len(r) >= Len(file) /\ Len(r) >= off + Len(text)
      /\ Len(r) <= Len(file) \/ Len(r) <= off + Len(text)
  <2>1. off + Len(text) \in Nat /\ Len(r) = off + Len(text) + Len(c)
    BY <1>1, <1>5
  <2>2. CASE off + Len(text) < Len(file)
    <3>1. Len(c) = Len(file) - off - Len(text)
      BY <1>3, <2>2
    <3>2. Len(r) = Len(file)
      BY <1>1, <2>1, <3>1
    <3>3. QED
      BY <1>1, <2>1, <2>2, <3>2
  <2>3. CASE ~(off + Len(text) < Len(file))
    <3>1. Len(c) = 0
      BY <1>3, <2>3
    <3>2. Len(r) = off + Len(text)
      BY <1>1, <2>1, <3>1
    <3>3. QED
      BY <1>1, <2>1, <2>3, <3>2
  <2>4. QED
    BY <2>2, <2>3
<1>7. ASSUME NEW p \in 1..off PROVE r[p] = file[p]
  <2>1. p \in 1..(off + Len(text))
    BY <1>1
  <2>2. QED
    BY <1>4, <1>5, <2>1
<1>8. ASSUME NEW p \in 1..Len(text) PROVE r[off + p] = text[p]
  <2>1. off + p \in 1..(off + Len(text))
    BY <1>1
  <2>2. QED
    BY <1>4, <1>5, <2>1
<1>9. ASSUME NEW p \in (off + Len(text) + 1)..Len(file) PROVE r[p] = file[p]
  <2> DEFINE q == p - off - Len(text)
  <2>1. p \in Nat /\ off + Len(text) < p /\ p <= Len(file)
    BY <1>1
  <2>4. off + Len(text) < Len(file)
    BY <1>1, <2>1
  <2>5. Len(c) = Len(file) - off - Len(text)
    BY <1>3, <2>4
  <2>6. q \in Nat /\ q >= 1 /\ q <= Len(c) /\ p = off + Len(text) + q
    BY <1>1, <2>1, <2>5
  <2> HIDE DEF q
  <2>2. q \in 1..Len(c) /\ p = off + Len(text) + q
    BY <2>5, <2>6, <1>1
  <2>3. QED
    BY <1>3, <1>5, <2>2
<1>10. IsOver(r, file, off, text)
  BY <1>5, <1>6, <1>7, <1>8, <1>9 DEF IsOver
<1>11. QED
  BY <1>10 DEF Over, r, ab, a, c

\* ftruncate.
LEMMA CutIs ==
    ASSUME NEW file \in Seq(Chars), NEW n \in Nat
    PROVE  /\ Cut(file, n) \in Seq(Chars)
           /\ Len(Cut(file, n)) = n
           /\ \A p \in 1..n : p <= Len(file) => Cut(file, n)[p] = file[p]
<1>1. \A p \in 1..n : (IF p <= Len(file) THEN file[p] ELSE Nul) \in Chars
  BY CharsAre
<1>2. QED
  BY <1>1 DEF Cut

\* What goes to the disk, and what stays in memory.
LEMMA WriteOutIs ==
    ASSUME FilesInv, StreamInv, Processing, NEW n \in 0..Len(out), WriteOut(n)
    PROVE  /\ DOMAIN files' = DOMAIN files
           /\ \A f \in DOMAIN files : f # name => files'[f] = files[f]
           /\ IsOver(files'[name], files[name], pos, SubSeq(out, 1, n))
           /\ pos' = pos + n
           /\ out' = SubSeq(out, n + 1, Len(out))
           /\ SubSeq(out, 1, n) \in Seq(Chars)
           /\ Len(SubSeq(out, 1, n)) = n
           /\ out' \in Seq(Chars)
           /\ Len(out') = Len(out) - n
<1>1. name \in DOMAIN files /\ files[name] \in Seq(Chars)
  BY NameIs
<1>2. pos \in Nat /\ out \in Seq(Chars) /\ pos <= Len(files[name])
      /\ Len(out) \in Nat /\ n \in Nat /\ n <= Len(out)
  BY DEF StreamInv
<1>3. /\ files' = [files EXCEPT ![name] = Over(@, pos, SubSeq(out, 1, n))]
      /\ pos' = pos + n
      /\ out' = SubSeq(out, n + 1, Len(out))
  BY DEF WriteOut
<1>4. SubSeq(out, 1, n) \in Seq(Chars) /\ Len(SubSeq(out, 1, n)) = n
  <2>1. \A q \in 1..n : out[q] \in Chars
    BY <1>2
  <2>2. QED
    BY <1>2, <2>1, SubSeqProperties
<1>5. out' \in Seq(Chars) /\ Len(out') = Len(out) - n
  <2> DEFINE o == SubSeq(out, n + 1, Len(out))
  <2>1. \A q \in (n + 1)..Len(out) : out[q] \in Chars
    BY <1>2
  <2>2. n + 1 \in Int /\ Len(out) \in Int
    BY <1>2
  <2>3. o \in Seq(Chars)
    BY <2>1, <2>2, SubSeqProperties
  <2>4. Len(o) = Len(out) - n
    BY <1>2
  <2> HIDE DEF o
  <2>5. QED
    BY <1>3, <2>3, <2>4 DEF o
<1> DEFINE t == SubSeq(out, 1, n)
<1> HIDE DEF t
<1>6. IsOver(Over(files[name], pos, t), files[name], pos, t)
  BY <1>1, <1>2, <1>4, OverIs DEF t
<1>7. files'[name] = Over(files[name], pos, t)
  BY <1>1, <1>3 DEF t
<1>8. /\ DOMAIN files' = DOMAIN files
      /\ \A f \in DOMAIN files : f # name => files'[f] = files[f]
  BY <1>1, <1>3
<1>9. QED
  BY <1>3, <1>4, <1>5, <1>6, <1>7, <1>8 DEF t

-----------------------------------------------------------------------------
(* What a step makes of a line *)

\* The string that a line of a file, from an offset to the n-th character, is
\* read into, with t characters left.
IsRead(str, file, from, n, t) ==
    /\ Fine(str)
    /\ str.value # Null
    /\ Terminated(str)
    /\ str.len = t
    /\ t \in 0..(n - from)
    /\ \A q \in 1..t : str.value[q] = file[from + q]
    /\ \A q \in (t + 1)..(n - from) : isspace(file[from + q])
    /\ t > 0 => ~isspace(file[from + t])

\* What a line is read into if the memory is given or not.
LineString(given) ==
    mrs_trim_trailing_whitespace(mrs_init(Len(Line), Line, given))

\* The line of the file that is read, and the string it is read into.
LineRead(str, n, given) ==
    /\ LineEndsAt(files[name], rd, n)
    /\ Len(Line) = n - rd
    /\ str \in Strs
    /\ IF given THEN \E t \in Nat : IsRead(str, files[name], rd, n, t)
       ELSE str = Failed

\* mrs_init of a line and the trim behind it.
LEMMA LineReadIs ==
    ASSUME FilesInv, ReadInv, Processing, rd < Len(files[name]),
           NEW given \in BOOLEAN
    PROVE  \E n : LineRead(LineString(given), n, given)
<1> DEFINE file == files[name]
           line == Line
<1>1. file \in Seq(Chars) /\ rd \in Nat /\ Len(file) \in Nat
  BY NameIs DEF ReadInv
<1>2. line = LineAt(file, rd)
  BY DEF Line
<1> HIDE DEF file, line
<1>3. PICK n : /\ LineEndsAt(file, rd, n)
               /\ line \in Seq(Chars)
               /\ Len(line) = n - rd
               /\ \A q \in 1..(n - rd) : line[q] = file[rd + q]
  <2>1. rd < Len(file)
    BY DEF file
  <2>2. QED
    BY <1>1, <1>2, <2>1, LineAtIs
<1>4. n \in Nat /\ rd < n /\ n - rd \in Nat /\ n - rd > 0
  BY <1>1, <1>3 DEF LineEndsAt
<1>5. CASE given = TRUE
  <2> DEFINE s == mrs_init(Len(line), line, TRUE)
  <2>1. Spells(s, line) /\ Sized(s) /\ s.capacity = Len(line)
    BY <1>3, <1>4, InitIs
  <2> HIDE DEF s
  <2>2. PICK t \in Nat : /\ TrimsTo(line, t)
                         /\ CutTo(mrs_trim_trailing_whitespace(s), s, t)
    BY <1>3, <2>1, TrimIs
  <2> DEFINE str == mrs_trim_trailing_whitespace(s)
  <2>3. CutTo(str, s, t)
    BY <2>2
  <2>4. str = LineString(given)
    BY <1>5 DEF LineString, s, line
  <2> HIDE DEF str
  <2>5. t \in 0..(n - rd) /\ Len(line) \in Nat
    BY <1>3, <1>4, <2>2 DEF TrimsTo
  <2>6. /\ str \in Strs /\ str.len = t /\ str.capacity = n - rd
        /\ str.bad = FALSE /\ Terminated(str)
        /\ \A q \in 1..t : str.value[q] = s.value[q]
    BY <1>3, <2>1, <2>3 DEF CutTo
  <2>7. t < Len(str.value) /\ str.value \in Seq(Chars) /\ Len(str.value) \in Nat
    BY <2>6 DEF Terminated, Strs
  <2>8. str.value # Null
    <3>1. Len(Null) = 0
      BY DEF Null
    <3>2. QED
      BY <2>7, <3>1
  <2>9. ASSUME NEW q \in 1..t PROVE str.value[q] = file[rd + q]
    <3>1. q \in 1..(n - rd)
      BY <1>4, <2>5
    <3>2. s.value[q] = line[q]
      BY <1>3, <2>1, <3>1 DEF Spells, Has
    <3>3. QED
      BY <1>3, <2>6, <3>1, <3>2
  <2>10. ASSUME NEW q \in (t + 1)..(n - rd) PROVE isspace(file[rd + q])
    <3>1. q \in 1..(n - rd)
      BY <1>4, <2>5
    <3>2. isspace(line[q])
      BY <1>3, <2>2 DEF TrimsTo
    <3>3. QED
      BY <1>3, <3>1, <3>2
  <2>11. t > 0 => ~isspace(file[rd + t])
    <3>1. t > 0 => t \in 1..(n - rd)
      BY <1>4, <2>5
    <3>2. QED
      BY <1>3, <2>2, <3>1 DEF TrimsTo
  <2>12. Fine(str)
    BY <1>4, <2>5, <2>6, <2>7 DEF Fine
  <2>13. IsRead(str, file, rd, n, t)
    BY <2>5, <2>6, <2>8, <2>9, <2>10, <2>11, <2>12 DEF IsRead
  <2>14. LineRead(str, n, given)
    BY <1>3, <1>5, <2>6, <2>13 DEF LineRead, file, line
  <2>15. QED
    BY <2>4, <2>14
<1>6. CASE given = FALSE
  <2>1. mrs_init(Len(line), line, FALSE) = Failed
    BY <1>3, InitFails
  <2>2. LineString(given) = Failed
    BY <1>6, <2>1, TrimFailed DEF LineString, line
  <2>3. LineRead(Failed, n, given)
    BY <1>3, <1>6, FailedIs DEF LineRead, file, line
  <2>4. QED
    BY <2>2, <2>3
<1>7. QED
  BY <1>5, <1>6

\* The vector that a string is appended to, or that is left as it was.
Longer(str, room) == mrv_append(lines, str, "INCREMENT", room)

\* The vector of lines after an append, granted or refused.
LEMMA LongerIs ==
    ASSUME LinesInv, NEW str \in Strs, NEW room \in BOOLEAN
    PROVE  \/ Longer(str, room) = lines
           \/ AppendedTo(Cells, Longer(str, room), lines, str)
<1>1. lines \in VectorsOf(Cells) /\ Fit(lines) /\ Junk \in Cells /\ str \in Cells
  BY DEF LinesInv, Cells
<1>2. "INCREMENT" \in Scalings /\ Grows(lines, "INCREMENT")
  BY DEF Scalings, Grows
<1>3. IF lines.capacity = lines.len /\ ~room
      THEN mrv_append(lines, str, "INCREMENT", room) = lines
      ELSE AppendedTo(Cells, mrv_append(lines, str, "INCREMENT", room), lines, str)
  BY <1>1, <1>2, AppendIs
<1>4. QED
  BY <1>3 DEF Longer

\* A step that reads a line: the string, where the line ends, and whether the
\* memory was given.
Reads(str, n, given) ==
    /\ LineRead(str, n, given)
    /\ rd' = n
    /\ ignored \subseteq ignored'
    /\ given \/ "mrs_init" \in ignored'
    /\ \/ lines' = lines /\ "mrv_append" \in ignored'
       \/ AppendedTo(Cells, lines', lines, str)

\* ReadLine appends the line that is read, unless a failure is noted.
LEMMA ReadLineIs ==
    ASSUME FilesInv, ReadInv, LinesInv, ReadLine
    PROVE  \E str, n : \E given \in BOOLEAN : Reads(str, n, given)
<1>1. /\ at = "read" /\ rd < Len(files[name]) /\ rd' = rd + Len(Line)
      /\ \E given, room \in BOOLEAN :
            /\ lines' = Longer(LineString(given), room)
            /\ ignored' = ignored
                 \cup (IF given THEN {} ELSE {"mrs_init"})
                 \cup (IF Longer(LineString(given), room) # lines
                       THEN {} ELSE {"mrv_append"})
  BY DEF ReadLine, Longer, LineString
<1>2. PICK given, room \in BOOLEAN :
            /\ lines' = Longer(LineString(given), room)
            /\ ignored' = ignored
                 \cup (IF given THEN {} ELSE {"mrs_init"})
                 \cup (IF Longer(LineString(given), room) # lines
                       THEN {} ELSE {"mrv_append"})
  BY <1>1
<1> DEFINE str == LineString(given)
<1>3. Processing
  BY <1>1 DEF Processing
<1>4. PICK n : LineRead(str, n, given)
  BY <1>1, <1>3, LineReadIs
<1>5. lines' = Longer(str, room)
  BY <1>2
<1>6. ignored \subseteq ignored' /\ (given \/ "mrs_init" \in ignored')
      /\ (lines' = lines => "mrv_append" \in ignored')
  BY <1>2
<1> HIDE DEF str
<1>7. str \in Strs /\ Len(Line) = n - rd /\ n \in Nat /\ rd \in Nat
  <2>1. rd \in Nat /\ files[name] \in Seq(Chars)
    BY <1>3, NameIs DEF ReadInv
  <2>2. QED
    BY <1>4, <2>1 DEF LineRead, LineEndsAt
<1>8. lines' = lines \/ AppendedTo(Cells, lines', lines, str)
  BY <1>5, <1>7, LongerIs
<1>9. rd' = n
  BY <1>1, <1>7
<1>10. Reads(str, n, given)
  BY <1>4, <1>6, <1>8, <1>9 DEF Reads
<1>11. QED
  BY <1>10

\* A string that a line was read into, pushed to.
IsPushed(str, old, granted) ==
    /\ Fine(str)
    /\ Text(old) \in Seq(Chars)
    /\ Text(str) \in Seq(Chars)
    /\ IF granted
       THEN /\ Text(str) = Append(Text(old), Newline)
            /\ str.value # Null
       ELSE str = old

\* A line with its newline pushed, or as it was.
LEMMA PushedLineIs ==
    ASSUME NEW s, Fine(s), NEW granted \in BOOLEAN
    PROVE  IsPushed(mrs_pushstr(s, <<Newline>>, granted), s, granted)
<1> DEFINE text == Text(s)
           p == mrs_pushstr(s, <<Newline>>, granted)
<1>1. s \in Strs /\ s.len <= Len(s.value) /\ s.len <= s.capacity /\ s.bad = FALSE
  BY DEF Fine
<1>2. text \in Seq(Chars) /\ Has(s, text)
  BY <1>1, HasText
<1> HIDE DEF text
<1>3. <<Newline>> \in Seq(Chars) /\ Newline \in Chars
  BY CharsAre
<1>4. CASE granted = TRUE
  <2>1. Spells(mrs_pushstr(s, <<Newline>>, TRUE), text \o <<Newline>>)
    BY <1>2, <1>3, PushIs
  <2>2. p = mrs_pushstr(s, <<Newline>>, TRUE)
    BY <1>4
  <2> HIDE DEF p
  <2> DEFINE longer == Append(text, Newline)
  <2>3. text \o <<Newline>> = longer
    BY <1>2, <1>3
  <2>4. longer \in Seq(Chars) /\ Len(longer) = Len(text) + 1 /\ Len(text) \in Nat
    BY <1>2, <1>3
  <2> HIDE DEF longer
  <2>5. Spells(p, longer)
    BY <2>1, <2>2, <2>3
  <2>6. Text(p) = longer
    BY <2>4, <2>5, TextIs DEF Spells
  <2>7. Fine(p)
    BY <2>5, SpellsIsFine
  <2>8. p.value # Null
    <3>1. p.len <= Len(p.value) /\ p.len = Len(longer) /\ Len(p.value) \in Nat
      BY <2>5 DEF Spells, Has, Strs
    <3>2. Len(Null) = 0
      BY DEF Null
    <3>3. QED
      BY <2>4, <3>1, <3>2
  <2>9. IsPushed(p, s, granted)
    BY <1>2, <1>4, <2>4, <2>6, <2>7, <2>8 DEF IsPushed, longer, text
  <2>10. QED
    BY <2>9 DEF p
<1>5. CASE granted = FALSE
  <2>1. mrs_pushstr(s, <<Newline>>, FALSE) = s
    BY <1>2, <1>3, PushIs
  <2>2. p = s
    BY <1>5, <2>1
  <2> HIDE DEF p
  <2>3. IsPushed(p, s, granted)
    BY <1>2, <1>5, <2>2 DEF IsPushed, text
  <2>4. QED
    BY <2>3 DEF p
<1>6. QED
  BY <1>4, <1>5

\* A line of the vector takes the place of the one that was pushed to.
Replaced(new, old, n, str) ==
    /\ new \in VectorsOf(Cells)
    /\ Fit(new)
    /\ new.len = old.len
    /\ new.arr[n] = str
    /\ \A q \in 1..old.len : q # n => new.arr[q] = old.arr[q]

\* One line of the vector in the place of another.
LEMMA ReplacedIs ==
    ASSUME NEW vec \in VectorsOf(Cells), Fit(vec), NEW n \in 1..vec.len,
           NEW str \in Strs
    PROVE  Replaced([vec EXCEPT !.arr[n] = str], vec, n, str)
<1> DEFINE new == [vec EXCEPT !.arr[n] = str]
           arr == [vec.arr EXCEPT ![n] = str]
<1>1. /\ vec.arr \in Seq(Cells) /\ vec.len \in Nat /\ vec.capacity \in Nat
      /\ vec.bad = FALSE /\ vec.len <= vec.capacity
      /\ vec.capacity <= Len(vec.arr) /\ Len(vec.arr) \in Nat /\ str \in Cells
  BY DEF VectorsOf, Fit, Cells
<1>2. n \in 1..Len(vec.arr)
  BY <1>1
<1>3. arr \in Seq(Cells) /\ Len(arr) = Len(vec.arr)
  BY <1>1, <1>2
<1>4. arr[n] = str /\ \A q \in 1..Len(vec.arr) : q # n => arr[q] = vec.arr[q]
  BY <1>1, <1>2
<1>5. new = [vec EXCEPT !.arr = arr]
  BY DEF VectorsOf
<1> HIDE DEF new, arr
<1>6. /\ new.arr = arr /\ new.len = vec.len /\ new.capacity = vec.capacity
      /\ new.bad = vec.bad /\ new \in VectorsOf(Cells)
  BY <1>1, <1>3, <1>5 DEF VectorsOf
<1>7. \A q \in 1..vec.len : q \in 1..Len(vec.arr)
  BY <1>1
<1>8. Replaced(new, vec, n, str)
  BY <1>1, <1>3, <1>4, <1>6, <1>7 DEF Replaced, Fit
<1>9. QED
  BY <1>8 DEF new

\* A step that hands a line to stdio.
Writes(str, granted) ==
    /\ IsPushed(str, lines.arr[k + 1], granted)
    /\ Replaced(lines', lines, k + 1, str)
    /\ out' = out \o Text(str)
    /\ ignored \subseteq ignored'
    /\ granted \/ "mrs_pushstr" \in ignored'

\* WriteLine hands over the text of the line, with its newline if granted.
LEMMA WriteLineIs ==
    ASSUME LinesInv, CountInv, WriteLine
    PROVE  \E str : \E granted \in BOOLEAN : Writes(str, granted)
<1>1. PICK granted \in BOOLEAN :
         LET str == mrs_pushstr(mrv_get_idx(lines, k), <<Newline>>, granted)
         IN  /\ lines' = [lines EXCEPT !.arr[k + 1] = str]
             /\ out' = out \o Text(str)
             /\ Ignoring("mrs_pushstr", granted)
  BY DEF WriteLine
<1> DEFINE old == lines.arr[k + 1]
           str == mrs_pushstr(old, <<Newline>>, granted)
<1>2. /\ lines' = [lines EXCEPT !.arr[k + 1] = str]
      /\ out' = out \o Text(str)
  BY <1>1 DEF mrv_get_idx
<1>3. ignored \subseteq ignored' /\ (granted \/ "mrs_pushstr" \in ignored')
  BY <1>1 DEF Ignoring
<1>4. /\ k \in Nat /\ k < lines.len /\ lines \in VectorsOf(Cells) /\ Fit(lines)
      /\ lines.len \in Nat
  BY DEF WriteLine, LinesInv, CountInv, VectorsOf
<1>5. k + 1 \in 1..lines.len
  BY <1>4
<1>6. Fine(old)
  BY <1>5 DEF LinesInv
<1> HIDE DEF old
<1>7. IsPushed(str, old, granted)
  BY <1>6, PushedLineIs
<1> HIDE DEF str
<1>8. str \in Strs
  BY <1>7 DEF IsPushed, Fine
<1> DEFINE next == k + 1
<1>9. next \in 1..lines.len
  BY <1>5
<1> HIDE DEF next
<1>10. Replaced([lines EXCEPT !.arr[next] = str], lines, next, str)
  BY <1>4, <1>8, <1>9, ReplacedIs
<1>11. Writes(str, granted)
  BY <1>2, <1>3, <1>7, <1>10 DEF Writes, old, next
<1>12. QED
  BY <1>11

-----------------------------------------------------------------------------
(* The type invariant *)

\* TypeInv holds at first, and each action keeps it.
LEMMA InitType == ASSUME Init PROVE TypeInv
<1>1. PICK start \in Starts : files = start
  BY DEF Init
<1>2. \A f \in DOMAIN files : files[f] \in Seq(Chars)
  <2>1. \A f \in DOMAIN files : files[f] \in Seq(Bytes)
    BY <1>1, SpacersAssumption
  <2>2. Bytes \subseteq Chars
    BY DEF Chars
  <2>3. QED
    BY <2>1, <2>2
<1>3. /\ paths = <<>> /\ i = 0 /\ at = "exit" /\ rd = 0 /\ k = 0 /\ pos = 0
      /\ lines = Empty /\ out = <<>> /\ before = <<>>
  BY DEF Init
<1>4. <<>> \in Seq(DOMAIN files) /\ <<>> \in Seq(Chars)
  OBVIOUS
<1>5. FilesInv
  BY <1>2, <1>3, <1>4 DEF FilesInv, Places, Processing
<1>6. StreamInv
  BY <1>3, <1>4 DEF StreamInv, Processing
<1>7. ReadInv
  BY <1>3 DEF ReadInv
<1>8. LinesInv
  BY <1>3, EmptyLines DEF LinesInv
<1>9. CountInv
  BY <1>3 DEF CountInv
<1>10. QED
  BY <1>5, <1>6, <1>7, <1>8, <1>9 DEF TypeInv

\* The files of a command line.
LEMMA PathsAre ==
    ASSUME NEW args \in Seq(STRING), NEW S,
           NEW P \in SUBSET (1..Len(args)), \A n \in P : args[n] \in S
    PROVE  Picked(args, P) \in Seq(S)
<1> DEFINE s == Picked(args, P)
<1>1. IsPicked(STRING, s, args, P)
  BY PickedIs
<1> HIDE DEF s
<1>2. s \in Seq(STRING) /\ Len(s) = Cardinality(P) /\ Len(args) \in Nat
  BY <1>1 DEF IsPicked
<1>3. ASSUME NEW r \in 1..Len(s) PROVE s[r] \in S
  <2>1. PICK p \in P : Rank(P, p) = r
    BY <1>2, <1>3, RankOfSome
  <2>2. QED
    BY <1>1, <2>1 DEF IsPicked
<1>4. s \in Seq(S)
  BY <1>2, <1>3
<1>5. QED
  BY <1>4 DEF s

LEMMA StartType == ASSUME TypeInv, Start PROVE TypeInv'
<1>1. PICK args \in Commands :
         paths' = IF Understood(args)
                  THEN Picked(args, {n \in DOMAIN args : IsFile(args[n])})
                  ELSE <<>>
  BY DEF Start
<1>2. /\ at = "exit" /\ at' = "open" /\ i' = 1
      /\ files' = files /\ before' = before /\ lines' = lines /\ rd' = rd
      /\ k' = k /\ pos' = pos /\ out' = out
  BY DEF Start, file_vars, line_vars, stream_vars
<1>3. paths' \in Seq(DOMAIN files)
  <2> DEFINE P == {n \in DOMAIN args : IsFile(args[n])}
  <2>1. args \in Seq(STRING)
    BY SpacersAssumption
  <2>2. DOMAIN args = 1..Len(args)
    BY <2>1
  <2>3. P \in SUBSET (1..Len(args)) /\ \A n \in P : args[n] \in DOMAIN files
    BY <2>2 DEF IsFile
  <2> HIDE DEF P
  <2>4. Picked(args, P) \in Seq(DOMAIN files)
    BY <2>1, <2>3, PathsAre
  <2>5. <<>> \in Seq(DOMAIN files)
    OBVIOUS
  <2>6. paths' = IF Understood(args) THEN Picked(args, P) ELSE <<>>
    BY <1>1 DEF P
  <2>7. QED
    BY <2>4, <2>5, <2>6
<1>4. FilesInv'
  BY <1>2, <1>3 DEF TypeInv, FilesInv, Places, Processing
<1>5. StreamInv' /\ ReadInv' /\ LinesInv' /\ CountInv'
  BY <1>2 DEF TypeInv, StreamInv, ReadInv, LinesInv, CountInv, Processing
<1>6. QED
  BY <1>4, <1>5 DEF TypeInv

\* Back in process_files, or gone.
LEMMA ReleaseType ==
    ASSUME TypeInv, Release, at' \in {"exit", "open"},
           files' = files, before' = before, paths' = paths,
           i' \in Nat, i' > 0
    PROVE  TypeInv'
<1>1. /\ lines' = Empty /\ rd' = 0 /\ k' = 0 /\ pos' = 0 /\ out' = <<>>
  BY DEF Release
<1>2. ~Processing'
  BY DEF Processing
<1>3. FilesInv'
  BY <1>2 DEF TypeInv, FilesInv, Places
<1>4. LinesInv'
  BY <1>1, EmptyLines DEF LinesInv
<1>5. StreamInv'
  <2>1. <<>> \in Seq(Chars) /\ 0 \in Nat
    OBVIOUS
  <2>2. QED
    BY <1>1, <1>2, <2>1 DEF StreamInv
<1>6. ReadInv'
  BY <1>1 DEF ReadInv
<1>7. CountInv'
  BY <1>1 DEF CountInv
<1>8. QED
  BY <1>3, <1>4, <1>5, <1>6, <1>7 DEF TypeInv

\* The name changes with the list and the index only.
LEMMA NameStays ==
    ASSUME paths' = paths, i' = i
    PROVE  name' = name
BY DEF name

LEMMA ProcessType ==
    ASSUME TypeInv, Open \/ CannotOpen \/ NoMoreFiles
    PROVE  TypeInv'
<1>1. /\ at = "open" /\ lines' = lines /\ rd' = rd /\ k' = k /\ pos' = pos
      /\ out' = out /\ files' = files /\ paths' = paths
  BY DEF Open, CannotOpen, NoMoreFiles, file_vars, line_vars, stream_vars,
         arg_vars
<1>2. i \in Nat /\ i > 0
  BY <1>1 DEF TypeInv, FilesInv
<1>3. CASE Open
  <2>1. /\ at' \in {"read", "check"} /\ i <= Len(paths) /\ i' = i
        /\ before' = files[name]
    BY <1>3 DEF Open
  <2>2. name' = name
    BY <1>1, <2>1, NameStays
  <2>3. files[name] \in Seq(Chars)
    <3>1. i \in 1..Len(paths) /\ paths \in Seq(DOMAIN files)
      BY <1>2, <2>1 DEF TypeInv, FilesInv
    <3>2. paths[i] \in DOMAIN files
      BY <3>1
    <3>3. QED
      BY <3>2 DEF TypeInv, FilesInv, name
  <2>4. Processing' /\ at' \in Places /\ at' # "exit" /\ at' # "open"
    BY <2>1 DEF Processing, Places
  <2>5. FilesInv'
    BY <1>1, <1>2, <2>1, <2>3, <2>4 DEF TypeInv, FilesInv
  <2>6. pos = 0 /\ out = <<>> /\ rd = 0 /\ lines = Empty /\ k = 0
    BY <1>1 DEF TypeInv, StreamInv, ReadInv, LinesInv, CountInv
  <2>7. 0 <= Len(files[name]) /\ <<>> \in Seq(Chars)
    BY <2>3
  <2>8. StreamInv' /\ ReadInv'
    BY <1>1, <2>2, <2>6, <2>7 DEF StreamInv, ReadInv
  <2>9. LinesInv' /\ CountInv'
    BY <1>1, <2>1, <2>6 DEF TypeInv, LinesInv, CountInv
  <2>10. QED
    BY <2>5, <2>8, <2>9 DEF TypeInv
<1>4. CASE CannotOpen \/ NoMoreFiles
  <2>1. at' \in {"exit", "open"} /\ before' = before /\ i' \in {i, i + 1}
    BY <1>1, <1>4 DEF CannotOpen, NoMoreFiles, file_vars
  <2>2. FilesInv'
    BY <1>1, <1>2, <2>1 DEF TypeInv, FilesInv, Processing, Places
  <2>3. StreamInv' /\ ReadInv' /\ LinesInv' /\ CountInv'
    BY <1>1, <2>1 DEF TypeInv, StreamInv, ReadInv, LinesInv, CountInv,
                      Processing
  <2>4. QED
    BY <2>2, <2>3 DEF TypeInv
<1>5. QED
  BY <1>3, <1>4

\* What keeps the disk keeps FilesInv.
LEMMA FilesStay ==
    ASSUME FilesInv, Processing, Processing', files' = files, before' = before,
           paths' = paths, i' = i, at' \in Places
    PROVE  FilesInv' /\ name' = name
BY NameStays DEF FilesInv, Processing

\* A fine line appended to fine lines.
LEMMA AppendedIsFine ==
    ASSUME LinesInv, NEW str \in Strs, Fine(str),
           AppendedTo(Cells, lines', lines, str),
           at' \notin {"exit", "open", "check"}
    PROVE  LinesInv'
<1>1. /\ lines' \in VectorsOf(Cells) /\ Fit(lines') /\ lines'.len = lines.len + 1
      /\ \A q \in 1..lines.len : lines'.arr[q] = lines.arr[q]
      /\ lines'.arr[lines.len + 1] = str
  BY DEF AppendedTo
<1>2. lines.len \in Nat
  BY DEF LinesInv, VectorsOf
<1>3. ASSUME NEW n \in 1..(lines.len + 1) PROVE Fine(lines'.arr[n])
  <2>1. n = lines.len + 1 \/ n \in 1..lines.len
    BY <1>2
  <2>2. QED
    BY <1>1, <2>1 DEF LinesInv
<1>4. QED
  BY <1>1, <1>3 DEF LinesInv

LEMMA ReadLineType == ASSUME TypeInv, ReadLine PROVE TypeInv'
<1>1. FilesInv /\ ReadInv /\ LinesInv /\ StreamInv /\ CountInv
  BY DEF TypeInv
<1>2. PICK str, n : \E given \in BOOLEAN : Reads(str, n, given)
  BY <1>1, ReadLineIs
<1>3. PICK given \in BOOLEAN : Reads(str, n, given)
  BY <1>2
<1>4. /\ at = "read" /\ at' = "read" /\ files' = files /\ before' = before
      /\ paths' = paths /\ i' = i /\ k' = k /\ pos' = pos /\ out' = out
  BY DEF ReadLine, stream_vars, arg_vars
<1>5. FilesInv' /\ name' = name /\ Processing
  BY <1>1, <1>4, FilesStay DEF Processing, Places
<1>6. StreamInv' /\ CountInv'
  BY <1>1, <1>4, <1>5 DEF StreamInv, CountInv
<1>7. ReadInv'
  <2>1. n \in (rd + 1)..Len(files[name]) /\ rd' = n
    BY <1>3 DEF Reads, LineRead, LineEndsAt
  <2>2. rd \in Nat
    BY <1>1 DEF ReadInv
  <2>3. n \in Nat /\ n <= Len(files[name])
    BY <2>1, <2>2
  <2>4. QED
    BY <1>4, <1>5, <2>1, <2>3 DEF ReadInv
<1>8. LinesInv'
  <2>1. str \in Strs /\ Fine(str)
    <3>1. str \in Strs /\ IF given THEN \E t \in Nat :
                              IsRead(str, files[name], rd, n, t)
                          ELSE str = Failed
      BY <1>3 DEF Reads, LineRead
    <3>2. QED
      BY <3>1, FailedIsFine DEF IsRead
  <2>2. CASE lines' = lines
    BY <1>1, <1>4, <2>2 DEF LinesInv
  <2>3. CASE AppendedTo(Cells, lines', lines, str)
    BY <1>1, <1>4, <2>1, <2>3, AppendedIsFine
  <2>4. QED
    BY <1>3, <2>2, <2>3 DEF Reads
<1>9. QED
  BY <1>5, <1>6, <1>7, <1>8 DEF TypeInv

\* A shorter vector of the same lines.
LEMMA StrippedLines ==
    ASSUME LinesInv, lines' = Strip(lines), at' = "write"
    PROVE  LinesInv' /\ \E r : StripsTo(lines, r) /\ lines'.len = r
                              /\ lines'.arr = lines.arr
<1>1. lines \in VectorsOf(Cells) /\ Fit(lines) /\ lines.len \in Nat
      /\ lines.capacity \in Nat
  BY DEF LinesInv, VectorsOf
<1>2. PICK r : StripsTo(lines, r) /\ Strip(lines) = [lines EXCEPT !.len = r]
  BY <1>1, StripIs
<1>3. r \in Nat /\ r <= lines.len
  BY <1>1, <1>2 DEF StripsTo
<1>4. /\ lines'.arr = lines.arr /\ lines'.len = r
      /\ lines'.capacity = lines.capacity /\ lines'.bad = lines.bad
      /\ lines' \in VectorsOf(Cells)
  BY <1>1, <1>2, <1>3 DEF VectorsOf
<1>5. Fit(lines')
  BY <1>1, <1>3, <1>4 DEF Fit
<1>6. \A n \in 1..r : n \in 1..lines.len
  BY <1>1, <1>3
<1>7. LinesInv'
  BY <1>4, <1>5, <1>6 DEF LinesInv
<1>8. QED
  BY <1>2, <1>4, <1>7

LEMMA EndReadType == ASSUME TypeInv, EndRead PROVE TypeInv'
<1>1. FilesInv /\ ReadInv /\ LinesInv /\ StreamInv /\ CountInv
  BY DEF TypeInv
<1>2. /\ at = "read" /\ at' = "write" /\ files' = files /\ before' = before
      /\ paths' = paths /\ i' = i /\ k' = k /\ pos' = 0 /\ out' = out
      /\ rd' = rd /\ lines' = Strip(lines)
  BY DEF EndRead, arg_vars
<1>3. FilesInv' /\ name' = name /\ Processing
  BY <1>1, <1>2, FilesStay DEF Processing, Places
<1>4. LinesInv'
  BY <1>1, <1>2, StrippedLines
<1>5. files[name] \in Seq(Chars)
  BY <1>1, <1>3, NameIs
<1>6. StreamInv'
  <2>1. 0 <= Len(files[name])
    BY <1>5
  <2>2. QED
    BY <1>1, <1>2, <1>3, <2>1 DEF StreamInv
<1>7. ReadInv'
  BY <1>1, <1>2 DEF ReadInv
<1>8. CountInv'
  <2>1. k = 0 /\ lines'.len \in Nat
    BY <1>1, <1>2, <1>4 DEF CountInv, LinesInv, VectorsOf
  <2>2. 0 <= lines'.len
    BY <2>1
  <2>3. QED
    BY <1>2, <2>1, <2>2 DEF CountInv
<1>9. QED
  BY <1>3, <1>4, <1>6, <1>7, <1>8 DEF TypeInv

LEMMA CheckLineType == ASSUME TypeInv, CheckLine PROVE TypeInv'
<1>1. FilesInv /\ ReadInv /\ LinesInv /\ StreamInv /\ CountInv
  BY DEF TypeInv
<1>2. /\ at = "check" /\ at' \in {"check", "close"} /\ files' = files
      /\ before' = before /\ rd < Len(files[name])
      /\ paths' = paths /\ i' = i /\ k' = k /\ pos' = pos /\ out' = out
      /\ lines' = lines /\ rd' = rd + Len(Line)
  BY DEF CheckLine, arg_vars, file_vars, stream_vars
<1>3. Processing /\ Processing' /\ at' \in Places
  BY <1>2 DEF Processing, Places
<1>4. FilesInv' /\ name' = name
  BY <1>1, <1>2, <1>3, FilesStay
<1>5. StreamInv' /\ CountInv' /\ LinesInv'
  BY <1>1, <1>2, <1>3, <1>4 DEF StreamInv, CountInv, LinesInv
<1>6. PICK n : LineRead(LineString(FALSE), n, FALSE)
  BY <1>1, <1>2, <1>3, LineReadIs
<1>7. rd' \in Nat /\ rd' <= Len(files[name])
  <2>1. rd \in Nat /\ files[name] \in Seq(Chars)
    BY <1>1, <1>3, NameIs DEF ReadInv
  <2>2. n \in (rd + 1)..Len(files[name]) /\ Len(Line) = n - rd
    BY <1>6 DEF LineRead, LineEndsAt
  <2>3. QED
    BY <1>2, <2>1, <2>2
<1>8. ReadInv'
  BY <1>2, <1>4, <1>7 DEF ReadInv
<1>9. QED
  BY <1>4, <1>5, <1>8 DEF TypeInv

LEMMA EndCheckType == ASSUME TypeInv, EndCheck PROVE TypeInv'
<1>1. FilesInv /\ ReadInv /\ LinesInv /\ StreamInv /\ CountInv
  BY DEF TypeInv
<1>2. /\ at = "check" /\ at' = "close" /\ files' = files /\ before' = before
      /\ paths' = paths /\ i' = i /\ k' = k /\ pos' = pos /\ out' = out
      /\ rd' = rd /\ lines' = lines
  BY DEF EndCheck, arg_vars, line_vars, stream_vars
<1>3. FilesInv' /\ name' = name /\ Processing
  BY <1>1, <1>2, FilesStay DEF Processing, Places
<1>4. StreamInv' /\ CountInv' /\ LinesInv' /\ ReadInv'
  BY <1>1, <1>2, <1>3 DEF StreamInv, CountInv, LinesInv, ReadInv
<1>5. QED
  BY <1>3, <1>4 DEF TypeInv

\* A fine line in the place of another.
LEMMA ReplacedIsFine ==
    ASSUME LinesInv, NEW n \in 1..lines.len, NEW str, Fine(str),
           Replaced(lines', lines, n, str),
           at' \notin {"exit", "open", "check"}
    PROVE  LinesInv'
<1>1. ASSUME NEW q \in 1..lines.len PROVE Fine(lines'.arr[q])
  BY DEF Replaced, LinesInv
<1>2. QED
  BY <1>1 DEF Replaced, LinesInv

LEMMA WriteLineType == ASSUME TypeInv, WriteLine PROVE TypeInv'
<1>1. FilesInv /\ ReadInv /\ LinesInv /\ StreamInv /\ CountInv
  BY DEF TypeInv
<1>2. PICK str : \E granted \in BOOLEAN : Writes(str, granted)
  BY <1>1, WriteLineIs
<1>3. PICK granted \in BOOLEAN : Writes(str, granted)
  BY <1>2
<1>4. /\ at = "write" /\ at' = "write" /\ files' = files /\ before' = before
      /\ paths' = paths /\ i' = i /\ k' = k + 1 /\ pos' = pos
      /\ rd' = rd /\ k < lines.len
  BY DEF WriteLine, arg_vars
<1>5. FilesInv' /\ name' = name /\ Processing
  BY <1>1, <1>4, FilesStay DEF Processing, Places
<1>6. /\ Fine(str) /\ Text(str) \in Seq(Chars) /\ out' = out \o Text(str)
      /\ Replaced(lines', lines, k + 1, str)
  BY <1>3 DEF Writes, IsPushed
<1>7. k \in Nat /\ lines.len \in Nat /\ lines'.len = lines.len
  BY <1>1, <1>6 DEF CountInv, LinesInv, VectorsOf, Replaced
<1>8. LinesInv'
  <2>1. k + 1 \in 1..lines.len
    BY <1>4, <1>7
  <2>2. QED
    BY <1>1, <1>4, <1>6, <2>1, ReplacedIsFine
<1>9. StreamInv'
  <2>1. out' \in Seq(Chars)
    BY <1>1, <1>6 DEF StreamInv
  <2>2. QED
    BY <1>1, <1>4, <1>5, <2>1 DEF StreamInv
<1>10. ReadInv'
  BY <1>1, <1>4 DEF ReadInv
<1>11. CountInv'
  BY <1>4, <1>7 DEF CountInv
<1>12. QED
  BY <1>5, <1>8, <1>9, <1>10, <1>11 DEF TypeInv

\* What WriteOut changes.
LEMMA WriteOutType ==
    ASSUME FilesInv, StreamInv, Processing, Processing',
           NEW n \in 0..Len(out), WriteOut(n), before' = before, paths' = paths,
           i' = i, at' \in Places \ {"exit", "open", "read", "check"}
    PROVE  FilesInv' /\ StreamInv' /\ name' = name
<1>1. name' = name
  BY NameStays
<1>2. name \in DOMAIN files
  BY NameIs
<1>3. /\ DOMAIN files' = DOMAIN files
      /\ \A f \in DOMAIN files : f # name => files'[f] = files[f]
      /\ IsOver(files'[name], files[name], pos, SubSeq(out, 1, n))
      /\ pos' = pos + n
      /\ Len(SubSeq(out, 1, n)) = n
      /\ out' \in Seq(Chars)
  BY WriteOutIs
<1>4. /\ files'[name] \in Seq(Chars)
      /\ Len(files'[name]) >= pos + n
  BY <1>3 DEF IsOver
<1>5. \A f \in DOMAIN files' : files'[f] \in Seq(Chars)
  BY <1>3, <1>4 DEF FilesInv
<1>6. FilesInv'
  BY <1>3, <1>5 DEF FilesInv, Processing
<1>7. StreamInv'
  <2>1. pos \in Nat /\ n \in Nat
    BY DEF StreamInv
  <2>2. pos' \in Nat /\ pos' <= Len(files'[name])
    BY <1>3, <1>4, <2>1
  <2>3. QED
    BY <1>1, <1>3, <2>2 DEF StreamInv
<1>8. QED
  BY <1>1, <1>6, <1>7

LEMMA DrainType == ASSUME TypeInv, Drain PROVE TypeInv'
<1>1. FilesInv /\ ReadInv /\ LinesInv /\ StreamInv /\ CountInv
  BY DEF TypeInv
<1>2. /\ at \in {"write", "flush", "close"} /\ at' = at /\ before' = before
      /\ paths' = paths /\ i' = i /\ k' = k /\ lines' = lines /\ rd' = rd
  BY DEF Drain, arg_vars, line_vars
<1>3. PICK n \in 1..Len(out) : WriteOut(n)
  BY DEF Drain
<1>4. n \in 0..Len(out) /\ Processing /\ Processing'
      /\ at' \in Places \ {"exit", "open", "read", "check"}
  BY <1>2 DEF Processing, Places
<1>5. FilesInv' /\ StreamInv' /\ name' = name
  BY <1>1, <1>2, <1>3, <1>4, WriteOutType
<1>6. ReadInv' /\ LinesInv' /\ CountInv'
  BY <1>1, <1>2, <1>5 DEF ReadInv, LinesInv, CountInv
<1>7. QED
  BY <1>5, <1>6 DEF TypeInv

LEMMA ShortWriteType == ASSUME TypeInv, ShortWrite PROVE TypeInv'
<1>1. FilesInv /\ ReadInv /\ LinesInv /\ StreamInv /\ CountInv
  BY DEF TypeInv
<1>2. /\ at = "write" /\ at' = "close" /\ files' = files /\ before' = before
      /\ paths' = paths /\ i' = i /\ k' = k /\ pos' = pos
      /\ rd' = rd /\ k < lines.len /\ lines' = Empty
  BY DEF ShortWrite, arg_vars, file_vars
<1>3. FilesInv' /\ name' = name /\ Processing
  BY <1>1, <1>2, FilesStay DEF Processing, Places
<1>4. PICK n \in 0..mrv_get_idx(lines, k).len :
         out' = out \o SubSeq(Text(mrv_get_idx(lines, k)), 1, n)
  BY DEF ShortWrite
<1>5. LinesInv'
  BY <1>2, EmptyLines DEF LinesInv
<1>6. StreamInv'
  <2> DEFINE old == lines.arr[k + 1]
             text == Text(old)
             sub == SubSeq(text, 1, n)
  <2>1. out' = out \o sub /\ n \in 0..old.len
    BY <1>4 DEF mrv_get_idx
  <2>2. k \in Nat /\ lines.len \in Nat
    BY <1>1 DEF CountInv, LinesInv, VectorsOf
  <2>3. k + 1 \in 1..lines.len
    BY <1>2, <2>2
  <2>4. Fine(old)
    BY <1>1, <2>3 DEF LinesInv
  <2> HIDE DEF old
  <2>5. Has(old, text)
    BY <2>4, HasText DEF Fine
  <2>6. text \in Seq(Chars)
    BY <2>4, HasText DEF Fine
  <2>7. old.len = Len(text)
    BY <2>5 DEF Has
  <2> HIDE DEF text
  <2>8. sub \in Seq(Chars)
    <3>1. \A q \in 1..n : text[q] \in Chars
      BY <2>1, <2>6, <2>7
    <3>2. n \in Int /\ 1 \in Int
      BY <2>1, <2>7
    <3>3. QED
      BY <3>1, <3>2, SubSeqProperties
  <2> HIDE DEF sub
  <2>9. out' \in Seq(Chars)
    BY <1>1, <2>1, <2>8 DEF StreamInv
  <2>10. QED
    BY <1>1, <1>2, <1>3, <2>9 DEF StreamInv
<1>7. ReadInv' /\ CountInv'
  BY <1>1, <1>2 DEF ReadInv, CountInv
<1>8. QED
  BY <1>3, <1>5, <1>6, <1>7 DEF TypeInv

LEMMA EndWriteType == ASSUME TypeInv, EndWrite PROVE TypeInv'
<1>1. FilesInv /\ ReadInv /\ LinesInv /\ StreamInv /\ CountInv
  BY DEF TypeInv
<1>2. /\ at = "write" /\ at' = "flush" /\ files' = files /\ before' = before
      /\ paths' = paths /\ i' = i /\ k' = k /\ pos' = pos /\ out' = out
      /\ rd' = rd /\ lines' = lines
  BY DEF EndWrite, arg_vars, file_vars, line_vars, stream_vars
<1>3. FilesInv' /\ name' = name /\ Processing
  BY <1>1, <1>2, FilesStay DEF Processing, Places
<1>4. StreamInv' /\ CountInv' /\ LinesInv' /\ ReadInv'
  BY <1>1, <1>2, <1>3 DEF StreamInv, CountInv, LinesInv, ReadInv
<1>5. QED
  BY <1>3, <1>4 DEF TypeInv

LEMMA FlushType == ASSUME TypeInv, Flush PROVE TypeInv'
<1>1. FilesInv /\ ReadInv /\ LinesInv /\ StreamInv /\ CountInv
  BY DEF TypeInv
<1>2. /\ at = "flush" /\ at' = "truncate" /\ before' = before
      /\ paths' = paths /\ i' = i /\ k' = k /\ rd' = rd /\ lines' = lines
  BY DEF Flush, arg_vars, line_vars
<1>3. WriteOut(Len(out)) \/ (files' = files /\ pos' = pos /\ out' = out)
  BY DEF Flush, stream_vars
<1>4. Processing /\ Processing'
      /\ at' \in Places \ {"exit", "open", "read", "check"}
  BY <1>2 DEF Processing, Places
<1>5. FilesInv' /\ StreamInv' /\ name' = name
  <2>1. CASE WriteOut(Len(out))
    <3>1. Len(out) \in 0..Len(out)
      BY <1>1 DEF StreamInv
    <3>2. QED
      BY <1>1, <1>2, <1>4, <2>1, <3>1, WriteOutType
  <2>2. CASE files' = files /\ pos' = pos /\ out' = out
    <3>1. FilesInv' /\ name' = name
      BY <1>1, <1>2, <1>4, <2>2, FilesStay
    <3>2. QED
      BY <1>1, <1>2, <2>2, <3>1, <1>4 DEF StreamInv
  <2>3. QED
    BY <1>3, <2>1, <2>2
<1>6. ReadInv' /\ LinesInv' /\ CountInv'
  BY <1>1, <1>2, <1>5 DEF ReadInv, LinesInv, CountInv
<1>7. QED
  BY <1>5, <1>6 DEF TypeInv

LEMMA TruncateType == ASSUME TypeInv, Truncate PROVE TypeInv'
<1>1. FilesInv /\ ReadInv /\ LinesInv /\ StreamInv /\ CountInv
  BY DEF TypeInv
<1>2. /\ at = "truncate" /\ at' = "close" /\ before' = before
      /\ paths' = paths /\ i' = i /\ k' = k /\ rd' = rd /\ lines' = Empty
      /\ pos' = pos /\ out' = out
  BY DEF Truncate, arg_vars, stream_vars
<1>3. files' = files \/ files' = [files EXCEPT ![name] = Cut(@, ftell)]
  BY DEF Truncate
<1>4. Processing /\ Processing' /\ at' \in Places
  BY <1>2 DEF Processing, Places
<1>5. name' = name /\ name \in DOMAIN files /\ files[name] \in Seq(Chars)
  BY <1>1, <1>2, <1>4, NameStays, NameIs
<1>6. FilesInv' /\ StreamInv'
  <2>1. CASE files' = files
    <3>1. FilesInv'
      BY <1>1, <1>2, <1>4, <2>1, FilesStay
    <3>2. QED
      BY <1>1, <1>2, <1>4, <1>5, <2>1, <3>1 DEF StreamInv
  <2>2. CASE files' = [files EXCEPT ![name] = Cut(@, ftell)]
    <3>1. pos \in Nat /\ Len(out) \in Nat
      BY <1>1 DEF StreamInv
    <3>2. ftell \in Nat /\ pos <= ftell
      BY <3>1 DEF ftell
    <3>3. Cut(files[name], ftell) \in Seq(Chars)
          /\ Len(Cut(files[name], ftell)) = ftell
      BY <1>5, <3>2, CutIs
    <3>4. /\ DOMAIN files' = DOMAIN files
          /\ \A f \in DOMAIN files : f # name => files'[f] = files[f]
          /\ files'[name] = Cut(files[name], ftell)
      BY <1>5, <2>2
    <3>5. \A f \in DOMAIN files' : files'[f] \in Seq(Chars)
      BY <1>1, <3>3, <3>4 DEF FilesInv
    <3>6. FilesInv'
      BY <1>1, <1>2, <1>4, <3>4, <3>5 DEF FilesInv
    <3>7. StreamInv'
      BY <1>1, <1>2, <1>4, <1>5, <3>2, <3>3, <3>4 DEF StreamInv
    <3>8. QED
      BY <3>6, <3>7
  <2>3. QED
    BY <1>3, <2>1, <2>2
<1>7. LinesInv'
  BY <1>2, EmptyLines DEF LinesInv
<1>8. ReadInv' /\ CountInv'
  BY <1>1, <1>2 DEF ReadInv, CountInv
<1>9. QED
  BY <1>6, <1>7, <1>8 DEF TypeInv

LEMMA CloseType == ASSUME TypeInv, Close PROVE TypeInv'
<1>1. /\ at = "close" /\ at' \in {"open", "exit"} /\ files' = files
      /\ before' = before /\ paths' = paths /\ i' \in {i, i + 1} /\ Release
  BY DEF Close, arg_vars
<1>2. i \in Nat /\ i > 0
  BY <1>1 DEF TypeInv, FilesInv
<1>3. i' \in Nat /\ i' > 0
  BY <1>1, <1>2
<1>4. QED
  BY <1>1, <1>3, ReleaseType

LEMMA CrashType == ASSUME TypeInv, Crash PROVE TypeInv'
<1>1. /\ at # "exit" /\ at' = "exit" /\ files' = files
      /\ before' = before /\ paths' = paths /\ i' = i /\ Release
  BY DEF Crash, arg_vars, file_vars
<1>2. i \in Nat /\ i > 0
  BY <1>1 DEF TypeInv, FilesInv
<1>3. QED
  BY <1>1, <1>2, ReleaseType

LEMMA StutterType == ASSUME TypeInv, UNCHANGED vars PROVE TypeInv'
BY DEF vars, file_vars, line_vars, stream_vars, arg_vars, TypeInv, FilesInv,
       StreamInv, ReadInv, LinesInv, CountInv, Processing, name, ftell

\* So every step does.
LEMMA StepType == ASSUME TypeInv, [Next]_vars PROVE TypeInv'
BY StartType, ProcessType, ReadLineType, EndReadType, CheckLineType,
   EndCheckType, WriteLineType, DrainType, ShortWriteType, EndWriteType,
   FlushType, TruncateType, CloseType, CrashType, StutterType DEF Next

\* Whatever is called and whatever fails, the lines in memory are whole: each
\* in a block of its own with its terminator, the vector in its block.
THEOREM SpacersTypes == Spec => []TypeInv
<1>1. Init => TypeInv
  BY InitType
<1>2. TypeInv /\ [Next]_vars => TypeInv'
  BY StepType
<1>3. QED
  BY <1>1, <1>2, PTL DEF Spec

\* VectorCallsAgree follows.
LEMMA VectorsAgree == ASSUME TypeInv PROVE VectorCallsAgree
<1>1. lines \in VectorsOf(Cells) /\ Fit(lines) /\ Junk \in Cells
  BY DEF TypeInv, LinesInv, Cells
<1>2. ~lines.bad
  BY <1>1 DEF Fit
<1>3. RemovalsAgree(lines)
  BY <1>1, RemovalsAgreeIs
<1>4. ASSUME NEW s \in Lines PROVE AppendsAgree(lines, s)
  <2>1. PICK n \in 1..lines.len : s = lines.arr[n]
    BY <1>4 DEF Lines
  <2>2. s \in Cells
    BY <2>1 DEF TypeInv, LinesInv, Fine, Cells
  <2>3. QED
    BY <1>1, <2>2, AppendsAgreeIs
<1>5. QED
  BY <1>2, <1>3, <1>4 DEF VectorCallsAgree

\* VectorCallsAgree: the vector of lines, as the tool grows it and with appends
\* refused, stays in its block, and each call of mrv_vectors.c on it, two
\* appends with a realloc_to_fit between included, keeps the items it should.
THEOREM SpacersVectorCallsAgree == Spec => []VectorCallsAgree
<1>1. TypeInv => VectorCallsAgree
  BY VectorsAgree
<1>2. QED
  BY <1>1, SpacersTypes, PTL

-----------------------------------------------------------------------------
(* Subsequences *)

\* A turn of the search for the next item of a.
MeetTurn(a, b, n, m) == IF m < Len(a) /\ a[m + 1] = b[n] THEN m + 1 ELSE m

\* The search of IsSubsequence as a function of its turns.
LEMMA MeetTurns ==
    ASSUME NEW S, NEW a \in Seq(S), NEW b \in Seq(S)
    PROVE  \E f : /\ f[0] = 0
                  /\ \A n \in 1..Len(b) : f[n] = MeetTurn(a, b, n, f[n - 1])
                  /\ IsSubsequence(a, b) <=> f[Len(b)] = Len(a)
<1> DEFINE last == Len(b)
           F == [n \in 1..last |-> [m \in Nat |-> MeetTurn(a, b, n, m)]]
           Is(f) == f = [n \in 0..Len(b) |->
                      IF n = 0 THEN 0
                      ELSE LET m == f[n - 1]
                           IN  IF m < Len(a) /\ a[m + 1] = b[n]
                               THEN m + 1 ELSE m]
           met == CHOOSE f : Is(f)
<1>1. last \in Nat
  OBVIOUS
<1>2. F \in [1..last -> [Nat -> Nat]]
  BY DEF MeetTurn
<1>3. PICK g : AreTurns(g, Nat, F, 0, last)
  <2> HIDE DEF F, last
  <2>1. QED
    BY <1>1, <1>2, TurnsExist
<1>4. Is(g)
  <2>1. ASSUME NEW n \in 0..last, n # 0
        PROVE  g[n] = MeetTurn(a, b, n, g[n - 1])
    <3>1. n - 1 \in 0..last /\ n \in 1..last
      BY <1>1, <2>1
    <3>2. g[n - 1] \in Nat /\ g[n] = F[n][g[n - 1]]
      BY <1>3, <3>1 DEF AreTurns
    <3>3. QED
      BY <3>1, <3>2
  <2>2. g = [n \in 0..last |-> IF n = 0 THEN 0 ELSE MeetTurn(a, b, n, g[n - 1])]
    BY <1>3, <2>1 DEF AreTurns
  <2>3. QED
    BY <2>2 DEF MeetTurn
<1>5. Is(met)
  BY <1>4
<1>6. IsSubsequence(a, b) <=> met[last] = Len(a)
  BY DEF IsSubsequence
<1> HIDE DEF met
<1>7. met = [n \in 0..last |->
                IF n = 0 THEN 0 ELSE MeetTurn(a, b, n, met[n - 1])]
  BY <1>5 DEF MeetTurn
<1> HIDE DEF last
<1>10. ASSUME NEW n \in 0..last
       PROVE  met[n] = IF n = 0 THEN 0 ELSE MeetTurn(a, b, n, met[n - 1])
  BY <1>7, Zenon
<1>8. met[0] = 0 /\ \A n \in 1..last : met[n] = MeetTurn(a, b, n, met[n - 1])
  <2>1. 0 \in 0..last /\ \A n \in 1..last : n \in 0..last /\ n # 0
    BY <1>1
  <2>2. met[0] = 0
    BY <1>10, <2>1
  <2>3. ASSUME NEW n \in 1..last PROVE met[n] = MeetTurn(a, b, n, met[n - 1])
    BY <1>10, <2>1
  <2>4. QED
    BY <2>2, <2>3
<1>9. QED
  BY <1>6, <1>8 DEF last

\* The items of a are in b, in their order: a match for each is found by taking
\* the first there is.
LEMMA SubsequenceIs ==
    ASSUME NEW S, NEW a \in Seq(S), NEW b \in Seq(S),
           NEW h \in [1..Len(a) -> 1..Len(b)],
           \A j \in 1..Len(a) : b[h[j]] = a[j],
           \A j, l \in 1..Len(a) : j < l => h[j] < h[l]
    PROVE  IsSubsequence(a, b)
<1>1. Len(a) \in Nat /\ Len(b) \in Nat
  OBVIOUS
<1>2. PICK f : /\ f[0] = 0
               /\ \A n \in 1..Len(b) : f[n] = MeetTurn(a, b, n, f[n - 1])
               /\ IsSubsequence(a, b) <=> f[Len(b)] = Len(a)
  BY MeetTurns
<1> DEFINE Met(n) == /\ f[n] \in 0..Len(a)
                     /\ \A j \in 1..Len(a) : h[j] <= n => j <= f[n]
           T == {n \in 0..Len(b) : Met(n)}
<1>3. 0 \in T
  <2>1. \A j \in 1..Len(a) : ~(h[j] <= 0)
    <3>1. \A j \in 1..Len(a) : h[j] \in 1..Len(b)
      OBVIOUS
    <3>2. QED
      BY <1>1, <3>1
  <2>2. Met(0)
    BY <1>1, <1>2, <2>1
  <2>3. QED
    BY <1>1, <2>2
<1>4. ASSUME NEW n \in 1..Len(b), n - 1 \in T
      PROVE  n \in T
  <2> DEFINE m == f[n - 1]
  <2>1. /\ m \in 0..Len(a)
        /\ \A j \in 1..Len(a) : h[j] <= n - 1 => j <= m
        /\ f[n] = MeetTurn(a, b, n, m)
    BY <1>2, <1>4
  <2> HIDE DEF m
  <2>2. f[n] \in 0..Len(a) /\ m <= f[n] /\ m \in Nat /\ f[n] \in Nat
    BY <1>1, <2>1 DEF MeetTurn
  <2>3. ASSUME NEW j \in 1..Len(a), h[j] <= n PROVE j <= f[n]
    <3>1. h[j] \in 1..Len(b) /\ n \in Nat /\ j \in Nat
      BY <1>1
    <3>2. CASE h[j] <= n - 1
      <4>1. j <= m
        BY <2>1, <3>2
      <4>2. QED
        BY <2>2, <3>1, <4>1
    <3>3. CASE ~(h[j] <= n - 1)
      <4>1. h[j] = n
        BY <1>1, <2>3, <3>1, <3>3
      <4>2. j - 1 <= m
        <5>1. CASE j = 1
          BY <2>2, <5>1
        <5>2. CASE j > 1
          <6>1. j - 1 \in 1..Len(a) /\ j - 1 < j
            BY <1>1, <3>1, <5>2
          <6>2. h[j - 1] < h[j] /\ h[j - 1] \in 1..Len(b)
            BY <6>1
          <6>3. h[j - 1] <= n - 1
            BY <1>1, <3>1, <4>1, <6>2
          <6>4. QED
            BY <2>1, <6>1, <6>3
        <5>3. QED
          BY <3>1, <5>1, <5>2
      <4>3. CASE j <= m
        BY <2>2, <3>1, <4>3
      <4>4. CASE ~(j <= m)
        <5>1. m + 1 = j /\ m < Len(a)
          BY <1>1, <2>2, <3>1, <4>2, <4>4
        <5>2. a[m + 1] = b[n]
          BY <4>1, <5>1
        <5>3. f[n] = m + 1
          BY <2>1, <5>1, <5>2 DEF MeetTurn
        <5>4. QED
          BY <2>2, <3>1, <5>1, <5>3
      <4>5. QED
        BY <4>3, <4>4
    <3>4. QED
      BY <3>2, <3>3
  <2>4. Met(n)
    BY <2>2, <2>3
  <2>5. QED
    BY <1>1, <2>4
<1> HIDE DEF T
<1>5. Len(b) \in T
  <2>1. \A n \in 0..Len(b) : n \in T
    BY <1>1, <1>3, <1>4, EveryTurn
  <2>2. QED
    BY <1>1, <2>1
<1>6. Met(Len(b))
  BY <1>5 DEF T
<1>7. f[Len(b)] = Len(a)
  <2>1. CASE Len(a) = 0
    BY <1>6, <2>1
  <2>2. CASE Len(a) > 0
    <3>1. Len(a) \in 1..Len(a)
      BY <1>1, <2>2
    <3>2. h[Len(a)] \in 1..Len(b)
      BY <3>1
    <3>3. h[Len(a)] <= Len(b)
      BY <1>1, <3>2
    <3>4. Len(a) <= f[Len(b)]
      BY <1>6, <3>1, <3>3
    <3>5. QED
      BY <1>1, <1>6, <3>4
  <2>3. QED
    BY <1>1, <2>1, <2>2
<1>8. QED
  BY <1>2, <1>7

\* The places of the visible characters.
Seen(text) == {q \in DOMAIN text : ~isspace(text[q])}

\* The visible characters of a text are in another, in their order.
IsEmbedding(e, text, other) ==
    /\ \A q \in Seen(text) : e[q] \in 1..Len(other) /\ other[e[q]] = text[q]
    /\ \A q, p \in Seen(text) : q < p => e[q] < e[p]

\* Where the visible characters of a are found in b, in their order, those
\* of a are a subsequence of those of b.
LEMMA EmbeddingIs ==
    ASSUME NEW a \in Seq(Chars), NEW b \in Seq(Chars), NEW e,
           IsEmbedding(e, a, b)
    PROVE  IsSubsequence(Visible(a), Visible(b))
<1> DEFINE P == Seen(a)
           Q == Seen(b)
           va == Visible(a)
           vb == Visible(b)
           At(r) == CHOOSE p \in P : Rank(P, p) = r
           h == [r \in 1..Len(va) |-> Rank(Q, e[At(r)])]
<1>1. Len(a) \in Nat /\ Len(b) \in Nat /\ DOMAIN a = 1..Len(a)
      /\ DOMAIN b = 1..Len(b)
  OBVIOUS
<1>2. /\ P \in SUBSET (1..Len(a)) /\ Q \in SUBSET (1..Len(b))
      /\ \A p \in P : ~isspace(a[p])
      /\ \A q \in 1..Len(b) : ~isspace(b[q]) => q \in Q
  BY <1>1 DEF Seen
<1>3. va = Picked(a, P) /\ vb = Picked(b, Q)
  BY DEF Visible, Without, Seen, isspace
<1>4. /\ \A q \in P : e[q] \in 1..Len(b) /\ b[e[q]] = a[q]
      /\ \A q, p \in P : q < p => e[q] < e[p]
  BY DEF IsEmbedding
<1> HIDE DEF P, Q, va, vb
<1>5. IsPicked(Chars, va, a, P) /\ IsPicked(Chars, vb, b, Q)
  BY <1>1, <1>2, <1>3, PickedIs
<1>6. /\ va \in Seq(Chars) /\ Len(va) = Cardinality(P)
      /\ \A p \in P : va[Rank(P, p)] = a[p]
      /\ vb \in Seq(Chars) /\ Len(vb) = Cardinality(Q)
      /\ \A q \in Q : vb[Rank(Q, q)] = b[q]
  BY <1>5 DEF IsPicked
<1>7. ASSUME NEW p \in P PROVE e[p] \in Q
  BY <1>2, <1>4
<1>8. ASSUME NEW r \in 1..Len(va)
      PROVE  At(r) \in P /\ Rank(P, At(r)) = r
  <2>1. \E p \in P : Rank(P, p) = r
    BY <1>1, <1>2, <1>6, RankOfSome
  <2>2. QED
    BY <2>1
<1> HIDE DEF At
<1>9. ASSUME NEW r \in 1..Len(va)
      PROVE  h[r] \in 1..Len(vb) /\ vb[h[r]] = va[r]
  <2>1. At(r) \in P /\ Rank(P, At(r)) = r /\ e[At(r)] \in Q
    BY <1>7, <1>8
  <2>2. Rank(Q, e[At(r)]) \in 1..Len(vb)
    BY <1>1, <1>2, <1>6, <2>1, RankRange
  <2>3. vb[Rank(Q, e[At(r)])] = b[e[At(r)]] /\ b[e[At(r)]] = a[At(r)]
        /\ va[r] = a[At(r)]
    BY <1>4, <1>6, <2>1
  <2>4. QED
    BY <2>2, <2>3
<1>10. ASSUME NEW r \in 1..Len(va), NEW t \in 1..Len(va), r < t
       PROVE  h[r] < h[t]
  <2>1. /\ At(r) \in P /\ Rank(P, At(r)) = r /\ e[At(r)] \in Q
        /\ At(t) \in P /\ Rank(P, At(t)) = t /\ e[At(t)] \in Q
    BY <1>7, <1>8
  <2>2. At(r) \in Nat /\ At(t) \in Nat /\ e[At(r)] \in Nat
    <3>1. At(r) \in 1..Len(a) /\ At(t) \in 1..Len(a) /\ e[At(r)] \in 1..Len(b)
      BY <1>2, <2>1
    <3>2. QED
      BY <1>1, <3>1
  <2>3. At(r) < At(t)
    <3>1. CASE At(t) = At(r)
      <4>1. r \in Nat /\ r = t
        BY <1>6, <2>1, <3>1
      <4>2. QED
        BY <1>10, <4>1
    <3>2. CASE At(t) < At(r)
      <4>1. Rank(P, At(t)) < Rank(P, At(r))
        BY <1>1, <1>2, <2>1, <2>2, <3>2, RankGrows
      <4>2. r \in Nat /\ t \in Nat /\ t < r
        BY <1>6, <2>1, <4>1
      <4>3. QED
        BY <1>10, <4>2
    <3>3. QED
      BY <2>2, <3>1, <3>2
  <2>4. e[At(r)] < e[At(t)]
    BY <1>4, <2>1, <2>3
  <2>5. Rank(Q, e[At(r)]) < Rank(Q, e[At(t)])
    BY <1>1, <1>2, <2>1, <2>2, <2>4, RankGrows
  <2>6. QED
    BY <2>5
<1>11. h \in [1..Len(va) -> 1..Len(vb)]
  <2>1. \A r \in 1..Len(va) : Rank(Q, e[At(r)]) \in 1..Len(vb)
    BY <1>9
  <2>2. QED
    BY <2>1
<1> HIDE DEF h
<1>12. IsSubsequence(va, vb)
  BY <1>6, <1>9, <1>10, <1>11, SubsequenceIs
<1>13. QED
  BY <1>12 DEF va, vb

\* A text is in itself.
LEMMA SameVisible ==
    ASSUME NEW a \in Seq(Chars)
    PROVE  IsSubsequence(Visible(a), Visible(a))
<1> DEFINE e == [q \in 1..Len(a) |-> q]
<1>1. \A q \in Seen(a) : q \in 1..Len(a) /\ e[q] = q
  BY DEF Seen
<1> HIDE DEF e
<1>2. IsEmbedding(e, a, a)
  BY <1>1 DEF IsEmbedding
<1>3. QED
  BY <1>2, EmbeddingIs

-----------------------------------------------------------------------------
(* The file and the stream over it *)

\* The failures the code ignores and no visible character is lost by.
Heard == ignored \subseteq {"mrs_pushstr"}

\* The characters handed to the stream: the first pos of them are in the file.
Taken(p) == IF p <= pos THEN files[name][p] ELSE out[p - pos]

\* Each visible character of the first c is handed over, not behind its place,
\* and behind the offset the file is as it was.
Moved(e, c) ==
    /\ c \in 0..Len(before)
    /\ ftell <= c \/ c = Len(before)
    /\ Len(files[name]) >= Len(before)
    /\ \A p \in (pos + 1)..Len(before) : files[name][p] = before[p]
    /\ \A q \in Seen(before) :
          q <= c => e[q] \in 1..q /\ e[q] <= ftell /\ Taken(e[q]) = before[q]
    /\ \A q, p \in Seen(before) : q < p /\ p <= c => e[q] < e[p]

\* The visible characters are those that are no space.
LEMMA SeenIs ==
    ASSUME NEW text \in Seq(Chars)
    PROVE  /\ Seen(text) \in SUBSET (1..Len(text))
           /\ \A q \in Seen(text) : q \in Nat
           /\ \A q \in 1..Len(text) : q \in Seen(text) <=> ~isspace(text[q])
<1>1. DOMAIN text = 1..Len(text)
  OBVIOUS
<1>2. QED
  BY <1>1 DEF Seen

\* The characters up to the offset are found where they were moved to, the
\* others where they were.
LEMMA MovedSurvives ==
    ASSUME FilesInv, StreamInv, Processing, NEW e, NEW c, Moved(e, c)
    PROVE  IsSubsequence(Visible(before), Visible(files[name]))
<1> DEFINE file == files[name]
           f == [q \in 1..Len(before) |-> IF q <= pos THEN e[q] ELSE q]
<1>1. /\ before \in Seq(Chars) /\ file \in Seq(Chars) /\ pos \in Nat
      /\ pos <= Len(file) /\ Len(file) \in Nat /\ Len(before) \in Nat
      /\ Len(out) \in Nat
  BY NameIs DEF FilesInv, StreamInv
<1>2. /\ c \in Nat /\ (ftell <= c \/ c = Len(before)) /\ pos <= ftell
      /\ Len(file) >= Len(before) /\ ftell \in Nat
      /\ \A p \in (pos + 1)..Len(before) : file[p] = before[p]
  BY <1>1 DEF Moved, ftell
<1>3. ASSUME NEW q \in Seen(before), q <= pos
      PROVE  /\ e[q] \in Nat /\ e[q] > 0 /\ e[q] <= q /\ e[q] <= pos
             /\ file[e[q]] = before[q] /\ q <= c
  <2>1. q \in 1..Len(before) /\ q \in Nat
    BY <1>1, SeenIs
  <2>2. q <= c
    BY <1>1, <1>2, <1>3, <2>1
  <2>3. e[q] \in 1..q /\ Taken(e[q]) = before[q]
    BY <2>2 DEF Moved
  <2>4. e[q] \in Nat /\ e[q] > 0 /\ e[q] <= q /\ e[q] <= pos
    BY <1>1, <1>3, <2>1, <2>3
  <2>5. QED
    BY <2>2, <2>3, <2>4 DEF Taken
<1>4. ASSUME NEW q \in Seen(before)
      PROVE  f[q] \in 1..Len(file) /\ file[f[q]] = before[q]
  <2>1. q \in 1..Len(before) /\ q \in Nat
    BY <1>1, SeenIs
  <2>2. CASE q <= pos
    <3>1. f[q] = e[q]
      BY <2>1, <2>2
    <3>2. e[q] \in Nat /\ e[q] > 0 /\ e[q] <= pos /\ file[e[q]] = before[q]
      BY <1>3, <2>2
    <3>3. e[q] \in 1..Len(file)
      BY <1>1, <3>2
    <3>4. QED
      BY <3>1, <3>2, <3>3
  <2>3. CASE ~(q <= pos)
    <3>1. f[q] = q
      BY <2>1, <2>3
    <3>2. q \in (pos + 1)..Len(before) /\ q \in 1..Len(file)
      BY <1>1, <1>2, <2>1, <2>3
    <3>3. QED
      BY <1>2, <3>1, <3>2
  <2>4. QED
    BY <2>2, <2>3
<1>5. ASSUME NEW q \in Seen(before), NEW p \in Seen(before), q < p
      PROVE  f[q] < f[p]
  <2>1. /\ q \in 1..Len(before) /\ p \in 1..Len(before) /\ q \in Nat /\ p \in Nat
    BY <1>1, SeenIs
  <2>2. f[q] = (IF q <= pos THEN e[q] ELSE q) /\ f[p] = IF p <= pos THEN e[p] ELSE p
    BY <2>1
  <2>3. CASE p <= pos
    <3>1. q <= pos
      BY <1>1, <1>5, <2>1, <2>3
    <3>2. p <= c
      BY <1>3, <2>3
    <3>3. e[q] < e[p]
      BY <1>5, <3>2 DEF Moved
    <3>4. QED
      BY <2>2, <2>3, <3>1, <3>3
  <2>4. CASE ~(p <= pos) /\ q <= pos
    <3>1. e[q] \in Nat /\ e[q] <= q
      BY <1>3, <2>4
    <3>2. e[q] < p
      BY <1>5, <2>1, <3>1
    <3>3. QED
      BY <2>2, <2>4, <3>2
  <2>5. CASE ~(p <= pos) /\ ~(q <= pos)
    BY <1>5, <2>2, <2>5
  <2>6. QED
    BY <2>3, <2>4, <2>5
<1> HIDE DEF f
<1>6. IsEmbedding(f, before, file)
  BY <1>4, <1>5 DEF IsEmbedding
<1> HIDE DEF file
<1>7. IsSubsequence(Visible(before), Visible(file))
  BY <1>1, <1>6, EmbeddingIs
<1>8. QED
  BY <1>7 DEF file

\* What goes to the disk is still handed over.
LEMMA TakenStays ==
    ASSUME FilesInv, StreamInv, Processing, NEW n \in 0..Len(out), WriteOut(n),
           name' = name
    PROVE  /\ ftell' = ftell
           /\ \A p \in 1..ftell : Taken(p)' = Taken(p)
           /\ pos' = pos + n
           /\ Len(files'[name]) >= Len(files[name])
           /\ \A p \in (pos + n + 1)..Len(files[name]) :
                 files'[name][p] = files[name][p]
<1> DEFINE file == files[name]
           sub == SubSeq(out, 1, n)
           rest == SubSeq(out, n + 1, Len(out))
<1>1. /\ file \in Seq(Chars) /\ pos \in Nat /\ pos <= Len(file)
      /\ Len(file) \in Nat /\ Len(out) \in Nat /\ out \in Seq(Chars)
      /\ n \in Nat /\ n <= Len(out)
  BY NameIs DEF StreamInv
<1>2. /\ IsOver(files'[name], file, pos, sub) /\ Len(sub) = n
      /\ pos' = pos + n /\ out' = rest /\ Len(rest) = Len(out) - n
  BY WriteOutIs
<1>3. \A q \in 1..n : sub[q] = out[q]
  BY <1>1
<1>4. \A q \in 1..(Len(out) - n) : rest[q] = out[n + q]
  BY <1>1
<1> HIDE DEF sub, rest
<1>5. ftell' = ftell
  BY <1>1, <1>2 DEF ftell
<1>6. ftell \in Nat /\ ftell = pos + Len(out)
  BY <1>1 DEF ftell
<1>7. /\ Len(files'[name]) >= Len(file)
      /\ \A p \in 1..pos : files'[name][p] = file[p]
      /\ \A p \in 1..n : files'[name][pos + p] = sub[p]
      /\ \A p \in (pos + n + 1)..Len(file) : files'[name][p] = file[p]
  BY <1>2 DEF IsOver
<1>8. ASSUME NEW p \in 1..ftell PROVE Taken(p)' = Taken(p)
  <2>0. p \in Nat /\ p >= 1 /\ p <= pos + Len(out)
    BY <1>6
  <2>1. Taken(p)' = IF p <= pos + n THEN files'[name][p] ELSE rest[p - (pos + n)]
    BY <1>2 DEF Taken
  <2>2. CASE p <= pos
    <3>1. p <= pos + n /\ p \in 1..pos
      BY <1>1, <2>0, <2>2
    <3>2. QED
      BY <1>7, <2>1, <2>2, <3>1 DEF Taken
  <2>3. CASE ~(p <= pos) /\ p <= pos + n
    <3> DEFINE q == p - pos
    <3>1. q \in 1..n /\ pos + q = p
      BY <1>1, <2>0, <2>3
    <3> HIDE DEF q
    <3>2. files'[name][p] = out[q]
      BY <1>3, <1>7, <3>1
    <3>3. QED
      BY <2>1, <2>3, <3>2 DEF Taken, q
  <2>4. CASE ~(p <= pos + n)
    <3> DEFINE q == p - (pos + n)
    <3>1. q \in 1..(Len(out) - n) /\ n + q = p - pos /\ ~(p <= pos)
      BY <1>1, <2>0, <2>4
    <3> HIDE DEF q
    <3>2. rest[q] = out[p - pos]
      BY <1>4, <3>1
    <3>3. QED
      BY <2>1, <2>4, <3>1, <3>2 DEF Taken, q
  <2>5. QED
    BY <2>2, <2>3, <2>4
<1>9. QED
  BY <1>2, <1>5, <1>7, <1>8

\* What was handed over stays so when n characters go to the disk.
LEMMA MovedStays ==
    ASSUME FilesInv, StreamInv, Processing, NEW n \in 0..Len(out), WriteOut(n),
           name' = name, before' = before, NEW e, NEW c, Moved(e, c)
    PROVE  Moved(e, c)'
<1>1. /\ ftell' = ftell
      /\ \A p \in 1..ftell : Taken(p)' = Taken(p)
      /\ pos' = pos + n
      /\ Len(files'[name]) >= Len(files[name])
      /\ \A p \in (pos + n + 1)..Len(files[name]) :
            files'[name][p] = files[name][p]
  BY TakenStays
<1>2. /\ before \in Seq(Chars) /\ Len(before) \in Nat /\ pos \in Nat /\ n \in Nat
      /\ Len(files[name]) \in Nat /\ ftell \in Nat
  BY NameIs DEF FilesInv, StreamInv, ftell
<1>3. Len(files'[name]) \in Nat
  <2>1. IsOver(files'[name], files[name], pos, SubSeq(out, 1, n))
    BY WriteOutIs
  <2>2. QED
    BY <2>1 DEF IsOver
<1>4. /\ c \in 0..Len(before) /\ (ftell <= c \/ c = Len(before))
      /\ Len(files[name]) >= Len(before)
      /\ \A p \in (pos + 1)..Len(before) : files[name][p] = before[p]
  BY DEF Moved
<1>5. Len(files'[name]) >= Len(before)
  BY <1>1, <1>2, <1>3, <1>4
<1>6. ASSUME NEW p \in (pos' + 1)..Len(before) PROVE files'[name][p] = before[p]
  <2>1. p \in (pos + n + 1)..Len(files[name]) /\ p \in (pos + 1)..Len(before)
    BY <1>1, <1>2, <1>4
  <2>2. QED
    BY <1>1, <1>4, <2>1
<1>7. ASSUME NEW q \in Seen(before), q <= c
      PROVE  e[q] \in 1..q /\ e[q] <= ftell /\ Taken(e[q])' = before[q]
  <2>1. e[q] \in 1..q /\ e[q] <= ftell /\ Taken(e[q]) = before[q]
    BY <1>7 DEF Moved
  <2>2. q \in Nat
    BY <1>2, SeenIs
  <2>3. e[q] \in 1..ftell
    BY <1>2, <2>1, <2>2
  <2>4. QED
    BY <1>1, <2>1, <2>3
<1>8. \A q, p \in Seen(before) : q < p /\ p <= c => e[q] < e[p]
  BY DEF Moved
<1>9. QED
  BY <1>1, <1>4, <1>5, <1>6, <1>7, <1>8 DEF Moved

\* What was handed over is a text.
Puts(text) ==
    /\ ftell = Len(text)
    /\ \A p \in 1..Len(text) : Taken(p) = text[p]

\* And is the same text.
LEMMA PutsStays ==
    ASSUME FilesInv, StreamInv, Processing, NEW n \in 0..Len(out), WriteOut(n),
           name' = name, NEW text, Puts(text)
    PROVE  Puts(text)'
<1>1. ftell' = ftell /\ \A p \in 1..ftell : Taken(p)' = Taken(p)
  BY TakenStays
<1>2. QED
  BY <1>1 DEF Puts

\* More is handed over.
LEMMA MoreTaken ==
    ASSUME FilesInv, StreamInv, Processing, NEW add \in Seq(Chars),
           out' = out \o add, pos' = pos, files' = files, name' = name
    PROVE  /\ ftell' = ftell + Len(add)
           /\ \A p \in 1..ftell : Taken(p)' = Taken(p)
           /\ \A p \in (ftell + 1)..(ftell + Len(add)) :
                 Taken(p)' = add[p - ftell]
<1>1. /\ pos \in Nat /\ out \in Seq(Chars) /\ Len(out) \in Nat
      /\ Len(add) \in Nat
  BY DEF StreamInv
<1> DEFINE longer == out \o add
<1>2. /\ Len(longer) = Len(out) + Len(add)
      /\ \A q \in 1..Len(out) : longer[q] = out[q]
      /\ \A q \in 1..Len(add) : longer[Len(out) + q] = add[q]
  <2>1. Len(longer) = Len(out) + Len(add)
    BY <1>1, ConcatProperties
  <2>2. ASSUME NEW q \in 1..Len(out) PROVE longer[q] = out[q]
    BY <1>1
  <2>3. ASSUME NEW q \in 1..Len(add) PROVE longer[Len(out) + q] = add[q]
    BY <1>1
  <2>4. QED
    BY <2>1, <2>2, <2>3
<1>3. out' = longer
  OBVIOUS
<1> HIDE DEF longer
<1>4. ftell = pos + Len(out) /\ ftell \in Nat
  BY <1>1 DEF ftell
<1>5. ftell' = ftell + Len(add)
  <2>1. ftell' = pos' + Len(out')
    BY DEF ftell
  <2>2. ftell' = pos + Len(longer)
    BY <1>3, <2>1
  <2>3. pos + (Len(out) + Len(add)) = (pos + Len(out)) + Len(add)
    BY <1>1
  <2>4. QED
    BY <1>2, <1>4, <2>2, <2>3
<1>6. ASSUME NEW p \in 1..ftell PROVE Taken(p)' = Taken(p)
  <2>1. p \in Nat /\ p <= pos + Len(out) /\ p >= 1
    BY <1>4
  <2>2. CASE p <= pos
    BY <2>2 DEF Taken
  <2>3. CASE ~(p <= pos)
    <3>1. p - pos \in 1..Len(out)
      BY <1>1, <2>1, <2>3
    <3>2. longer[p - pos] = out[p - pos]
      BY <1>2, <3>1
    <3>3. QED
      BY <1>3, <2>3, <3>2 DEF Taken
  <2>4. QED
    BY <2>2, <2>3
<1>7. ASSUME NEW p \in (ftell + 1)..(ftell + Len(add))
      PROVE  Taken(p)' = add[p - ftell]
  <2>1. p \in Nat /\ ~(p <= pos) /\ p - pos = Len(out) + (p - ftell)
        /\ p - ftell \in 1..Len(add)
    BY <1>1, <1>4
  <2>2. Taken(p)' = longer[p - pos]
    BY <1>3, <2>1 DEF Taken
  <2>3. longer[Len(out) + (p - ftell)] = add[p - ftell]
    BY <1>2, <2>1
  <2>4. QED
    BY <2>1, <2>2, <2>3
<1>8. QED
  BY <1>5, <1>6, <1>7

\* More text is handed over behind what was.
LEMMA PutsMore ==
    ASSUME FilesInv, StreamInv, Processing, NEW add \in Seq(Chars),
           out' = out \o add, pos' = pos, files' = files, name' = name,
           NEW text \in Seq(Chars), Puts(text)
    PROVE  Puts(text \o add)'
<1> DEFINE longer == text \o add
<1>1. /\ ftell = Len(text) /\ Len(text) \in Nat /\ Len(add) \in Nat
      /\ \A p \in 1..Len(text) : Taken(p) = text[p]
  BY DEF Puts
<1>2. /\ ftell' = ftell + Len(add)
      /\ \A p \in 1..ftell : Taken(p)' = Taken(p)
      /\ \A p \in (ftell + 1)..(ftell + Len(add)) : Taken(p)' = add[p - ftell]
  BY MoreTaken
<1>3. /\ Len(longer) = Len(text) + Len(add)
      /\ \A q \in 1..Len(text) : longer[q] = text[q]
      /\ \A q \in (Len(text) + 1)..(Len(text) + Len(add)) :
            longer[q] = add[q - Len(text)]
  <2>1. Len(longer) = Len(text) + Len(add)
    BY ConcatProperties
  <2>2. ASSUME NEW q \in 1..Len(text) PROVE longer[q] = text[q]
    BY <1>1
  <2>3. ASSUME NEW q \in (Len(text) + 1)..(Len(text) + Len(add))
        PROVE  longer[q] = add[q - Len(text)]
    BY <1>1
  <2>4. QED
    BY <2>1, <2>2, <2>3
<1> HIDE DEF longer
<1>4. ASSUME NEW p \in 1..Len(longer) PROVE Taken(p)' = longer[p]
  <2>1. p \in 1..Len(text) \/ p \in (Len(text) + 1)..(Len(text) + Len(add))
    BY <1>1, <1>3
  <2>2. QED
    BY <1>1, <1>2, <1>3, <2>1
<1>5. Puts(longer)'
  BY <1>1, <1>2, <1>3, <1>4 DEF Puts
<1>6. QED
  BY <1>5 DEF longer

\* The characters of a line, or of a part of it, are handed over behind those
\* of the lines before, and all that is between its text and c is space.
LEMMA MovedMore ==
    ASSUME FilesInv, StreamInv, Processing, NEW add \in Seq(Chars),
           out' = out \o add, pos' = pos, files' = files, name' = name,
           before' = before,
           NEW e, NEW s \in Nat, Moved(e, s), ftell <= s,
           NEW t \in Nat, t <= Len(add), NEW c \in 0..Len(before), s + t <= c,
           \A q \in 1..t : add[q] = before[s + q],
           \A q \in (s + t + 1)..c : isspace(before[q]),
           ftell + Len(add) <= c \/ c = Len(before)
    PROVE  \E f : Moved(f, c)'
<1> DEFINE f == [q \in 1..Len(before) |-> IF q <= s THEN e[q] ELSE ftell + (q - s)]
<1>1. /\ before \in Seq(Chars) /\ Len(before) \in Nat /\ pos \in Nat
      /\ Len(out) \in Nat /\ Len(add) \in Nat /\ ftell \in Nat /\ c \in Nat
      /\ c <= Len(before) /\ pos <= ftell
  BY DEF FilesInv, StreamInv, ftell
<1>2. /\ ftell' = ftell + Len(add)
      /\ \A p \in 1..ftell : Taken(p)' = Taken(p)
      /\ \A p \in (ftell + 1)..(ftell + Len(add)) : Taken(p)' = add[p - ftell]
  BY MoreTaken
<1>3. PICK g : g = f
  OBVIOUS
<1> HIDE DEF f
<1>4. ASSUME NEW q \in Seen(before), q <= c
      PROVE  /\ q \in 1..Len(before) /\ q \in Nat
             /\ q <= s => /\ g[q] = e[q] /\ e[q] \in 1..q /\ e[q] <= ftell
                          /\ Taken(e[q]) = before[q]
             /\ ~(q <= s) => /\ g[q] = ftell + (q - s) /\ q <= s + t
                             /\ g[q] \in 1..q
                             /\ g[q] \in (ftell + 1)..(ftell + Len(add))
  <2>1. q \in 1..Len(before) /\ q \in Nat /\ ~isspace(before[q])
    BY <1>1, SeenIs
  <2>2. g[q] = IF q <= s THEN e[q] ELSE ftell + (q - s)
    BY <1>3, <2>1 DEF f
  <2>3. q <= s => e[q] \in 1..q /\ e[q] <= ftell /\ Taken(e[q]) = before[q]
    BY DEF Moved
  <2>4. ASSUME ~(q <= s)
        PROVE  /\ g[q] = ftell + (q - s) /\ q <= s + t
               /\ g[q] \in 1..q
               /\ g[q] \in (ftell + 1)..(ftell + Len(add))
    <3>1. q <= s + t
      <4>1. q <= s + t \/ q \in (s + t + 1)..c
        BY <1>1, <1>4, <2>1
      <4>2. QED
        BY <2>1, <4>1
    <3>2. QED
      BY <1>1, <2>1, <2>2, <2>4, <3>1
  <2>5. QED
    BY <2>1, <2>2, <2>3, <2>4
<1>5. ASSUME NEW q \in Seen(before), q <= c
      PROVE  g[q] \in 1..q /\ g[q] <= ftell' /\ Taken(g[q])' = before[q]
  <2>1. q \in 1..Len(before) /\ q \in Nat
    BY <1>4, <1>5
  <2>2. CASE q <= s
    <3>1. g[q] = e[q] /\ e[q] \in 1..q /\ e[q] <= ftell /\ Taken(e[q]) = before[q]
      BY <1>4, <1>5, <2>2
    <3>2. e[q] \in 1..ftell /\ e[q] \in Nat
      BY <1>1, <2>1, <3>1
    <3>3. Taken(e[q])' = before[q]
      BY <1>2, <3>1, <3>2
    <3>4. e[q] <= ftell'
      BY <1>1, <1>2, <3>1, <3>2
    <3>5. QED
      BY <3>1, <3>3, <3>4
  <2>3. CASE ~(q <= s)
    <3>1. /\ g[q] = ftell + (q - s) /\ q <= s + t /\ g[q] \in 1..q
          /\ g[q] \in (ftell + 1)..(ftell + Len(add))
      BY <1>4, <1>5, <2>3
    <3>2. Taken(g[q])' = add[g[q] - ftell]
      BY <1>2, <3>1
    <3>3. g[q] - ftell = q - s /\ q - s \in 1..t /\ s + (q - s) = q
      BY <1>1, <2>1, <2>3, <3>1
    <3>4. add[q - s] = before[q]
      <4> DEFINE r == q - s
      <4>1. r \in 1..t /\ s + r = q
        BY <3>3
      <4> HIDE DEF r
      <4>2. add[r] = before[q]
        BY <4>1
      <4>3. QED
        BY <4>2 DEF r
    <3>5. g[q] <= ftell'
      BY <1>1, <1>2, <3>1
    <3>6. QED
      BY <3>1, <3>2, <3>3, <3>4, <3>5
  <2>4. QED
    BY <2>2, <2>3
<1>6. ASSUME NEW q \in Seen(before), NEW p \in Seen(before), q < p, p <= c
      PROVE  g[q] < g[p]
  <2>1. q \in Nat /\ p \in Nat
    BY <1>1, SeenIs
  <2>2. q <= c
    BY <1>1, <1>6, <2>1
  <2>3. CASE p <= s
    <3>1. q <= s
      BY <1>6, <2>1, <2>3
    <3>2. g[q] = e[q] /\ g[p] = e[p]
      BY <1>4, <1>6, <2>2, <2>3, <3>1
    <3>3. e[q] < e[p]
      BY <1>6, <2>3 DEF Moved
    <3>4. QED
      BY <3>2, <3>3
  <2>4. CASE ~(p <= s) /\ q <= s
    <3>1. g[q] = e[q] /\ e[q] \in 1..q /\ e[q] <= ftell
      BY <1>4, <2>2, <2>4
    <3>2. g[p] \in (ftell + 1)..(ftell + Len(add))
      BY <1>4, <1>6, <2>4
    <3>3. QED
      BY <1>1, <2>1, <3>1, <3>2
  <2>5. CASE ~(p <= s) /\ ~(q <= s)
    <3>1. g[q] = ftell + (q - s) /\ g[p] = ftell + (p - s)
      BY <1>4, <1>6, <2>2, <2>5
    <3>2. QED
      BY <1>1, <1>6, <2>1, <3>1
  <2>6. QED
    BY <2>3, <2>4, <2>5
<1>7. /\ Len(files[name]) >= Len(before)
      /\ \A p \in (pos + 1)..Len(before) : files[name][p] = before[p]
  BY DEF Moved
<1>8. ftell' <= c \/ c = Len(before)
  BY <1>2
<1>9. Moved(g, c)'
  BY <1>5, <1>6, <1>7, <1>8 DEF Moved
<1>10. QED
  BY <1>9

-----------------------------------------------------------------------------
(* The lines of the file *)

\* Where the lines begin, and that those from first on are as they were read.
AreLines(s, vec, first, file) ==
    /\ s \in [1..(vec.len + 1) -> 0..Len(file)]
    /\ s[1] = 0
    /\ \A j, l \in 1..(vec.len + 1) : j < l => s[j] < s[l]
    /\ \A j \in 1..vec.len : LineEndsAt(file, s[j], s[j + 1])
    /\ \A j \in first..vec.len :
          IsRead(vec.arr[j], file, s[j], s[j + 1], vec.arr[j].len)

HasLines(vec, file, end) ==
    \E s : AreLines(s, vec, 1, file) /\ s[vec.len + 1] = end

\* Before the first.
LEMMA NoLines ==
    ASSUME NEW file \in Seq(Chars)
    PROVE  HasLines(Empty, file, 0)
<1> DEFINE s == [j \in 1..1 |-> 0]
<1>1. Empty.len = 0
  BY EmptyIs
<1>2. 1..0 = {} /\ 0 + 1 = 1 /\ Len(file) \in Nat
  OBVIOUS
<1>3. s \in [1..1 -> 0..Len(file)] /\ s[1] = 0
  BY <1>2
<1> HIDE DEF s
<1>6. \A j, l \in 1..1 : ~(j < l)
  OBVIOUS
<1>4. AreLines(s, Empty, 1, file)
  BY <1>1, <1>2, <1>3, <1>6 DEF AreLines
<1>5. QED
  BY <1>1, <1>2, <1>3, <1>4 DEF HasLines

\* One more.
LEMMA OneMoreLine ==
    ASSUME NEW file \in Seq(Chars), NEW vec, vec.len \in Nat,
           NEW s, AreLines(s, vec, 1, file),
           NEW str, NEW v, AppendedTo(Cells, v, vec, str),
           NEW n, LineEndsAt(file, s[vec.len + 1], n),
           NEW t, IsRead(str, file, s[vec.len + 1], n, t)
    PROVE  HasLines(v, file, n)
<1> DEFINE m == vec.len
           last == m + 1
           r == [j \in 1..(m + 2) |-> IF j <= last THEN s[j] ELSE n]
<1>1. /\ m \in Nat /\ last \in Nat /\ last = m + 1 /\ v.len = m + 1
      /\ \A q \in 1..m : v.arr[q] = vec.arr[q]
      /\ v.arr[last] = str
  BY DEF AppendedTo
<1>2. /\ s \in [1..last -> 0..Len(file)] /\ s[1] = 0
      /\ \A j, l \in 1..last : j < l => s[j] < s[l]
      /\ \A j \in 1..m : LineEndsAt(file, s[j], s[j + 1])
      /\ \A j \in 1..m : IsRead(vec.arr[j], file, s[j], s[j + 1], vec.arr[j].len)
  BY DEF AreLines
<1>3. LineEndsAt(file, s[last], n) /\ IsRead(str, file, s[last], n, t)
  OBVIOUS
<1> HIDE DEF m
<1>4. last \in 1..last /\ 1 \in 1..last
  BY <1>1
<1>5. s[last] \in 0..Len(file) /\ Len(file) \in Nat
  BY <1>2, <1>4
<1>6. n \in 0..Len(file) /\ s[last] < n
  BY <1>3, <1>5 DEF LineEndsAt
<1> HIDE DEF last
<1>7. /\ r \in [1..(m + 2) -> 0..Len(file)]
      /\ \A j \in 1..last : r[j] = s[j]
      /\ r[last + 1] = n
  <2>1. \A j \in 1..(m + 2) : j <= last => j \in 1..last
    BY <1>1
  <2>2. \A j \in 1..last : j \in 1..(m + 2) /\ j <= last
    BY <1>1
  <2>3. last + 1 \in 1..(m + 2) /\ ~(last + 1 <= last)
    BY <1>1
  <2>4. QED
    BY <1>2, <1>6, <2>1, <2>2, <2>3
<1> HIDE DEF r
<1>8. r[1] = 0 /\ m + 2 = v.len + 1 /\ last + 1 = v.len + 1
  BY <1>1, <1>2, <1>4, <1>7
<1>9. str.len = t
  BY DEF IsRead
<1>10. ASSUME NEW j \in 1..v.len
       PROVE  /\ LineEndsAt(file, r[j], r[j + 1])
              /\ IsRead(v.arr[j], file, r[j], r[j + 1], v.arr[j].len)
  <2>1. CASE j = last
    <3>1. r[j] = s[last] /\ r[j + 1] = n /\ v.arr[j] = str
      BY <1>1, <1>4, <1>7, <2>1
    <3>2. QED
      BY <1>3, <1>9, <3>1
  <2>2. CASE j # last
    <3>1. j \in 1..m /\ j \in 1..last /\ j + 1 \in 1..last
      BY <1>1, <2>2
    <3>2. r[j] = s[j] /\ r[j + 1] = s[j + 1] /\ v.arr[j] = vec.arr[j]
      BY <1>1, <1>7, <3>1
    <3>3. QED
      BY <1>2, <3>1, <3>2
  <2>3. QED
    BY <2>1, <2>2
<1>13. ASSUME NEW j \in 1..(v.len + 1), NEW l \in 1..(v.len + 1), j < l
       PROVE  r[j] < r[l]
  <2>1. j \in 1..last /\ (l \in 1..last \/ l = last + 1) /\ j \in Nat
    BY <1>1, <1>8, <1>13
  <2>2. CASE l \in 1..last
    BY <1>2, <1>7, <1>13, <2>1, <2>2
  <2>3. CASE l = last + 1
    <3>1. r[j] = s[j] /\ r[l] = n
      BY <1>7, <2>1, <2>3
    <3>2. s[j] \in 0..Len(file) /\ s[last] \in 0..Len(file)
      BY <1>2, <1>5, <2>1
    <3>3. j = last \/ j < last
      BY <1>1, <2>1
    <3>4. s[j] <= s[last]
      BY <1>2, <1>4, <1>5, <2>1, <3>2, <3>3
    <3>5. QED
      BY <1>5, <1>6, <3>1, <3>2, <3>4
  <2>4. QED
    BY <2>1, <2>2, <2>3
<1>11. AreLines(r, v, 1, file)
  BY <1>7, <1>8, <1>10, <1>13 DEF AreLines
<1>12. QED
  BY <1>7, <1>8, <1>11 DEF HasLines

\* All from the r-th line on, to where the reading ended, is space.
LEMMA StrippedIsSpace ==
    ASSUME NEW file \in Seq(Chars), NEW vec, vec.len \in Nat,
           NEW s, AreLines(s, vec, 1, file), s[vec.len + 1] = Len(file),
           NEW r, StripsTo(vec, r),
           NEW q \in (s[r + 1] + 1)..Len(file)
    PROVE  isspace(file[q])
<1> DEFINE m == vec.len
           After == {j \in (r + 1)..m : q <= s[j + 1]}
<1>1. /\ m \in Nat /\ Len(file) \in Nat /\ r \in 0..m
      /\ \A j \in (r + 1)..m : vec.arr[j].len = 0
  BY DEF StripsTo
<1>2. /\ s \in [1..(m + 1) -> 0..Len(file)]
      /\ s[m + 1] = Len(file)
      /\ \A j \in 1..m : LineEndsAt(file, s[j], s[j + 1])
      /\ \A j \in 1..m : IsRead(vec.arr[j], file, s[j], s[j + 1], vec.arr[j].len)
  BY DEF AreLines
<1> HIDE DEF m
<1>3. r + 1 \in 1..(m + 1)
  BY <1>1
<1>4. s[r + 1] \in 0..Len(file)
  BY <1>2, <1>3
<1>5. q \in Nat /\ q <= Len(file) /\ s[r + 1] < q
  BY <1>1, <1>4
<1>6. After # {} /\ After \in SUBSET Nat
  <2>1. r # m
    BY <1>1, <1>2, <1>5
  <2>2. m \in (r + 1)..m
    BY <1>1, <2>1
  <2>3. m \in After
    BY <1>2, <1>5, <2>2
  <2>4. \A j \in After : j \in (r + 1)..m
    OBVIOUS
  <2>5. \A j \in (r + 1)..m : j \in Nat
    BY <1>1
  <2> HIDE DEF After
  <2>6. After # {}
    BY <2>3
  <2>7. After \in SUBSET Nat
    BY <2>4, <2>5
  <2>8. QED
    BY <2>6, <2>7
<1>7. PICK j \in After : \A l \in After : j <= l
  BY <1>6, LeastNatural
<1>8. j \in (r + 1)..m /\ q <= s[j + 1] /\ j \in Nat /\ j \in 1..m
  BY <1>1, <1>7
<1>9. s[j] < q
  <2>1. CASE j = r + 1
    BY <1>5, <2>1
  <2>2. CASE j # r + 1
    <3>1. j - 1 \in (r + 1)..m /\ (j - 1) + 1 = j /\ ~(j <= j - 1)
      BY <1>1, <1>8, <2>2
    <3>2. ~(q <= s[(j - 1) + 1])
      BY <1>7, <3>1
    <3>3. j \in 1..(m + 1)
      BY <1>1, <1>8
    <3>4. s[j] \in Nat
      BY <1>1, <1>2, <3>3
    <3>5. QED
      BY <1>5, <3>1, <3>2, <3>4
  <2>3. QED
    BY <2>1, <2>2
<1>10. s[j] \in Nat /\ s[j + 1] \in Nat
  <2>1. j \in 1..(m + 1) /\ j + 1 \in 1..(m + 1)
    BY <1>1, <1>8
  <2>2. s[j] \in 0..Len(file) /\ s[j + 1] \in 0..Len(file)
    BY <1>2, <2>1
  <2>3. QED
    BY <1>1, <2>2
<1> DEFINE d == q - s[j]
<1>11. d \in (0 + 1)..(s[j + 1] - s[j]) /\ s[j] + d = q
  BY <1>5, <1>8, <1>9, <1>10
<1> HIDE DEF d
<1>12. IsRead(vec.arr[j], file, s[j], s[j + 1], 0)
  BY <1>1, <1>2, <1>8
<1>13. isspace(file[s[j] + d])
  BY <1>11, <1>12 DEF IsRead
<1>14. QED
  BY <1>11, <1>13

\* The text of a line as it was read.
LEMMA ReadText ==
    ASSUME NEW file \in Seq(Chars), NEW str, NEW from \in Nat, NEW n \in Nat,
           from < n, NEW t, IsRead(str, file, from, n, t)
    PROVE  /\ Text(str) \in Seq(Chars)
           /\ Len(Text(str)) = t
           /\ t \in Nat /\ t <= n - from
           /\ \A q \in 1..t : Text(str)[q] = file[from + q]
<1>1. str \in Strs /\ Fine(str) /\ str.len = t
  BY DEF IsRead, Fine
<1> DEFINE text == Text(str)
<1>2. text \in Seq(Chars) /\ Has(str, text)
  BY <1>1, HasText DEF Fine
<1> HIDE DEF text
<1>3. Len(text) = t /\ \A q \in 1..t : str.value[q] = text[q]
  BY <1>1, <1>2 DEF Has
<1>4. t \in 0..(n - from) /\ \A q \in 1..t : str.value[q] = file[from + q]
  BY DEF IsRead
<1>5. t \in Nat /\ t <= n - from
  BY <1>4
<1>6. QED
  BY <1>2, <1>3, <1>4, <1>5 DEF text

\* A line that another follows has its newline, and that is cut.
LEMMA ReadShorter ==
    ASSUME NEW file \in Seq(Chars), NEW str, NEW from \in Nat, NEW n \in Nat,
           from < n, LineEndsAt(file, from, n), n < Len(file),
           NEW t, IsRead(str, file, from, n, t)
    PROVE  from + t + 1 <= n
<1>1. t \in 0..(n - from) /\ (t > 0 => ~isspace(file[from + t]))
  BY DEF IsRead
<1>2. file[n] = Newline
  BY DEF LineEndsAt
<1>3. isspace(file[n])
  BY <1>2 DEF isspace
<1>4. t # n - from
  <2>1. SUFFICES ASSUME t = n - from PROVE FALSE
    OBVIOUS
  <2>2. t > 0 /\ from + t = n
    BY <2>1
  <2>3. QED
    BY <1>1, <1>3, <2>2
<1>5. QED
  BY <1>1, <1>4

-----------------------------------------------------------------------------
(* The characters to stay *)

\* Something visible is behind the n-th character.
GoesOn(file, n) == \E v \in (n + 1)..Len(file) : ~isspace(file[v])

Upto(file, n) == Stays(file) \cap (1..n)

\* What a line is read into, and no string.
LineKeeps(file, from, n, t) ==
    /\ t \in 0..(n - from)
    /\ \A q \in (t + 1)..(n - from) : isspace(file[from + q])
    /\ t > 0 => ~isspace(file[from + t])

\* A line that is read keeps its text.
LEMMA ReadKeeps ==
    ASSUME NEW str, NEW file, NEW from, NEW n, NEW t,
           IsRead(str, file, from, n, t)
    PROVE  LineKeeps(file, from, n, t)
BY DEF IsRead, LineKeeps

\* What is visible is no newline.
LEMMA VisibleIsNone == \A c : ~isspace(c) => c # Newline
BY DEF isspace

\* Of a line the text stays, and the newline if something visible follows.
LEMMA LineStays ==
    ASSUME NEW file \in Seq(Chars), NEW from \in Nat, NEW n,
           LineEndsAt(file, from, n), NEW t, LineKeeps(file, from, n, t),
           NEW p \in (from + 1)..n
    PROVE  p \in Stays(file) <=>
              p <= from + t \/ (p = n /\ file[n] = Newline /\ GoesOn(file, n))
<1>1. /\ Len(file) \in Nat /\ n \in Nat /\ n <= Len(file) /\ from < n
      /\ file[n] = Newline \/ n = Len(file)
      /\ \A q \in (from + 1)..(n - 1) : file[q] # Newline
  BY DEF LineEndsAt
<1>2. /\ t \in Nat /\ from + t <= n
      /\ t > 0 => ~isspace(file[from + t])
  BY <1>1 DEF LineKeeps
<1>3. ASSUME NEW q \in (from + t + 1)..n PROVE isspace(file[q])
  <2> DEFINE d == q - from
  <2>1. d \in (t + 1)..(n - from) /\ from + d = q
    BY <1>1, <1>2
  <2> HIDE DEF d
  <2>2. isspace(file[from + d])
    BY <2>1 DEF LineKeeps
  <2>3. QED
    BY <2>1, <2>2
<1>4. p \in Nat /\ p \in 1..Len(file) /\ from < p /\ p <= n
  BY <1>1
<1>5. p \in Stays(file) <=>
         \E v \in p..Len(file) :
            /\ ~isspace(file[v])
            /\ file[p] = Newline \/ \A b \in p..v : file[b] # Newline
  BY <1>4 DEF Stays
<1>6. CASE p <= from + t
  <2> DEFINE v == from + t
  <2>1. v \in p..Len(file) /\ t > 0 /\ v \in Nat /\ v <= n
    BY <1>1, <1>2, <1>4, <1>6
  <2>2. ~isspace(file[v])
    BY <1>2, <2>1
  <2> HIDE DEF v
  <2>3. ASSUME NEW b \in p..v PROVE file[b] # Newline
    <3>1. b = v \/ b \in (from + 1)..(n - 1)
      BY <1>1, <1>4, <2>1
    <3>2. QED
      BY <1>1, <2>2, <3>1, VisibleIsNone
  <2>4. p \in Stays(file)
    BY <1>5, <2>1, <2>2, <2>3
  <2>5. QED
    BY <1>6, <2>4
<1>7. CASE ~(p <= from + t)
  <2>1. p \in (from + t + 1)..n
    BY <1>1, <1>2, <1>4, <1>7
  <2>2. ASSUME NEW v \in p..Len(file), ~isspace(file[v])
        PROVE  v > n /\ v \in Nat
    <3>1. v \in Nat /\ p <= v
      BY <1>4
    <3>2. v \in (from + t + 1)..n \/ v > n
      BY <1>1, <1>2, <2>1, <3>1
    <3>3. QED
      BY <1>3, <2>2, <3>1, <3>2
  <2>3. CASE p = n /\ file[n] = Newline
    <3>1. p \in Stays(file) <=> \E v \in p..Len(file) : ~isspace(file[v])
      BY <1>5, <2>3
    <3>2. ASSUME NEW v \in p..Len(file), ~isspace(file[v])
          PROVE  v \in (n + 1)..Len(file)
      <4>1. v > n /\ v \in Nat /\ v <= Len(file)
        BY <1>1, <1>4, <2>2, <3>2
      <4>2. QED
        BY <1>1, <4>1
    <3>3. ASSUME NEW v \in (n + 1)..Len(file) PROVE v \in p..Len(file)
      BY <1>1, <2>3
    <3>4. GoesOn(file, n) <=> \E v \in p..Len(file) : ~isspace(file[v])
      BY <3>2, <3>3 DEF GoesOn
    <3>5. QED
      BY <1>7, <2>3, <3>1, <3>4
  <2>4. CASE ~(p = n /\ file[n] = Newline)
    <3>1. file[p] # Newline
      <4>1. p = n \/ p \in (from + 1)..(n - 1)
        BY <1>1, <1>4
      <4>2. QED
        BY <1>1, <2>4, <4>1
    <3>2. SUFFICES ASSUME p \in Stays(file) PROVE FALSE
      BY <1>7, <2>4
    <3>3. PICK v \in p..Len(file) :
             ~isspace(file[v]) /\ \A b \in p..v : file[b] # Newline
      BY <1>5, <3>1, <3>2
    <3>4. v > n /\ v \in Nat /\ v <= Len(file)
      BY <1>1, <1>4, <2>2, <3>3
    <3>5. n \in p..v /\ n # Len(file)
      BY <1>1, <1>4, <3>4
    <3>6. QED
      BY <1>1, <3>3, <3>5
  <2>5. QED
    BY <2>3, <2>4
<1>8. QED
  BY <1>6, <1>7

\* The places that stay, up to the n-th.
LEMMA UptoIs ==
    ASSUME NEW file \in Seq(Chars), NEW n \in Nat
    PROVE  /\ Upto(file, n) \in SUBSET (1..Len(file))
           /\ Upto(file, n) \in SUBSET (1..n)
           /\ \A p \in Upto(file, n) : p <= n
BY DEF Upto, Stays

\* The text of a line goes behind that of the lines before it.
PicksLine(file, from, n, t, text) ==
    /\ Picked(file, Upto(file, from) \cup ((from + 1)..(from + t)))
          = Picked(file, Upto(file, from)) \o text
    /\ GoesOn(file, n) =>
          Upto(file, n) = Upto(file, from) \cup ((from + 1)..(from + t)) \cup {n}
    /\ ~GoesOn(file, n) =>
          Stays(file) = Upto(file, from) \cup ((from + 1)..(from + t))

\* So the text of the line is picked behind the others.
LEMMA LinePicked ==
    ASSUME NEW file \in Seq(Chars), NEW from \in Nat, NEW n,
           LineEndsAt(file, from, n), NEW t, LineKeeps(file, from, n, t),
           NEW text \in Seq(Chars), Len(text) = t,
           \A q \in 1..t : text[q] = file[from + q]
    PROVE  PicksLine(file, from, n, t, text)
<1>1. /\ Len(file) \in Nat /\ n \in Nat /\ n <= Len(file) /\ from < n
      /\ file[n] = Newline \/ n = Len(file)
  BY DEF LineEndsAt
<1>2. t \in Nat /\ from + t <= n
  BY <1>1 DEF LineKeeps
<1>3. Picked(file, Upto(file, from) \cup ((from + 1)..(from + t)))
         = Picked(file, Upto(file, from)) \o text
  <2> DEFINE P == Upto(file, from)
  <2>1. P \in SUBSET (1..Len(file)) /\ \A p \in P : p <= from
    BY UptoIs
  <2> HIDE DEF P
  <2>2. from + t <= Len(file)
    BY <1>1, <1>2
  <2>3. PicksRun(file, P, from, t, text)
    BY <1>2, <2>1, <2>2, PickedRun
  <2>4. QED
    BY <2>3 DEF P, PicksRun
<1>4. \A p \in Stays(file) : p \in 1..Len(file)
  BY DEF Stays
<1>5. ASSUME NEW p \in (from + 1)..n
      PROVE  p \in Stays(file) <=>
                p <= from + t \/ (p = n /\ file[n] = Newline /\ GoesOn(file, n))
  BY LineStays
<1>6. ASSUME GoesOn(file, n)
      PROVE  Upto(file, n) = Upto(file, from)
                                \cup ((from + 1)..(from + t)) \cup {n}
  <2>1. n # Len(file)
    BY <1>1, <1>6 DEF GoesOn
  <2>2. file[n] = Newline
    BY <1>1, <2>1
  <2>3. ASSUME NEW p \in 1..n
        PROVE  p \in Stays(file) <=>
                  p \in Upto(file, from) \/ p \in (from + 1)..(from + t) \/ p = n
    <3>1. p \in 1..from \/ p \in (from + 1)..n
      BY <1>1
    <3>2. CASE p \in 1..from
      <4>1. p \notin (from + 1)..(from + t) /\ p # n
        BY <1>1, <3>2
      <4>2. QED
        BY <3>2, <4>1 DEF Upto
    <3>3. CASE p \in (from + 1)..n
      <4>1. p \notin 1..from /\ p \in Nat /\ from < p
        BY <3>3
      <4>2. p \in (from + 1)..(from + t) <=> p <= from + t
        BY <1>2, <4>1
      <4>3. QED
        BY <1>5, <1>6, <2>2, <3>3, <4>1, <4>2 DEF Upto
    <3>4. QED
      BY <3>1, <3>2, <3>3
  <2>4. /\ Upto(file, from) \subseteq 1..n
        /\ (from + 1)..(from + t) \subseteq 1..n /\ n \in 1..n
    <3>1. Upto(file, from) \subseteq 1..from
      BY UptoIs
    <3>2. 1..from \subseteq 1..n
      BY <1>1
    <3>3. (from + 1)..(from + t) \subseteq 1..n /\ n \in 1..n
      BY <1>1, <1>2
    <3>4. QED
      BY <3>1, <3>2, <3>3
  <2> DEFINE P == Upto(file, from)
             R == (from + 1)..(from + t)
  <2>5. \A p : p \in Upto(file, n) <=> p \in 1..n /\ p \in Stays(file)
    BY DEF Upto
  <2>6. P \subseteq 1..n /\ R \subseteq 1..n /\ n \in 1..n
        /\ \A p \in 1..n : p \in Stays(file) <=> p \in P \/ p \in R \/ p = n
    BY <2>3, <2>4
  <2> HIDE DEF P, R
  <2>7. Upto(file, n) = P \cup R \cup {n}
    BY <2>5, <2>6
  <2>8. QED
    BY <2>7 DEF P, R
<1>7. ASSUME ~GoesOn(file, n)
      PROVE  Stays(file) = Upto(file, from) \cup ((from + 1)..(from + t))
  <2>1. ASSUME NEW p \in (n + 1)..Len(file) PROVE p \notin Stays(file)
    <3>1. SUFFICES ASSUME p \in Stays(file) PROVE FALSE
      OBVIOUS
    <3>2. PICK v \in p..Len(file) : ~isspace(file[v])
      BY <3>1 DEF Stays
    <3>3. v \in (n + 1)..Len(file)
      BY <1>1
    <3>4. QED
      BY <1>7, <3>2, <3>3 DEF GoesOn
  <2>2. ASSUME NEW p \in 1..Len(file)
        PROVE  p \in Stays(file) <=>
                  p \in Upto(file, from) \/ p \in (from + 1)..(from + t)
    <3>1. p \in 1..from \/ p \in (from + 1)..n \/ p \in (n + 1)..Len(file)
      BY <1>1
    <3>2. CASE p \in 1..from
      <4>1. p \notin (from + 1)..(from + t)
        BY <1>1, <3>2
      <4>2. QED
        BY <3>2, <4>1 DEF Upto
    <3>3. CASE p \in (from + 1)..n
      <4>1. p \notin 1..from /\ p \in Nat /\ from < p
        BY <3>3
      <4>2. p \in (from + 1)..(from + t) <=> p <= from + t
        BY <1>2, <4>1
      <4>3. QED
        BY <1>5, <1>7, <3>3, <4>1, <4>2 DEF Upto
    <3>4. CASE p \in (n + 1)..Len(file)
      <4>1. p \notin 1..from /\ p \notin (from + 1)..(from + t)
        BY <1>1, <1>2, <3>4
      <4>2. QED
        BY <2>1, <3>4, <4>1 DEF Upto
    <3>5. QED
      BY <3>1, <3>2, <3>3, <3>4
  <2>3. Upto(file, from) \subseteq 1..Len(file)
        /\ (from + 1)..(from + t) \subseteq 1..Len(file)
    <3>1. Upto(file, from) \subseteq 1..Len(file)
      BY UptoIs
    <3>2. (from + 1)..(from + t) \subseteq 1..Len(file)
      BY <1>1, <1>2
    <3>3. QED
      BY <3>1, <3>2
  <2> DEFINE P == Upto(file, from)
             R == (from + 1)..(from + t)
  <2>4. P \subseteq 1..Len(file) /\ R \subseteq 1..Len(file)
        /\ \A p \in 1..Len(file) : p \in Stays(file) <=> p \in P \/ p \in R
    BY <2>2, <2>3
  <2> HIDE DEF P, R
  <2>5. Stays(file) = P \cup R
    BY <1>4, <2>4
  <2>6. QED
    BY <2>5 DEF P, R
<1>8. QED
  BY <1>3, <1>6, <1>7 DEF PicksLine

\* What stays of the lines up to one, and the text of that with a newline.
PickedAfter(file, from, text) == Picked(file, Upto(file, from)) \o Append(text, Newline)

\* A line adds its text and a newline to what stays, and the last line that
\* is not blank ends the trimmed text.
LEMMA PickedGrows ==
    ASSUME NEW file \in Seq(Chars), NEW from \in Nat, NEW n,
           LineEndsAt(file, from, n), NEW t, LineKeeps(file, from, n, t),
           NEW text \in Seq(Chars), Len(text) = t,
           \A q \in 1..t : text[q] = file[from + q]
    PROVE  /\ GoesOn(file, n) /\ from + t < n =>
                 Picked(file, Upto(file, n)) = PickedAfter(file, from, text)
           /\ ~GoesOn(file, n) /\ t > 0 =>
                 Trimmed(file) = PickedAfter(file, from, text)
<1>1. /\ Len(file) \in Nat /\ n \in Nat /\ n <= Len(file) /\ from < n
      /\ file[n] = Newline \/ n = Len(file)
  BY DEF LineEndsAt
<1>2. t \in Nat /\ from + t <= n
  BY <1>1 DEF LineKeeps
<1> DEFINE P == Upto(file, from)
           R == (from + 1)..(from + t)
           old == Picked(file, P)
           Q == P \cup R
<1>3. /\ Picked(file, Q) = old \o text
      /\ GoesOn(file, n) => Upto(file, n) = Q \cup {n}
      /\ ~GoesOn(file, n) => Stays(file) = Q
  <2>1. PicksLine(file, from, n, t, text)
    BY LinePicked
  <2>2. QED
    BY <2>1 DEF PicksLine
<1>4. P \in SUBSET (1..Len(file)) /\ \A p \in P : p <= from
  BY UptoIs
<1>5. R \in SUBSET (1..Len(file)) /\ \A p \in R : p <= from + t
  BY <1>1, <1>2
<1>6. P \in SUBSET Nat
  <2>1. \A p \in 1..Len(file) : p \in Nat
    OBVIOUS
  <2>2. QED
    BY <1>4, <2>1
<1>7. t > 0 => from + 1 \in R
  BY <1>2
<1> HIDE DEF P, R
<1>8. Q \in SUBSET (1..Len(file)) /\ \A p \in Q : p <= from \/ p <= from + t
  BY <1>4, <1>5
<1>9. old \in Seq(Chars)
  BY <1>4, PickedIs DEF IsPicked
<1> HIDE DEF Q, old
<1>10. Append(old \o text, Newline) = old \o Append(text, Newline)
  <2>1. AppendsBehind(old, text, Newline)
    BY <1>9, CharsAre, AppendBehind
  <2>2. QED
    BY <2>1 DEF AppendsBehind
<1>11. PickedAfter(file, from, text) = old \o Append(text, Newline)
  BY DEF PickedAfter, old, P
<1>12. ASSUME GoesOn(file, n), from + t < n
       PROVE  Picked(file, Upto(file, n)) = PickedAfter(file, from, text)
  <2>1. n # Len(file)
    BY <1>1, <1>12 DEF GoesOn
  <2>2. file[n] = Newline /\ n \in 1..Len(file)
    BY <1>1, <2>1
  <2>3. \A p \in Q : p \in Nat
    BY <1>8
  <2>4. \A p \in Q : p < n
    BY <1>1, <1>2, <1>8, <1>12, <2>3
  <2>5. Picked(file, Q \cup {n}) = Append(Picked(file, Q), file[n])
    BY <1>8, <2>2, <2>4, PickedNext
  <2>6. QED
    BY <1>3, <1>10, <1>11, <1>12, <2>2, <2>5
<1>13. ASSUME ~GoesOn(file, n), t > 0
       PROVE  Trimmed(file) = PickedAfter(file, from, text)
  <2>1. Stays(file) = Q
    BY <1>3, <1>13
  <2>2. Q # {}
    BY <1>7, <1>13 DEF Q
  <2>3. Trimmed(file) = Append(Picked(file, Q), Newline)
    BY <2>1, <2>2 DEF Trimmed
  <2>4. QED
    BY <1>3, <1>10, <1>11, <2>3
<1>14. QED
  BY <1>12, <1>13

\* Nothing stays of a text of spaces.
LEMMA BlankTrimmed ==
    ASSUME NEW file \in Seq(Chars), \A q \in 1..Len(file) : isspace(file[q])
    PROVE  Trimmed(file) = <<>>
<1>1. ASSUME NEW p \in Stays(file) PROVE FALSE
  <2>1. PICK v \in p..Len(file) : ~isspace(file[v])
    BY DEF Stays
  <2>2. p \in 1..Len(file)
    BY DEF Stays
  <2>3. v \in 1..Len(file)
    BY <2>2
  <2>4. QED
    BY <2>1, <2>3
<1>2. Stays(file) = {}
  BY <1>1
<1>3. QED
  BY <1>2 DEF Trimmed

-----------------------------------------------------------------------------
(* The invariant of reading and writing *)

\* While a file is looked at it is as it was, and the lines in memory are the
\* lines up to rd.
ReadingInv ==
    /\ at \in {"read", "check"} => files[name] = before
    /\ at = "read" /\ Heard => HasLines(lines, before, rd)

\* How far the text has been written, and what was written of it.
Reached(s) == IF k = lines.len THEN Len(before) ELSE s[k + 1]

Result(s) ==
    IF k = lines.len THEN Trimmed(before)
    ELSE Picked(before, Upto(before, s[k + 1]))

\* The lines that are still to be written are as they were read, the last of
\* them is not empty, and behind it is nothing but space.
AtLine(s) ==
    /\ AreLines(s, lines, k + 1, before)
    /\ \A q \in (s[lines.len + 1] + 1)..Len(before) : isspace(before[q])
    /\ k < lines.len => lines.arr[lines.len].len # 0
    /\ \E e : Moved(e, Reached(s))
    /\ ignored = {} => Puts(Result(s))

WritingInv == at = "write" /\ Heard => \E s : AtLine(s)

DoneInv ==
    at \in {"flush", "truncate"} /\ Heard =>
        /\ \E e : Moved(e, Len(before))
        /\ ignored = {} => Puts(Trimmed(before))
        /\ at = "truncate" => out = <<>>

\* The text is moved, wholly or up to a place, or the file is cut behind it.
Survives ==
    \/ \E e, c : Moved(e, c)
    \/ out = <<>> /\ \E e : IsEmbedding(e, before, files[name])

ClosingInv ==
    at = "close" =>
        /\ Heard => Survives
        /\ (err = "OK" /\ ~is_check /\ ignored = {}) =>
              out = <<>> /\ files[name] = Trimmed(before)

ModeInv ==
    /\ at = "check" => is_check
    /\ at \in {"read", "write", "flush", "truncate"} => ~is_check

TextInv == ReadingInv /\ WritingInv /\ DoneInv /\ ClosingInv /\ ModeInv

\* Where no file is open TextInv says nothing.
LEMMA IdleText ==
    ASSUME at \in {"exit", "open"}
    PROVE  TextInv
BY DEF TextInv, ReadingInv, WritingInv, DoneInv, ClosingInv, ModeInv

\* A failure once noted stays noted.
LEMMA HeardBefore ==
    ASSUME Heard', ignored \subseteq ignored'
    PROVE  Heard
BY DEF Heard

\* Each action keeps TextInv.  A file is opened: no line is read.
LEMMA OpenText == ASSUME TypeInv, Open PROVE TextInv'
<1>1. /\ at = "open" /\ at' = (IF is_check THEN "check" ELSE "read")
      /\ before' = files[name] /\ files' = files /\ lines' = lines /\ rd' = rd
      /\ paths' = paths /\ i' = i /\ is_check' = is_check
  BY DEF Open, line_vars, arg_vars
<1>2. name' = name
  BY <1>1, NameStays
<1>3. lines = Empty /\ rd = 0
  BY <1>1 DEF TypeInv, LinesInv, ReadInv
<1>4. TypeInv'
  BY ProcessType
<1>5. before' \in Seq(Chars)
  BY <1>4 DEF TypeInv, FilesInv
<1>6. HasLines(Empty, before', 0)
  BY <1>5, NoLines
<1>7. HasLines(lines, before, rd)'
  BY <1>1, <1>3, <1>6 DEF HasLines, AreLines
<1>8. ReadingInv'
  BY <1>1, <1>2, <1>7 DEF ReadingInv
<1>9. WritingInv' /\ DoneInv' /\ ClosingInv' /\ ModeInv'
  BY <1>1 DEF WritingInv, DoneInv, ClosingInv, ModeInv
<1>10. QED
  BY <1>8, <1>9 DEF TextInv

\* One more line is read, and it is the next of the file.
LEMMA ReadLineText == ASSUME TypeInv, TextInv, ReadLine PROVE TextInv'
<1>1. /\ at = "read" /\ at' = "read" /\ files' = files /\ before' = before
      /\ paths' = paths /\ i' = i /\ is_check' = is_check
  BY DEF ReadLine, arg_vars
<1>2. name' = name
  BY <1>1, NameStays
<1>3. FilesInv /\ ReadInv /\ LinesInv /\ before \in Seq(Chars)
      /\ files[name] = before
  BY <1>1 DEF TypeInv, FilesInv, TextInv, ReadingInv
<1>4. PICK str, n : \E given \in BOOLEAN : Reads(str, n, given)
  BY <1>3, ReadLineIs
<1>5. PICK given \in BOOLEAN : Reads(str, n, given)
  BY <1>4
<1>6. ASSUME Heard' PROVE HasLines(lines', before, rd')
  <2>1. ignored \subseteq ignored'
    BY <1>5 DEF Reads
  <2>2. Heard
    BY <1>6, <2>1, HeardBefore
  <2>3. PICK s : AreLines(s, lines, 1, before) /\ s[lines.len + 1] = rd
    BY <1>1, <2>2 DEF TextInv, ReadingInv, HasLines
  <2>4. given = TRUE /\ AppendedTo(Cells, lines', lines, str)
    BY <1>5, <1>6 DEF Reads, Heard
  <2>5. /\ LineEndsAt(before, rd, n) /\ rd' = n
        /\ \E t \in Nat : IsRead(str, before, rd, n, t)
    BY <1>3, <1>5, <2>4 DEF Reads, LineRead
  <2>6. PICK t \in Nat : IsRead(str, before, rd, n, t)
    BY <2>5
  <2>7. lines.len \in Nat
    BY <1>3 DEF LinesInv, VectorsOf
  <2> DEFINE v == lines'
  <2>8. AppendedTo(Cells, v, lines, str)
    BY <2>4
  <2> HIDE DEF v
  <2>11. AreLines(s, lines, 1, before)
    BY <2>3
  <2>12. /\ LineEndsAt(before, s[lines.len + 1], n)
         /\ IsRead(str, before, s[lines.len + 1], n, t)
    BY <2>3, <2>5, <2>6
  <2>9. HasLines(v, before, n)
    BY <1>3, <2>7, <2>8, <2>11, <2>12, OneMoreLine
  <2>10. QED
    BY <2>5, <2>9 DEF v
<1>7. ReadingInv'
  <2>1. ASSUME Heard' PROVE HasLines(lines, before, rd)'
    BY <1>1, <1>6, <2>1 DEF HasLines, AreLines
  <2>2. QED
    BY <1>1, <1>2, <1>3, <2>1 DEF ReadingInv
<1>8. WritingInv' /\ DoneInv' /\ ClosingInv' /\ ModeInv'
  BY <1>1 DEF TextInv, WritingInv, DoneInv, ClosingInv, ModeInv
<1>9. QED
  BY <1>7, <1>8 DEF TextInv

\* Nothing written, all as it was.
LEMMA NothingMoved ==
    ASSUME NEW b \in Seq(Chars), before' = b, files'[name'] = b, pos' = 0,
           out' = <<>>, NEW c \in 0..Len(b), \A q \in 1..c : isspace(b[q])
    PROVE  (\E e : Moved(e, c)') /\ Puts(<<>>)'
<1>1. Len(b) \in Nat /\ ftell' = 0 /\ c \in Nat
  BY DEF ftell
<1>2. ASSUME NEW q \in Seen(b), q <= c PROVE FALSE
  <2>1. q \in 1..Len(b) /\ ~isspace(b[q])
    BY SeenIs
  <2>2. q \in 1..c
    BY <1>1, <1>2, <2>1
  <2>3. QED
    BY <2>1, <2>2
<1>3. ftell' <= c
  BY <1>1
<1>4. \A q, p \in Seen(b) : ~(q < p /\ p <= c)
  BY <1>2
<1>5. Moved(<<>>, c)'
  BY <1>1, <1>2, <1>3, <1>4 DEF Moved
<1>6. Puts(<<>>)'
  BY <1>1 DEF Puts
<1>7. QED
  BY <1>5, <1>6

\* The lines that are left when the empty ones at the end are gone.
LEMMA FewerLines ==
    ASSUME NEW file \in Seq(Chars), NEW vec, vec.len \in Nat,
           NEW s, AreLines(s, vec, 1, file), NEW r \in 0..vec.len,
           NEW v, v.len = r, v.arr = vec.arr
    PROVE  \E u : /\ AreLines(u, v, 1, file)
                  /\ u[v.len + 1] = s[r + 1]
<1> DEFINE u == [j \in 1..(r + 1) |-> s[j]]
<1>1. /\ \A j \in 1..(r + 1) : j \in 1..(vec.len + 1)
      /\ \A j \in 1..r : j \in 1..vec.len /\ j \in 1..(r + 1)
                         /\ j + 1 \in 1..(r + 1)
      /\ 1 \in 1..(r + 1) /\ r + 1 \in 1..(r + 1)
  OBVIOUS
<1>2. /\ s \in [1..(vec.len + 1) -> 0..Len(file)] /\ s[1] = 0
      /\ \A j, l \in 1..(vec.len + 1) : j < l => s[j] < s[l]
      /\ \A j \in 1..vec.len : LineEndsAt(file, s[j], s[j + 1])
      /\ \A j \in 1..vec.len :
            IsRead(vec.arr[j], file, s[j], s[j + 1], vec.arr[j].len)
  BY DEF AreLines
<1>3. u \in [1..(r + 1) -> 0..Len(file)] /\ \A j \in 1..(r + 1) : u[j] = s[j]
  BY <1>1, <1>2
<1> HIDE DEF u
<1>4. u[1] = 0 /\ u[r + 1] = s[r + 1]
  BY <1>1, <1>2, <1>3
<1>5. ASSUME NEW j \in 1..r
      PROVE  /\ LineEndsAt(file, u[j], u[j + 1])
             /\ IsRead(v.arr[j], file, u[j], u[j + 1], v.arr[j].len)
  <2>1. u[j] = s[j] /\ u[j + 1] = s[j + 1] /\ j \in 1..vec.len
    BY <1>1, <1>3
  <2>2. QED
    BY <1>2, <2>1
<1>6. \A j, l \in 1..(r + 1) : j < l => u[j] < u[l]
  BY <1>1, <1>2, <1>3
<1>7. AreLines(u, v, 1, file)
  BY <1>3, <1>4, <1>5, <1>6 DEF AreLines
<1>8. QED
  BY <1>4, <1>7

\* The lines at the end that are empty are freed: nothing is written yet, and
\* all that is behind the last line is space.
LEMMA EndReadText == ASSUME TypeInv, TextInv, EndRead PROVE TextInv'
<1>1. /\ at = "read" /\ at' = "write" /\ files' = files /\ before' = before
      /\ paths' = paths /\ i' = i /\ is_check' = is_check /\ k' = k /\ out' = out
      /\ pos' = 0 /\ lines' = Strip(lines) /\ rd' = rd
  BY DEF EndRead, arg_vars
<1>2. name' = name
  BY <1>1, NameStays
<1>3. /\ LinesInv /\ before \in Seq(Chars) /\ files[name] = before
      /\ out = <<>> /\ k = 0 /\ lines.len \in Nat
  BY <1>1 DEF TypeInv, FilesInv, TextInv, ReadingInv, StreamInv, CountInv,
              LinesInv, VectorsOf
<1>4. PICK granted \in BOOLEAN : /\ granted => rd = Len(files[name])
                                 /\ Ignoring("getline", granted)
  BY DEF EndRead, GetlineFails
<1>5. ASSUME Heard' PROVE \E u : AtLine(u)'
  <2>1. ignored \subseteq ignored' /\ (granted \/ "getline" \in ignored')
    BY <1>4 DEF Ignoring
  <2>2. Heard /\ granted
    BY <1>5, <2>1, HeardBefore DEF Heard
  <2>3. PICK s : AreLines(s, lines, 1, before) /\ s[lines.len + 1] = rd
    BY <1>1, <2>2 DEF TextInv, ReadingInv, HasLines
  <2>4. s[lines.len + 1] = Len(before)
    BY <1>3, <1>4, <2>2, <2>3
  <2>5. PICK r : StripsTo(lines, r) /\ lines'.len = r /\ lines'.arr = lines.arr
    BY <1>1, <1>3, StrippedLines
  <2>6. r \in 0..lines.len /\ (r > 0 => lines.arr[r].len # 0)
    BY <2>5 DEF StripsTo
  <2> DEFINE v == lines'
  <2>7. v.len = r /\ v.arr = lines.arr
    BY <2>5
  <2> HIDE DEF v
  <2>8. PICK u : AreLines(u, v, 1, before) /\ u[v.len + 1] = s[r + 1]
    BY <1>3, <2>3, <2>6, <2>7, FewerLines
  <2>9. \A q \in (s[r + 1] + 1)..Len(before) : isspace(before[q])
    BY <1>3, <2>3, <2>4, <2>5, StrippedIsSpace
  <2>10. /\ u[1] = 0 /\ v.len \in Nat
    BY <2>6, <2>7, <2>8 DEF AreLines
  <2>11. PICK c : c = IF 0 = v.len THEN Len(before) ELSE u[0 + 1]
    OBVIOUS
  <2>12. c \in 0..Len(before) /\ \A q \in 1..c : isspace(before[q])
    <3>1. CASE v.len = 0
      <4>1. c = Len(before) /\ s[r + 1] = 0
        BY <2>7, <2>8, <2>10, <2>11, <3>1
      <4>2. QED
        BY <1>3, <2>9, <4>1
    <3>2. CASE v.len # 0
      <4>1. c = 0
        BY <2>10, <2>11, <3>2
      <4>2. QED
        BY <1>3, <4>1
    <3>3. QED
      BY <3>1, <3>2
  <2>13. Reached(u)' = c
    BY <1>1, <1>3, <2>11 DEF Reached, v
  <2>14. (\E e : Moved(e, c)') /\ Puts(<<>>)'
    BY <1>1, <1>2, <1>3, <2>12, NothingMoved
  <2>15. Result(u)' = <<>>
    <3>1. CASE v.len = 0
      <4>1. Result(u)' = Trimmed(before)
        BY <1>1, <1>3, <3>1 DEF Result, v
      <4>2. c = Len(before)
        BY <2>11, <3>1
      <4>3. Trimmed(before) = <<>>
        BY <1>3, <2>12, <4>2, BlankTrimmed
      <4>4. QED
        BY <4>1, <4>3
    <3>2. CASE v.len # 0
      <4>1. Result(u)' = Picked(before, Upto(before, u[0 + 1]))
        BY <1>1, <1>3, <3>2 DEF Result, v
      <4>2. u[0 + 1] = 0
        BY <2>10
      <4>3. Upto(before, 0) = {}
        <5>1. Upto(before, 0) \in SUBSET (1..0)
          BY <1>3, UptoIs
        <5>2. QED
          BY <5>1
      <4>4. Picked(before, {}) = <<>>
        BY <1>3, PickedNone
      <4>5. QED
        BY <4>1, <4>2, <4>3, <4>4
    <3>3. QED
      BY <3>1, <3>2
  <2>16. AreLines(u, lines, k + 1, before)'
    BY <1>1, <1>3, <2>8 DEF AreLines, v
  <2>17. /\ \A q \in (u[lines'.len + 1] + 1)..Len(before) : isspace(before[q])
         /\ k' < lines'.len => lines'.arr[lines'.len].len # 0
    BY <1>1, <1>3, <2>6, <2>7, <2>8, <2>9 DEF v
  <2>18. AtLine(u)'
    BY <1>1, <2>13, <2>14, <2>15, <2>16, <2>17 DEF AtLine
  <2>19. QED
    BY <2>18
<1>6. WritingInv'
  BY <1>5 DEF WritingInv
<1>7. ReadingInv' /\ DoneInv' /\ ClosingInv' /\ ModeInv'
  BY <1>1 DEF TextInv, ReadingInv, DoneInv, ClosingInv, ModeInv
<1>8. QED
  BY <1>6, <1>7 DEF TextInv

\* The line that is to be written: from, n and t are its place in the file and
\* the length of its text.
ToWrite(s, from, n, t) ==
    /\ from = s[k + 1] /\ n = s[k + 2]
    /\ from \in Nat /\ n \in Nat /\ from < n /\ n <= Len(before)
    /\ t \in Nat /\ from + t <= n
    /\ LineEndsAt(before, from, n)
    /\ LineKeeps(before, from, n, t)
    /\ Text(lines.arr[k + 1]) \in Seq(Chars)
    /\ Len(Text(lines.arr[k + 1])) = t
    /\ lines.arr[k + 1].len = t
    /\ \A q \in 1..t : Text(lines.arr[k + 1])[q] = before[from + q]
    /\ \A q \in (from + t + 1)..n : isspace(before[q])
    /\ ftell <= from
    /\ k + 1 = lines.len => /\ t > 0
                            /\ ~GoesOn(before, n)
                            /\ \A q \in (n + 1)..Len(before) : isspace(before[q])
    /\ k + 1 # lines.len => GoesOn(before, n) /\ from + t + 1 <= n

\* The next line to write, and where it was read.
LEMMA ToWriteIs ==
    ASSUME TypeInv, k < lines.len, NEW s, AtLine(s)
    PROVE  \E from, n, t : ToWrite(s, from, n, t) /\ \E e : Moved(e, from)
<1> DEFINE m == lines.len
           str == lines.arr[k + 1]
           from == s[k + 1]
           n == s[k + 2]
           t == str.len
<1>1. /\ k \in Nat /\ m \in Nat /\ k < m /\ before \in Seq(Chars)
      /\ Len(before) \in Nat
      /\ \A j \in 1..m : Fine(lines.arr[j])
  BY DEF TypeInv, CountInv, LinesInv, VectorsOf, FilesInv
<1>2. /\ s \in [1..(m + 1) -> 0..Len(before)]
      /\ \A j, l \in 1..(m + 1) : j < l => s[j] < s[l]
      /\ \A j \in 1..m : LineEndsAt(before, s[j], s[j + 1])
      /\ \A j \in (k + 1)..m :
            IsRead(lines.arr[j], before, s[j], s[j + 1], lines.arr[j].len)
      /\ \A q \in (s[m + 1] + 1)..Len(before) : isspace(before[q])
      /\ lines.arr[m].len # 0
      /\ \E e : Moved(e, Reached(s))
  BY DEF AtLine, AreLines
<1> HIDE DEF m
<1>3. /\ k + 1 \in 1..m /\ k + 1 \in (k + 1)..m /\ m \in (k + 1)..m
      /\ k + 1 \in 1..(m + 1) /\ (k + 1) + 1 = k + 2 /\ k + 2 \in 1..(m + 1)
      /\ m \in 1..(m + 1) /\ m + 1 \in 1..(m + 1) /\ m \in 1..m
  BY <1>1
<1>4. /\ LineEndsAt(before, from, n)
      /\ IsRead(str, before, from, n, t)
  BY <1>2, <1>3
<1>5. from \in 0..Len(before) /\ n \in 0..Len(before)
  BY <1>2, <1>3
<1>6. Reached(s) = from
  BY <1>1 DEF Reached, m
<1>7. \E e : Moved(e, from)
  BY <1>2, <1>6
<1> HIDE DEF str, from, n, t
<1>8. /\ from \in Nat /\ n \in Nat /\ from < n /\ n <= Len(before)
  BY <1>1, <1>4, <1>5 DEF LineEndsAt
<1>9. /\ Text(str) \in Seq(Chars) /\ Len(Text(str)) = t /\ t \in Nat
      /\ t <= n - from
      /\ \A q \in 1..t : Text(str)[q] = before[from + q]
  BY <1>1, <1>4, <1>8, ReadText
<1>10. LineKeeps(before, from, n, t)
  BY <1>4, ReadKeeps
<1>11. from + t <= n
  BY <1>8, <1>9
<1>12. ASSUME NEW q \in (from + t + 1)..n PROVE isspace(before[q])
  <2> DEFINE d == q - from
  <2>1. d \in (t + 1)..(n - from) /\ from + d = q
    BY <1>8, <1>9
  <2> HIDE DEF d
  <2>2. isspace(before[from + d])
    BY <1>10, <2>1 DEF LineKeeps
  <2>3. QED
    BY <2>1, <2>2
<1>13. ftell <= from
  <2>1. PICK e : Moved(e, from)
    BY <1>7
  <2>2. ftell <= from \/ from = Len(before)
    BY <2>1 DEF Moved
  <2>3. QED
    BY <1>1, <1>8, <2>2
<1>14. ASSUME k + 1 = m
       PROVE  /\ t > 0
              /\ ~GoesOn(before, n)
              /\ \A q \in (n + 1)..Len(before) : isspace(before[q])
  <2>1. n = s[m + 1]
    BY <1>3, <1>14 DEF n
  <2>2. t # 0
    BY <1>2, <1>14 DEF t, str
  <2>3. QED
    BY <1>2, <1>9, <2>1, <2>2 DEF GoesOn
<1>15. ASSUME k + 1 # m
       PROVE  GoesOn(before, n) /\ from + t + 1 <= n
  <2> DEFINE last == lines.arr[m]
             v == s[m] + last.len
  <2>1. IsRead(last, before, s[m], s[m + 1], last.len)
    BY <1>2, <1>3
  <2>2. last.len \in 0..(s[m + 1] - s[m])
    BY <2>1 DEF IsRead
  <2>3. s[m] \in Nat /\ s[m + 1] \in Nat /\ s[m + 1] <= Len(before)
        /\ s[m] < s[m + 1]
    <3>1. s[m] \in 0..Len(before) /\ s[m + 1] \in 0..Len(before)
      BY <1>2, <1>3
    <3>2. m < m + 1
      BY <1>1
    <3>3. s[m] < s[m + 1]
      BY <1>2, <1>3, <3>2
    <3>4. QED
      BY <1>1, <3>1, <3>3
  <2>4. n <= s[m]
    <3>1. k + 2 = m \/ k + 2 < m
      BY <1>1, <1>15
    <3>2. n = s[m] \/ n < s[m]
      BY <1>2, <1>3, <3>1 DEF n
    <3>3. QED
      BY <1>8, <2>3, <3>2
  <2>5. last.len \in Nat /\ last.len > 0
    <3>1. last.len \in Nat
      BY <2>2, <2>3
    <3>2. QED
      BY <1>2, <3>1
  <2>6. ~isspace(before[s[m] + last.len])
    BY <2>1, <2>5 DEF IsRead
  <2>7. v \in (n + 1)..Len(before)
    BY <1>1, <1>8, <2>2, <2>3, <2>4, <2>5
  <2>8. GoesOn(before, n)
    BY <2>6, <2>7 DEF GoesOn
  <2>9. n < Len(before)
    BY <1>1, <1>8, <2>7
  <2>10. from + t + 1 <= n
    BY <1>1, <1>4, <1>8, <2>9, ReadShorter
  <2>11. QED
    BY <2>8, <2>10
<1>16. ToWrite(s, from, n, t)
  BY <1>4, <1>8, <1>9, <1>10, <1>11, <1>12, <1>13, <1>14, <1>15
  DEF ToWrite, from, n, t, str, m
<1>17. QED
  BY <1>7, <1>16

\* One line more is handed to the stream.
LEMMA WriteLineAt ==
    ASSUME TypeInv, WriteLine, Heard', NEW s, AtLine(s)
    PROVE  AtLine(s)'
<1>1. /\ at = "write" /\ k < lines.len /\ k' = k + 1
      /\ files' = files /\ before' = before /\ pos' = pos
      /\ paths' = paths /\ i' = i
  BY DEF WriteLine, arg_vars
<1>2. FilesInv /\ StreamInv /\ LinesInv /\ CountInv
  BY DEF TypeInv
<1>3. name' = name /\ Processing
  BY <1>1, NameStays DEF Processing
<1>4. PICK str : \E granted \in BOOLEAN : Writes(str, granted)
  BY <1>2, WriteLineIs
<1>5. PICK granted \in BOOLEAN : Writes(str, granted)
  BY <1>4
<1>6. PICK from, n, t : ToWrite(s, from, n, t) /\ \E e : Moved(e, from)
  BY <1>1, ToWriteIs
<1>7. PICK e : Moved(e, from)
  BY <1>6
<1> DEFINE m == lines.len
           old == lines.arr[k + 1]
           text == Text(old)
           add == Text(str)
<1>8. /\ from = s[k + 1] /\ n = s[k + 2]
      /\ from \in Nat /\ n \in Nat /\ from < n /\ n <= Len(before)
      /\ t \in Nat /\ from + t <= n
      /\ LineEndsAt(before, from, n) /\ LineKeeps(before, from, n, t)
      /\ text \in Seq(Chars) /\ Len(text) = t
      /\ \A q \in 1..t : text[q] = before[from + q]
      /\ \A q \in (from + t + 1)..n : isspace(before[q])
      /\ ftell <= from
      /\ k + 1 = m => /\ t > 0 /\ ~GoesOn(before, n)
                      /\ \A q \in (n + 1)..Len(before) : isspace(before[q])
      /\ k + 1 # m => GoesOn(before, n) /\ from + t + 1 <= n
  BY <1>6 DEF ToWrite
<1>9. /\ add \in Seq(Chars) /\ out' = out \o add
      /\ IF granted THEN add = Append(text, Newline) ELSE add = text
      /\ Replaced(lines', lines, k + 1, str)
      /\ ignored \subseteq ignored' /\ (granted \/ "mrs_pushstr" \in ignored')
  BY <1>5 DEF Writes, IsPushed
<1>10. /\ lines'.len = m /\ k \in Nat /\ m \in Nat /\ k < m
       /\ Len(before) \in Nat /\ before \in Seq(Chars) /\ ftell \in Nat
       /\ \A q \in 1..m : q # k + 1 => lines'.arr[q] = lines.arr[q]
  <2>1. k \in Nat /\ m \in Nat /\ k < m
    BY <1>1, <1>2 DEF CountInv, LinesInv, VectorsOf
  <2>2. Len(before) \in Nat /\ before \in Seq(Chars)
    BY <1>2 DEF FilesInv
  <2>3. ftell \in Nat
    <3>1. pos \in Nat /\ Len(out) \in Nat
      BY <1>2 DEF StreamInv
    <3>2. QED
      BY <3>1 DEF ftell
  <2>4. /\ lines'.len = m
        /\ \A q \in 1..m : q # k + 1 => lines'.arr[q] = lines.arr[q]
    BY <1>9 DEF Replaced
  <2>5. QED
    BY <2>1, <2>2, <2>3, <2>4
<1> HIDE DEF m, old, text, add
<1>11. /\ Len(add) \in Nat /\ t <= Len(add) /\ Len(add) <= t + 1
       /\ \A q \in 1..t : add[q] = before[from + q]
  <2>1. CASE granted
    <3>1. add = Append(text, Newline)
      BY <1>9, <2>1
    <3>2. Len(add) = t + 1 /\ \A q \in 1..t : add[q] = text[q]
      BY <1>8, <3>1
    <3>3. QED
      BY <1>8, <3>2
  <2>2. CASE ~granted
    <3>1. add = text
      BY <1>9, <2>2
    <3>2. QED
      BY <1>8, <3>1
  <2>3. QED
    BY <2>1, <2>2
<1>12. PICK c : c = IF k + 1 = m THEN Len(before) ELSE s[(k + 1) + 1]
  OBVIOUS
<1>13. Reached(s)' = c
  BY <1>1, <1>10, <1>12 DEF Reached
<1>14. (k + 1) + 1 = k + 2
  BY <1>10
<1>15. \E f : Moved(f, c)'
  <2>1. CASE k + 1 = m
    <3>1. c = Len(before)
      BY <1>12, <2>1
    <3>2. \A q \in (n + 1)..Len(before) : isspace(before[q])
      BY <1>8, <2>1
    <3>3. ASSUME NEW q \in (from + t + 1)..c PROVE isspace(before[q])
      <4>1. q \in (from + t + 1)..n \/ q \in (n + 1)..Len(before)
        BY <1>8, <1>10, <3>1
      <4>2. QED
        BY <1>8, <3>2, <4>1
    <3>4. c \in 0..Len(before) /\ from + t <= c
      BY <1>8, <1>10, <3>1
    <3>5. QED
      BY <1>1, <1>2, <1>3, <1>7, <1>8, <1>9, <1>11, <3>1, <3>3, <3>4, MovedMore
  <2>2. CASE k + 1 # m
    <3>1. c = n
      BY <1>8, <1>12, <1>14, <2>2
    <3>2. c \in 0..Len(before) /\ from + t <= c
      BY <1>8, <1>10, <3>1
    <3>3. ftell + Len(add) <= c
      BY <1>8, <1>10, <1>11, <2>2, <3>1
    <3>4. \A q \in (from + t + 1)..c : isspace(before[q])
      BY <1>8, <3>1
    <3>5. QED
      BY <1>1, <1>2, <1>3, <1>7, <1>8, <1>9, <1>11, <3>2, <3>3, <3>4, MovedMore
  <2>3. QED
    BY <2>1, <2>2
<1>16. ASSUME ignored' = {} PROVE Puts(Result(s))'
  <2>1. ignored = {} /\ granted
    BY <1>9, <1>16
  <2> DEFINE done == Picked(before, Upto(before, from))
  <2>2. Result(s) = done
    BY <1>8, <1>10 DEF Result, m
  <2>3. Puts(done)
    BY <2>1, <2>2 DEF AtLine
  <2>4. done \in Seq(Chars)
    <3>1. Upto(before, from) \in SUBSET (1..Len(before))
      BY <1>8, <1>10, UptoIs
    <3>2. QED
      BY <1>10, <3>1, PickedIs DEF IsPicked
  <2> HIDE DEF done
  <2>11. PICK x : x = done
    OBVIOUS
  <2>12. PICK y : y = add
    OBVIOUS
  <2>13. x \in Seq(Chars) /\ y \in Seq(Chars) /\ Puts(x) /\ out' = out \o y
    BY <1>9, <2>3, <2>4, <2>11, <2>12
  <2>5. Puts(x \o y)'
    BY <1>1, <1>2, <1>3, <2>13, PutsMore
  <2>6. done \o add = PickedAfter(before, from, text)
    BY <1>9, <2>1 DEF done, PickedAfter
  <2>7. /\ GoesOn(before, n) /\ from + t < n =>
              Picked(before, Upto(before, n)) = PickedAfter(before, from, text)
        /\ ~GoesOn(before, n) /\ t > 0 =>
              Trimmed(before) = PickedAfter(before, from, text)
    BY <1>8, <1>10, PickedGrows
  <2>8. Result(s)' = IF k + 1 = m THEN Trimmed(before)
                     ELSE Picked(before, Upto(before, s[(k + 1) + 1]))
    BY <1>1, <1>10 DEF Result
  <2>9. Result(s)' = done \o add
    <3>1. CASE k + 1 = m
      <4>1. ~GoesOn(before, n) /\ t > 0
        BY <1>8, <3>1
      <4>2. QED
        BY <2>6, <2>7, <2>8, <3>1, <4>1
    <3>2. CASE k + 1 # m
      <4>1. GoesOn(before, n) /\ from + t < n
        BY <1>8, <3>2
      <4>2. QED
        BY <1>8, <1>14, <2>6, <2>7, <2>8, <3>2, <4>1
    <3>3. QED
      BY <3>1, <3>2
  <2>14. Result(s)' = x \o y
    BY <2>9, <2>11, <2>12
  <2>15. PICK z : z = x \o y
    OBVIOUS
  <2>16. Puts(z)'
    BY <2>5, <2>15
  <2>17. Result(s)' = z
    BY <2>14, <2>15
  <2>10. QED
    BY <2>16, <2>17 DEF Puts
<1>17. AreLines(s, lines, k + 1, before)'
  <2>1. /\ s \in [1..(m + 1) -> 0..Len(before)] /\ s[1] = 0
        /\ \A j, l \in 1..(m + 1) : j < l => s[j] < s[l]
        /\ \A j \in 1..m : LineEndsAt(before, s[j], s[j + 1])
        /\ \A j \in (k + 1)..m :
              IsRead(lines.arr[j], before, s[j], s[j + 1], lines.arr[j].len)
    BY DEF AtLine, AreLines, m
  <2>2. ASSUME NEW j \in ((k + 1) + 1)..m
        PROVE  IsRead(lines'.arr[j], before, s[j], s[j + 1], lines'.arr[j].len)
    <3>1. j \in 1..m /\ j # k + 1 /\ j \in (k + 1)..m
      BY <1>10
    <3>2. lines'.arr[j] = lines.arr[j]
      BY <1>10, <3>1
    <3>3. QED
      BY <2>1, <3>1, <3>2
  <2>3. QED
    BY <1>1, <1>10, <2>1, <2>2 DEF AreLines
<1>18. \A q \in (s[lines'.len + 1] + 1)..Len(before') : isspace(before'[q])
  BY <1>1, <1>10 DEF AtLine, m
<1>19. k' < lines'.len => lines'.arr[lines'.len].len # 0
  <2>1. SUFFICES ASSUME k + 1 < m PROVE lines'.arr[m].len # 0
    BY <1>1, <1>10
  <2>2. lines.arr[m].len # 0
    BY <1>1 DEF AtLine, m
  <2>3. m \in 1..m /\ m # k + 1
    BY <1>10, <2>1
  <2>4. QED
    BY <1>10, <2>2, <2>3
<1>20. QED
  BY <1>13, <1>15, <1>16, <1>17, <1>18, <1>19 DEF AtLine

\* A line is handed over.
LEMMA WriteLineText == ASSUME TypeInv, TextInv, WriteLine PROVE TextInv'
<1>1. at = "write" /\ at' = "write" /\ is_check' = is_check
  BY DEF WriteLine, arg_vars
<1>2. ASSUME Heard' PROVE \E s : AtLine(s)'
  <2>1. ignored \subseteq ignored'
    BY DEF WriteLine, Ignoring
  <2>2. Heard
    BY <1>2, <2>1, HeardBefore
  <2>3. PICK s : AtLine(s)
    BY <1>1, <2>2 DEF TextInv, WritingInv
  <2>4. AtLine(s)'
    BY <1>2, <2>3, WriteLineAt
  <2>5. QED
    BY <2>4
<1>3. WritingInv'
  BY <1>2 DEF WritingInv
<1>4. ReadingInv' /\ DoneInv' /\ ClosingInv' /\ ModeInv'
  BY <1>1 DEF TextInv, ReadingInv, DoneInv, ClosingInv, ModeInv
<1>5. QED
  BY <1>3, <1>4 DEF TextInv

\* What was handed over stays so when a part of it goes to the disk.
LEMMA DrainText == ASSUME TypeInv, TextInv, Drain PROVE TextInv'
<1>1. /\ at \in {"write", "flush", "close"} /\ at' = at /\ before' = before
      /\ paths' = paths /\ i' = i /\ k' = k /\ lines' = lines
      /\ ignored' = ignored /\ err' = err /\ is_check' = is_check
  BY DEF Drain, arg_vars, line_vars
<1>2. PICK n \in 1..Len(out) : WriteOut(n)
  BY DEF Drain
<1>3. /\ n \in 0..Len(out) /\ Processing /\ FilesInv /\ StreamInv
      /\ name' = name
  BY <1>1, NameStays DEF Processing, TypeInv
<1>4. out # <<>>
  <2>1. Len(<<>>) = 0 /\ 1..0 = {}
    OBVIOUS
  <2>2. QED
    BY <1>2, <2>1
<1>5. ASSUME NEW e, NEW c, Moved(e, c) PROVE Moved(e, c)'
  BY <1>1, <1>2, <1>3, <1>5, MovedStays
<1>6. ASSUME NEW text, Puts(text) PROVE Puts(text)'
  BY <1>2, <1>3, <1>6, PutsStays
<1>7. Heard' = Heard
  BY <1>1 DEF Heard
<1>8. WritingInv'
  <2>1. SUFFICES ASSUME at = "write", Heard PROVE \E s : AtLine(s)'
    BY <1>1, <1>7 DEF WritingInv
  <2>2. PICK s : AtLine(s)
    BY <2>1 DEF TextInv, WritingInv
  <2>3. PICK c, text : c = Reached(s) /\ text = Result(s)
    OBVIOUS
  <2>4. Reached(s)' = c /\ Result(s)' = text
    BY <1>1, <2>3 DEF Reached, Result
  <2>5. \E e : Moved(e, c)'
    <3>1. PICK e : Moved(e, c)
      BY <2>2, <2>3 DEF AtLine
    <3>2. QED
      BY <1>5, <3>1
  <2>6. ignored = {} => Puts(text)'
    <3>1. ignored = {} => Puts(text)
      BY <2>2, <2>3 DEF AtLine
    <3>2. QED
      BY <1>6, <3>1
  <2>7. AreLines(s, lines, k + 1, before)'
    BY <1>1, <2>2 DEF AtLine, AreLines
  <2>8. (ignored = {} => Puts(Result(s)))'
    BY <1>1, <2>4, <2>6 DEF Puts
  <2>9. AtLine(s)'
    BY <1>1, <2>2, <2>4, <2>5, <2>7, <2>8 DEF AtLine
  <2>10. QED
    BY <2>9
<1>9. DoneInv'
  <2>1. SUFFICES ASSUME at = "flush", Heard
                 PROVE  /\ \E e : Moved(e, Len(before))'
                        /\ ignored = {} => Puts(Trimmed(before))'
    BY <1>1, <1>7 DEF DoneInv
  <2>2. PICK c, text : c = Len(before) /\ text = Trimmed(before)
    OBVIOUS
  <2>3. /\ \E e : Moved(e, c)
        /\ ignored = {} => Puts(text)
    BY <2>1, <2>2 DEF TextInv, DoneInv
  <2>4. /\ \E e : Moved(e, c)'
        /\ ignored = {} => Puts(text)'
    BY <1>5, <1>6, <2>3
  <2>5. Len(before)' = c /\ Trimmed(before)' = text
    BY <1>1, <2>2
  <2>6. QED
    BY <2>4, <2>5 DEF Moved, Puts
<1>10. ClosingInv'
  <2>1. SUFFICES ASSUME at = "close" PROVE ClosingInv'
    BY <1>1 DEF ClosingInv
  <2>2. Heard => Survives
    BY <2>1 DEF TextInv, ClosingInv
  <2>3. Heard => Survives'
    <3>1. Heard => \E e, c : Moved(e, c)
      BY <1>4, <2>2 DEF Survives
    <3>2. Heard => \E e, c : Moved(e, c)'
      BY <1>5, <3>1
    <3>3. QED
      BY <3>2 DEF Survives
  <2>4. ~(err = "OK" /\ ~is_check /\ ignored = {})
    BY <1>4, <2>1 DEF TextInv, ClosingInv
  <2>5. QED
    BY <1>1, <1>7, <2>3, <2>4 DEF ClosingInv
<1>11. ReadingInv' /\ ModeInv'
  BY <1>1 DEF TextInv, ReadingInv, ModeInv
<1>12. QED
  BY <1>8, <1>9, <1>10, <1>11 DEF TextInv

\* A part of a line is handed over and write_file gives up.
LEMMA ShortWriteText == ASSUME TypeInv, TextInv, ShortWrite PROVE TextInv'
<1>1. /\ at = "write" /\ at' = "close" /\ files' = files /\ before' = before
      /\ paths' = paths /\ i' = i /\ k' = k /\ pos' = pos /\ err' = "ERR"
      /\ k < lines.len /\ ignored' = ignored /\ is_check' = is_check
  BY DEF ShortWrite, arg_vars, file_vars
<1>2. FilesInv /\ StreamInv /\ name' = name /\ Processing
  BY <1>1, NameStays DEF TypeInv, Processing
<1>3. PICK d \in 0..lines.arr[k + 1].len :
         out' = out \o SubSeq(Text(lines.arr[k + 1]), 1, d)
  BY DEF ShortWrite, mrv_get_idx
<1>4. ASSUME Heard PROVE \E e, c : Moved(e, c)'
  <2>1. PICK s : AtLine(s)
    BY <1>1, <1>4 DEF TextInv, WritingInv
  <2>2. PICK from, n, t : ToWrite(s, from, n, t) /\ \E e : Moved(e, from)
    BY <1>1, <2>1, ToWriteIs
  <2>3. PICK e : Moved(e, from)
    BY <2>2
  <2> DEFINE old == lines.arr[k + 1]
             text == Text(old)
             add == SubSeq(text, 1, d)
  <2>4. /\ from \in Nat /\ n \in Nat /\ from < n /\ n <= Len(before)
        /\ t \in Nat /\ from + t <= n
        /\ text \in Seq(Chars) /\ Len(text) = t /\ old.len = t
        /\ \A q \in 1..t : text[q] = before[from + q]
        /\ ftell <= from
    BY <2>2 DEF ToWrite
  <2>5. out' = out \o add /\ d \in 0..old.len
    BY <1>3
  <2> HIDE DEF old, text
  <2>6. d \in Nat /\ d <= t
    BY <2>4, <2>5
  <2>7. /\ add \in Seq(Chars) /\ Len(add) = d
        /\ \A q \in 1..d : add[q] = text[q]
    <3>1. \A q \in 1..d : text[q] \in Chars
      BY <2>4, <2>6
    <3>2. add \in Seq(Chars)
      BY <2>6, <3>1, SubSeqProperties
    <3>3. QED
      BY <2>4, <2>6, <3>2
  <2> HIDE DEF add
  <2>8. PICK c : c = from + d
    OBVIOUS
  <2>9. /\ Len(before) \in Nat /\ ftell \in Nat /\ before \in Seq(Chars)
    <3>1. pos \in Nat /\ Len(out) \in Nat /\ before \in Seq(Chars)
      BY <1>2 DEF StreamInv, FilesInv
    <3>2. QED
      BY <3>1 DEF ftell
  <2>10. /\ c \in 0..Len(before) /\ from + d <= c /\ ftell + Len(add) <= c
         /\ d <= Len(add)
         /\ \A q \in 1..d : add[q] = before[from + q]
         /\ \A q \in (from + d + 1)..c : isspace(before[q])
    <3>1. c \in 0..Len(before) /\ from + d <= c /\ ftell + Len(add) <= c
          /\ d <= Len(add)
      BY <2>4, <2>6, <2>7, <2>8, <2>9
    <3>2. \A q \in 1..d : q \in 1..t
      BY <2>4, <2>6
    <3>3. \A q \in 1..d : add[q] = before[from + q]
      BY <2>4, <2>7, <3>2
    <3>4. (from + d + 1)..c = {}
      BY <2>4, <2>6, <2>8
    <3>5. QED
      BY <3>1, <3>3, <3>4
  <2>11. \E f : Moved(f, c)'
    BY <1>1, <1>2, <2>3, <2>4, <2>5, <2>6, <2>7, <2>10, MovedMore
  <2>12. QED
    BY <2>11
<1>5. ClosingInv'
  <2>1. Heard' = Heard
    BY <1>1 DEF Heard
  <2>2. QED
    BY <1>1, <1>4, <2>1 DEF ClosingInv, Survives
<1>6. ReadingInv' /\ WritingInv' /\ DoneInv' /\ ModeInv'
  BY <1>1 DEF ReadingInv, WritingInv, DoneInv, ModeInv
<1>7. QED
  BY <1>5, <1>6 DEF TextInv

\* All lines are handed over.
LEMMA EndWriteText == ASSUME TypeInv, TextInv, EndWrite PROVE TextInv'
<1>1. /\ at = "write" /\ at' = "flush" /\ files' = files /\ before' = before
      /\ paths' = paths /\ i' = i /\ pos' = pos /\ out' = out
      /\ k = lines.len /\ ignored' = ignored /\ is_check' = is_check
  BY DEF EndWrite, arg_vars, file_vars, stream_vars
<1>2. name' = name /\ Heard' = Heard
  BY <1>1, NameStays DEF Heard
<1>3. ASSUME Heard
      PROVE  /\ \E e : Moved(e, Len(before))
             /\ ignored = {} => Puts(Trimmed(before))
  <2>1. PICK s : AtLine(s)
    BY <1>1, <1>3 DEF TextInv, WritingInv
  <2>2. Reached(s) = Len(before) /\ Result(s) = Trimmed(before)
    BY <1>1 DEF Reached, Result
  <2>3. QED
    BY <2>1, <2>2 DEF AtLine
<1>4. DoneInv'
  <2>1. SUFFICES ASSUME Heard
                 PROVE  /\ \E e : Moved(e, Len(before))'
                        /\ ignored = {} => Puts(Trimmed(before))'
    BY <1>1, <1>2 DEF DoneInv
  <2>2. \A e : Moved(e, Len(before))' <=> Moved(e, Len(before))
    BY <1>1, <1>2 DEF Moved, ftell, Taken
  <2>3. Puts(Trimmed(before))' <=> Puts(Trimmed(before))
    <3>1. PICK text : text = Trimmed(before)
      OBVIOUS
    <3>2. Trimmed(before)' = text
      BY <1>1, <3>1
    <3>3. Puts(text)' <=> Puts(text)
      BY <1>1, <1>2 DEF Puts, ftell, Taken
    <3>4. Puts(Trimmed(before))' <=> Puts(text)'
      BY <3>2 DEF Puts
    <3>5. QED
      BY <3>1, <3>3, <3>4
  <2>4. QED
    BY <1>3, <2>1, <2>2, <2>3
<1>5. ReadingInv' /\ WritingInv' /\ ClosingInv' /\ ModeInv'
  BY <1>1 DEF TextInv, ReadingInv, WritingInv, ClosingInv, ModeInv
<1>6. QED
  BY <1>4, <1>5 DEF TextInv

\* All of the stream goes to the disk, or a failure is noted.
LEMMA FlushText == ASSUME TypeInv, TextInv, Flush PROVE TextInv'
<1>1. /\ at = "flush" /\ at' = "truncate" /\ before' = before
      /\ paths' = paths /\ i' = i /\ is_check' = is_check
  BY DEF Flush, arg_vars
<1>2. /\ FilesInv /\ StreamInv /\ name' = name /\ Processing
  BY <1>1, NameStays DEF TypeInv, Processing
<1>3. PICK granted \in BOOLEAN :
         /\ Ignoring("fflush", granted)
         /\ granted => WriteOut(Len(out))
  BY DEF Flush
<1>4. DoneInv'
  <2>1. SUFFICES ASSUME Heard'
                 PROVE  /\ \E e : Moved(e, Len(before))'
                        /\ ignored' = {} => Puts(Trimmed(before))'
                        /\ out' = <<>>
    BY <1>1 DEF DoneInv
  <2>2. ignored \subseteq ignored' /\ (granted \/ "fflush" \in ignored')
    BY <1>3 DEF Ignoring
  <2>3. Heard /\ granted
    BY <2>1, <2>2, HeardBefore DEF Heard
  <2>4. WriteOut(Len(out)) /\ Len(out) \in 0..Len(out)
    BY <1>2, <1>3, <2>3 DEF StreamInv
  <2>5. PICK c, text : c = Len(before) /\ text = Trimmed(before)
    OBVIOUS
  <2>6. /\ \E e : Moved(e, c)
        /\ ignored = {} => Puts(text)
    BY <1>1, <2>3, <2>5 DEF TextInv, DoneInv
  <2>7. \E e : Moved(e, c)'
    BY <1>1, <1>2, <2>4, <2>6, MovedStays
  <2>8. ignored' = {} => Puts(text)'
    BY <1>2, <2>2, <2>4, <2>6, PutsStays
  <2>9. Len(before)' = c /\ Trimmed(before)' = text
    BY <1>1, <2>5
  <2>10. out' = <<>>
    <3>1. out' \in Seq(Chars) /\ Len(out') = Len(out) - Len(out)
      BY <1>2, <2>4, WriteOutIs
    <3>2. Len(out) \in Nat
      BY <1>2 DEF StreamInv
    <3>3. Len(out') = 0
      BY <3>1, <3>2
    <3>4. QED
      BY <3>1, <3>3
  <2>11. QED
    BY <2>7, <2>8, <2>9, <2>10 DEF Moved, Puts
<1>5. ReadingInv' /\ WritingInv' /\ ClosingInv' /\ ModeInv'
  BY <1>1 DEF TextInv, ReadingInv, WritingInv, ClosingInv, ModeInv
<1>6. QED
  BY <1>4, <1>5 DEF TextInv

\* All of the text is in front of the offset: the file is cut behind it.
LEMMA TruncateText == ASSUME TypeInv, TextInv, Truncate PROVE TextInv'
<1>1. /\ at = "truncate" /\ at' = "close" /\ before' = before
      /\ paths' = paths /\ i' = i /\ pos' = pos /\ out' = out
      /\ ignored' = ignored /\ is_check' = is_check
  BY DEF Truncate, arg_vars, stream_vars
<1>2. /\ FilesInv /\ StreamInv /\ name' = name /\ Processing /\ Heard' = Heard
  BY <1>1, NameStays DEF TypeInv, Processing, Heard
<1>3. Heard => /\ \E e : Moved(e, Len(before))
               /\ ignored = {} => Puts(Trimmed(before))
               /\ out = <<>>
  BY <1>1 DEF TextInv, DoneInv
<1>4. ignored = {} => Heard
  BY DEF Heard
<1> DEFINE file == files[name]
<1>5. /\ name \in DOMAIN files /\ file \in Seq(Chars) /\ Len(file) \in Nat
      /\ pos \in Nat /\ pos <= Len(file) /\ before \in Seq(Chars)
      /\ Len(before) \in Nat /\ Len(out) \in Nat
  BY <1>2, NameIs DEF StreamInv, FilesInv
<1>6. CASE files' = files /\ err' = "ERR"
  <2>1. PICK c : c = Len(before)
    OBVIOUS
  <2>2. \A e : Moved(e, c) => Moved(e, c)'
    BY <1>1, <1>2, <1>6 DEF Moved, ftell, Taken
  <2>3. Heard => Survives'
    BY <1>3, <2>1, <2>2 DEF Survives
  <2>4. ClosingInv'
    BY <1>1, <1>2, <1>6, <2>3 DEF ClosingInv
  <2>5. QED
    BY <1>1, <2>4 DEF TextInv, ReadingInv, WritingInv, DoneInv, ModeInv
<1>7. CASE files' = [files EXCEPT ![name] = Cut(@, ftell)] /\ err' = err
  <2>1. files'[name] = Cut(file, ftell)
    BY <1>5, <1>7
  <2>2. ASSUME Heard
        PROVE  /\ \E e : IsEmbedding(e, before, files'[name])
               /\ ignored = {} => files'[name] = Trimmed(before)
               /\ out' = <<>>
    <3>1. out = <<>> /\ ftell = pos
      <4>1. out = <<>>
        BY <1>3, <2>2
      <4>2. Len(out) = 0
        BY <4>1
      <4>3. QED
        BY <1>5, <4>1, <4>2 DEF ftell
    <3> DEFINE cut == Cut(file, ftell)
    <3>2. /\ cut \in Seq(Chars) /\ Len(cut) = pos
          /\ \A p \in 1..pos : p <= Len(file) => cut[p] = file[p]
      BY <1>5, <3>1, CutIs
    <3>3. \A p \in 1..pos : cut[p] = file[p] /\ Taken(p) = file[p]
      <4>1. \A p \in 1..pos : p <= Len(file) /\ p <= pos
        BY <1>5
      <4>2. QED
        BY <3>2, <4>1 DEF Taken
    <3> HIDE DEF cut
    <3>4. PICK e : Moved(e, Len(before))
      BY <1>3, <2>2
    <3>5. ASSUME NEW q \in Seen(before)
          PROVE  e[q] \in 1..Len(cut) /\ cut[e[q]] = before[q]
      <4>1. q \in Nat /\ q <= Len(before)
        BY <1>5, SeenIs
      <4>2. e[q] \in 1..q /\ e[q] <= ftell /\ Taken(e[q]) = before[q]
        BY <3>4, <4>1 DEF Moved
      <4>3. e[q] \in 1..pos
        BY <1>5, <3>1, <4>1, <4>2
      <4>4. QED
        BY <3>2, <3>3, <4>2, <4>3
    <3>6. ASSUME NEW q \in Seen(before), NEW p \in Seen(before), q < p
          PROVE  e[q] < e[p]
      <4>1. p <= Len(before)
        BY <1>5, SeenIs
      <4>2. QED
        BY <3>4, <3>6, <4>1 DEF Moved
    <3>7. IsEmbedding(e, before, cut)
      BY <3>5, <3>6 DEF IsEmbedding
    <3>8. ASSUME ignored = {} PROVE cut = Trimmed(before)
      <4> DEFINE text == Trimmed(before)
      <4>1. Puts(text)
        BY <1>3, <1>4, <3>8
      <4>2. text \in Seq(Chars)
        <5>1. Stays(before) \in SUBSET (1..Len(before))
          BY DEF Stays
        <5>2. Picked(before, Stays(before)) \in Seq(Chars)
          BY <1>5, <5>1, PickedIs DEF IsPicked
        <5>3. Append(Picked(before, Stays(before)), Newline) \in Seq(Chars)
          BY <5>2, CharsAre
        <5>4. <<>> \in Seq(Chars)
          OBVIOUS
        <5>5. QED
          BY <5>3, <5>4 DEF Trimmed
      <4> HIDE DEF text
      <4>3. Len(text) = pos /\ \A p \in 1..pos : Taken(p) = text[p]
        BY <3>1, <4>1 DEF Puts
      <4>4. \A p \in 1..Len(cut) : cut[p] = text[p]
        BY <3>2, <3>3, <4>3
      <4>5. cut = text
        BY <3>2, <4>2, <4>3, <4>4, SeqEqual
      <4>6. QED
        BY <4>5 DEF text
    <3>9. QED
      BY <1>1, <2>1, <3>1, <3>7, <3>8 DEF cut
  <2>3. Heard => Survives'
    BY <1>1, <1>2, <2>2 DEF Survives
  <2>4. ignored = {} => out' = <<>> /\ files'[name] = Trimmed(before)
    BY <1>4, <2>2
  <2>5. ClosingInv'
    BY <1>1, <1>2, <2>3, <2>4 DEF ClosingInv
  <2>6. QED
    BY <1>1, <2>5 DEF TextInv, ReadingInv, WritingInv, DoneInv, ModeInv
<1>8. QED
  BY <1>6, <1>7 DEF Truncate

\* A file that is only looked at has its text.
LEMMA CheckedText ==
    ASSUME TypeInv, TextInv, at = "check", at' \in {"check", "close"},
           files' = files, before' = before, name' = name, is_check' = is_check,
           out' = out
    PROVE  TextInv'
<1>1. files[name] = before /\ is_check /\ out = <<>> /\ before \in Seq(Chars)
  BY DEF TextInv, ReadingInv, ModeInv, TypeInv, StreamInv, FilesInv
<1> DEFINE e == [q \in 1..Len(before) |-> q]
<1>2. \A q \in Seen(before) : q \in 1..Len(before) /\ e[q] = q
  BY DEF Seen
<1> HIDE DEF e
<1>3. IsEmbedding(e, before, before)
  BY <1>2 DEF IsEmbedding
<1>4. Survives'
  BY <1>1, <1>3 DEF Survives
<1>5. QED
  BY <1>1, <1>4 DEF TextInv, ReadingInv, WritingInv, DoneInv, ClosingInv,
                    ModeInv

\* check_file writes nothing.
LEMMA CheckLineText == ASSUME TypeInv, TextInv, CheckLine PROVE TextInv'
<1>1. /\ at = "check" /\ at' \in {"check", "close"} /\ files' = files
      /\ before' = before /\ paths' = paths /\ i' = i /\ is_check' = is_check
      /\ out' = out
  BY DEF CheckLine, file_vars, arg_vars, stream_vars
<1>2. QED
  BY <1>1, NameStays, CheckedText

LEMMA EndCheckText == ASSUME TypeInv, TextInv, EndCheck PROVE TextInv'
<1>1. /\ at = "check" /\ at' = "close" /\ files' = files
      /\ before' = before /\ paths' = paths /\ i' = i /\ is_check' = is_check
      /\ out' = out
  BY DEF EndCheck, arg_vars, stream_vars
<1>2. QED
  BY <1>1, NameStays, CheckedText

\* Where no file is open there is nothing to say.
LEMMA ClosedText ==
    ASSUME Start \/ CannotOpen \/ NoMoreFiles \/ Close \/ Crash
    PROVE  TextInv'
<1>1. at' \in {"exit", "open"}
  BY DEF Start, CannotOpen, NoMoreFiles, Close, Crash
<1>2. QED
  BY <1>1 DEF TextInv, ReadingInv, WritingInv, DoneInv, ClosingInv, ModeInv

\* Nothing happens.
LEMMA StutterText == ASSUME TextInv, UNCHANGED vars PROVE TextInv'
<1>1. /\ files' = files /\ before' = before /\ ignored' = ignored
      /\ lines' = lines /\ rd' = rd /\ k' = k /\ pos' = pos /\ out' = out
      /\ is_check' = is_check /\ paths' = paths /\ i' = i /\ at' = at /\ err' = err
  BY DEF vars, file_vars, line_vars, stream_vars, arg_vars
<1>2. name' = name /\ Heard' = Heard /\ ftell' = ftell
  BY <1>1, NameStays DEF Heard, ftell
<1>3. \A e, c : Moved(e, c)' <=> Moved(e, c)
  BY <1>1, <1>2 DEF Moved, Taken
<1>4. \A text : Puts(text)' <=> Puts(text)
  BY <1>1, <1>2 DEF Puts, Taken
<1>5. ReadingInv' /\ ModeInv'
  BY <1>1, <1>2 DEF TextInv, ReadingInv, ModeInv, HasLines
<1>6. WritingInv'
  <2>1. SUFFICES ASSUME at = "write", Heard PROVE \E s : AtLine(s)'
    BY <1>1, <1>2 DEF WritingInv
  <2>2. PICK s : AtLine(s)
    BY <2>1 DEF TextInv, WritingInv
  <2>3. PICK c, text : c = Reached(s) /\ text = Result(s)
    OBVIOUS
  <2>4. Reached(s)' = c /\ Result(s)' = text
    BY <1>1, <2>3 DEF Reached, Result
  <2>5. /\ \E e : Moved(e, c)'
        /\ ignored = {} => Puts(text)'
    BY <1>3, <1>4, <2>2, <2>3 DEF AtLine
  <2>6. AreLines(s, lines, k + 1, before)'
    BY <1>1, <2>2 DEF AtLine, AreLines
  <2>7. (ignored = {} => Puts(Result(s)))'
    BY <1>1, <2>4, <2>5 DEF Puts
  <2>8. AtLine(s)'
    BY <1>1, <2>2, <2>4, <2>5, <2>6, <2>7 DEF AtLine
  <2>9. QED
    BY <2>8
<1>7. DoneInv'
  <2>1. SUFFICES ASSUME at \in {"flush", "truncate"}, Heard
                 PROVE  /\ \E e : Moved(e, Len(before))'
                        /\ ignored = {} => Puts(Trimmed(before))'
                        /\ at = "truncate" => out = <<>>
    BY <1>1, <1>2 DEF DoneInv
  <2>2. PICK c, text : c = Len(before) /\ text = Trimmed(before)
    OBVIOUS
  <2>3. /\ \E e : Moved(e, c)'
        /\ ignored = {} => Puts(text)'
        /\ at = "truncate" => out = <<>>
    BY <1>3, <1>4, <2>1, <2>2 DEF TextInv, DoneInv
  <2>4. Len(before)' = c /\ Trimmed(before)' = text
    BY <1>1, <2>2
  <2>5. QED
    BY <2>3, <2>4 DEF Moved, Puts
<1>8. ClosingInv'
  <2>1. Survives => Survives'
    BY <1>1, <1>2, <1>3 DEF Survives
  <2>2. QED
    BY <1>1, <1>2, <2>1 DEF TextInv, ClosingInv
<1>9. QED
  BY <1>5, <1>6, <1>7, <1>8 DEF TextInv

\* So every step keeps it.
LEMMA StepText == ASSUME TypeInv, TextInv, [Next]_vars PROVE TextInv'
BY OpenText, ReadLineText, EndReadText, CheckLineText, EndCheckText,
   WriteLineText, DrainText, ShortWriteText, EndWriteText, FlushText,
   TruncateText, ClosedText, StutterText DEF Next

\* How far the text of each file has come, from its reading to its cutting.
THEOREM SpacersTexts == Spec => [](TypeInv /\ TextInv)
<1>1. Init => TypeInv /\ TextInv
  <2>1. Init => at = "exit"
    BY DEF Init
  <2>2. QED
    BY <2>1, InitType, IdleText
<1>2. TypeInv /\ TextInv /\ [Next]_vars => (TypeInv /\ TextInv)'
  BY StepType, StepText
<1>3. QED
  BY <1>1, <1>2, PTL DEF Spec

\* TextSurvives follows.
LEMMA Survived ==
    ASSUME TypeInv, TextInv
    PROVE  TextSurvives
<1>1. SUFFICES ASSUME Processing, Heard
               PROVE  IsSubsequence(Visible(before), Visible(files[name]))
  BY DEF TextSurvives, Heard
<1>2. FilesInv /\ StreamInv /\ before \in Seq(Chars) /\ files[name] \in Seq(Chars)
  BY <1>1, NameIs DEF TypeInv, FilesInv
<1>3. at \in {"read", "check", "write", "flush", "truncate", "close"}
  BY <1>1, <1>2 DEF FilesInv, Processing, Places
<1>4. CASE at \in {"read", "check"}
  <2>1. files[name] = before
    BY <1>4 DEF TextInv, ReadingInv
  <2>2. QED
    BY <1>2, <2>1, SameVisible
<1>5. CASE \E e, c : Moved(e, c)
  BY <1>1, <1>2, <1>5, MovedSurvives
<1>6. CASE at = "write"
  <2>1. \E s : AtLine(s)
    BY <1>1, <1>6 DEF TextInv, WritingInv
  <2>2. QED
    BY <1>5, <2>1 DEF AtLine
<1>7. CASE at \in {"flush", "truncate"}
  BY <1>1, <1>5, <1>7 DEF TextInv, DoneInv
<1>8. CASE at = "close"
  <2>1. Survives
    BY <1>1, <1>8 DEF TextInv, ClosingInv
  <2>2. CASE \E e : IsEmbedding(e, before, files[name])
    BY <1>2, <2>2, EmbeddingIs
  <2>3. QED
    BY <1>5, <2>1, <2>2 DEF Survives
<1>9. QED
  BY <1>3, <1>4, <1>6, <1>7, <1>8

\* TextSurvives: wherever the process is killed or a write stops short, no
\* visible character of the file that was opened is lost, unless one of the
\* four failures that write_file does not look at has happened.
THEOREM SpacersTextSurvives == Spec => []TextSurvives
<1>1. TypeInv /\ TextInv => TextSurvives
  BY Survived
<1>2. QED
  BY <1>1, SpacersTexts, PTL

\* SuccessIsTrimmed: where write_file returns OK and has ignored no failure, the
\* file holds the trimmed text of what was opened, no more and no less.
THEOREM SpacersSuccessIsTrimmed == Spec => []SuccessIsTrimmed
<1>1. TypeInv /\ TextInv => SuccessIsTrimmed
  BY DEF TextInv, ClosingInv, SuccessIsTrimmed
<1>2. QED
  BY <1>1, SpacersTexts, PTL

-----------------------------------------------------------------------------
(* What check_file looks for *)

\* No line up to n ends in a space and a newline.
NoSpaceEnds(text, n) ==
    \A m \in 2..n : ~(text[m] = Newline /\ text[m - 1] = Space)

\* The line that ends at n is empty.
EmptyLineAt(text, n) ==
    n > 0 /\ text[n] = Newline /\ (n = 1 \/ text[n - 1] = Newline)

Clean(text) == NoSpaceEnds(text, Len(text)) /\ ~EmptyLineAt(text, Len(text))

\* A place that stays has a visible one behind it that stays too.
LEMMA StaysIs ==
    ASSUME NEW text \in Seq(Chars)
    PROVE  /\ Stays(text) \in SUBSET (1..Len(text))
           /\ \A n \in Stays(text) :
                 \E v \in n..Len(text) :
                    /\ v \in Stays(text)
                    /\ ~isspace(text[v])
                    /\ text[n] = Newline \/ \A b \in n..v : text[b] # Newline
<1>1. Len(text) \in Nat
  OBVIOUS
<1>2. ASSUME NEW n \in Stays(text)
      PROVE  \E v \in n..Len(text) :
                    /\ v \in Stays(text)
                    /\ ~isspace(text[v])
                    /\ text[n] = Newline \/ \A b \in n..v : text[b] # Newline
  <2>1. PICK v \in n..Len(text) :
           /\ ~isspace(text[v])
           /\ text[n] = Newline \/ \A b \in n..v : text[b] # Newline
    BY DEF Stays
  <2>2. n \in 1..Len(text)
    BY DEF Stays
  <2>3. v \in 1..Len(text) /\ v \in v..Len(text)
    BY <1>1, <2>1, <2>2
  <2>4. \A b \in v..v : b = v
    BY <2>3
  <2>5. \A b \in v..v : text[b] # Newline
    BY <2>1, <2>4, VisibleIsNone
  <2>6. v \in Stays(text)
    BY <2>1, <2>3, <2>5 DEF Stays
  <2>7. QED
    BY <2>1, <2>6
<1>3. QED
  BY <1>2 DEF Stays

\* A trimmed text: no line ends in space, and the last is not empty.
LEMMA TrimmedIsClean ==
    ASSUME NEW x \in Seq(Chars)
    PROVE  EndsInNewline(Trimmed(x)) /\ Clean(Trimmed(x))
<1> DEFINE S == Stays(x)
           s == Picked(x, S)
           c == Len(s)
           t == Trimmed(x)
<1>1. Len(x) \in Nat /\ S \in SUBSET (1..Len(x)) /\ IsPicked(Chars, s, x, S)
  BY StaysIs, PickedIs
<1>2. s \in Seq(Chars) /\ c \in Nat /\ c = Cardinality(S)
      /\ \A p \in S : s[Rank(S, p)] = x[p]
  BY <1>1 DEF IsPicked
<1>3. CASE S = {}
  <2>1. t = <<>>
    BY <1>3 DEF Trimmed
  <2>2. Len(<<>>) = 0 /\ 2..0 = {}
    OBVIOUS
  <2>3. EndsInNewline(<<>>)
    BY DEF EndsInNewline
  <2>4. Clean(<<>>)
    BY <2>2 DEF Clean, NoSpaceEnds, EmptyLineAt
  <2>5. QED
    BY <2>1, <2>3, <2>4
<1>4. CASE S # {}
  <2>1. t = Append(s, Newline)
    BY <1>4 DEF Trimmed
  <2>2. \A n \in S : \E v \in n..Len(x) :
           /\ v \in S
           /\ ~isspace(x[v])
           /\ x[n] = Newline \/ \A b \in n..v : x[b] # Newline
    BY StaysIs
  <2>3. \A p \in S : p \in Nat
    BY <1>1
  <2> HIDE DEF S, s, c, t
  <2>4. \A p \in S : Rank(S, p) \in 1..c
    BY <1>1, <1>2, RankRange
  <2>5. PICK p0 : p0 \in S
    BY <1>4
  <2>6. c > 0
    <3>1. Rank(S, p0) \in 1..c
      BY <2>4, <2>5
    <3>2. QED
      BY <1>2, <3>1
  <2>7. c = Len(s)
    BY DEF c
  <2>8. /\ Len(t) = c + 1 /\ t[c + 1] = Newline
        /\ \A r \in 1..c : t[r] = s[r]
    BY <1>2, <2>1, <2>7, CharsAre
  <2>9. \A r \in 1..c : \E p \in S : Rank(S, p) = r
    BY <1>1, <1>2, RankOfSome
  <2>10. \A p, q \in S : p < q => Rank(S, p) < Rank(S, q)
    BY <1>1, <2>3, RankGrows
  <2>11. NoSpaceEnds(t, c + 1)
    <3>1. SUFFICES ASSUME NEW n \in 2..(c + 1), t[n] = Newline, t[n - 1] = Space
                   PROVE  FALSE
      BY DEF NoSpaceEnds
    <3>2. n - 1 \in 1..c /\ n \in Nat
      BY <1>2
    <3>3. PICK p \in S : Rank(S, p) = n - 1
      BY <2>9, <3>2
    <3>4. x[p] = Space
      BY <1>2, <2>8, <3>1, <3>2, <3>3
    <3>5. PICK v \in p..Len(x) :
             /\ v \in S
             /\ ~isspace(x[v])
             /\ x[p] = Newline \/ \A b \in p..v : x[b] # Newline
      BY <2>2
    <3>6. \A b \in p..v : x[b] # Newline
      BY <3>4, <3>5 DEF Space, Newline
    <3>7. p # v
      BY <3>4, <3>5 DEF isspace
    <3>8. p \in Nat /\ v \in Nat /\ p < v
      BY <1>1, <2>3, <3>5, <3>7
    <3>9. Rank(S, v) \in 1..c /\ n - 1 < Rank(S, v)
      BY <2>4, <2>10, <3>3, <3>5, <3>8
    <3>10. n \in 1..c
      BY <1>2, <3>2, <3>9
    <3>11. PICK q \in S : Rank(S, q) = n
      BY <2>9, <3>10
    <3>12. x[q] = Newline
      BY <1>2, <2>8, <3>1, <3>10, <3>11
    <3>13. q \in Nat
      BY <2>3
    <3>14. ~(v < q)
      <4>1. ASSUME v < q PROVE FALSE
        <5>1. Rank(S, v) < n
          BY <2>10, <3>5, <3>11, <4>1
        <5>2. QED
          BY <1>2, <3>2, <3>9, <5>1
      <4>2. QED
        BY <4>1
    <3>15. ~(q < p) /\ q # p
      <4>1. ASSUME q < p PROVE FALSE
        <5>1. n < n - 1
          BY <2>10, <3>3, <3>11, <4>1
        <5>2. QED
          BY <3>2, <5>1
      <4>2. QED
        BY <3>2, <3>3, <3>11, <4>1
    <3>16. q \in p..v
      BY <3>8, <3>13, <3>14, <3>15
    <3>17. QED
      BY <3>6, <3>12, <3>16
  <2>12. ~EmptyLineAt(t, c + 1)
    <3>1. c + 1 # 1 /\ (c + 1) - 1 = c /\ c \in 1..c
      BY <1>2, <2>6
    <3>2. PICK p \in S : Rank(S, p) = c
      BY <2>9, <3>1
    <3>3. PICK v \in p..Len(x) : v \in S /\ ~isspace(x[v])
      BY <2>2
    <3>4. p \in Nat /\ v \in Nat
      BY <2>3, <3>3
    <3>5. ~(p < v)
      <4>1. ASSUME p < v PROVE FALSE
        <5>1. c < Rank(S, v) /\ Rank(S, v) \in 1..c
          BY <2>4, <2>10, <3>2, <3>3, <4>1
        <5>2. QED
          BY <1>2, <5>1
      <4>2. QED
        BY <4>1
    <3>6. p = v
      BY <1>1, <3>3, <3>4, <3>5
    <3>7. t[c] = x[p]
      BY <1>2, <2>8, <3>1, <3>2
    <3>8. t[c] # Newline
      BY <3>3, <3>6, <3>7, VisibleIsNone
    <3>9. QED
      BY <3>1, <3>8 DEF EmptyLineAt
  <2>13. EndsInNewline(t)
    BY <2>8 DEF EndsInNewline
  <2>14. Clean(t)
    BY <2>8, <2>11, <2>12 DEF Clean
  <2>15. QED
    BY <2>13, <2>14 DEF t
<1>5. QED
  BY <1>3, <1>4

\* All places but the last.
LEMMA PicksFront ==
    ASSUME NEW text \in Seq(Chars), NEW n \in Nat, Len(text) = n + 1
    PROVE  Append(Picked(text, 1..n), text[n + 1]) = text
<1> DEFINE run == SubSeq(text, 1, n)
<1>1. run \in Seq(Chars) /\ Len(run) = n /\ \A q \in 1..n : run[q] = text[q]
  <2>1. \A q \in 1..n : text[q] \in Chars
    OBVIOUS
  <2>2. run \in Seq(Chars)
    BY <2>1, SubSeqProperties
  <2>3. QED
    BY <2>2
<1> HIDE DEF run
<1>2. {} \in SUBSET (1..Len(text)) /\ (\A p \in {} : p <= 0) /\ 0 + n <= Len(text)
      /\ 0 \in Nat /\ \A q \in 1..n : run[q] = text[0 + q]
  BY <1>1
<1>3. PicksRun(text, {}, 0, n, run)
  BY <1>1, <1>2, PickedRun
<1>4. {} \cup ((0 + 1)..(0 + n)) = 1..n
  OBVIOUS
<1>5. Picked(text, 1..n) = <<>> \o run
  BY <1>3, <1>4, PickedNone DEF PicksRun
<1>6. <<>> \o run = run
  BY <1>1
<1>7. Append(run, text[n + 1]) = text
  <2> DEFINE t == Append(run, text[n + 1])
  <2>1. text[n + 1] \in Chars
    OBVIOUS
  <2>2. t \in Seq(Chars) /\ Len(t) = n + 1
    BY <1>1, <2>1
  <2>3. \A q \in 1..(n + 1) : t[q] = text[q]
    BY <1>1, <2>1
  <2>4. t = text
    BY <2>2, <2>3, SeqEqual
  <2>5. QED
    BY <2>4
<1>8. QED
  BY <1>5, <1>6, <1>7

\* And a clean text is a trimmed one, when it ends in a newline and has no tab.
LEMMA CleanIsTrimmed ==
    ASSUME NEW text \in Seq(Chars), EndsInNewline(text), Clean(text),
           ~HasTab(text)
    PROVE  Trimmed(text) = text
<1>1. CASE text = <<>>
  <2>1. Stays(text) \in SUBSET (1..Len(text)) /\ Len(text) = 0
    BY <1>1, StaysIs
  <2>2. Stays(text) = {}
    BY <2>1
  <2>3. QED
    BY <1>1, <2>2 DEF Trimmed
<1>2. CASE text # <<>>
  <2>1. PICK n \in Nat : Len(text) = n + 1
    <3>1. Len(text) \in Nat /\ Len(text) # 0
      BY <1>2
    <3>2. Len(text) - 1 \in Nat /\ Len(text) = (Len(text) - 1) + 1
      BY <3>1
    <3>3. QED
      BY <3>2
  <2>2. text[n + 1] = Newline
    BY <1>2, <2>1 DEF EndsInNewline
  <2>3. /\ \A m \in 2..(n + 1) : ~(text[m] = Newline /\ text[m - 1] = Space)
        /\ ~EmptyLineAt(text, n + 1)
    BY <2>1 DEF Clean, NoSpaceEnds
  <2>4. n > 0 /\ text[n] # Newline
    <3>1. n + 1 > 0 /\ (n + 1) - 1 = n
      OBVIOUS
    <3>2. n + 1 # 1 /\ text[n] # Newline
      BY <2>2, <2>3, <3>1 DEF EmptyLineAt
    <3>3. QED
      BY <3>2
  <2>5. \A m \in 1..(n + 1) : text[m] # Tab
    BY <2>1 DEF HasTab
  <2>6. ASSUME NEW m \in 1..n, text[m] # Newline, text[m + 1] = Newline
        PROVE  ~isspace(text[m])
    <3>1. m + 1 \in 2..(n + 1) /\ (m + 1) - 1 = m /\ m \in 1..(n + 1)
      OBVIOUS
    <3>2. text[m] # Space
      BY <2>3, <2>6, <3>1
    <3>3. QED
      BY <2>5, <2>6, <3>1, <3>2 DEF isspace
  <2>7. ASSUME NEW m \in 1..n PROVE m \in Stays(text)
    <3>1. CASE text[m] = Newline
      <4>1. n \in 1..n /\ n \in m..Len(text) /\ m \in 1..Len(text)
        BY <2>1, <2>4
      <4>2. ~isspace(text[n])
        BY <2>2, <2>4, <2>6, <4>1
      <4>3. QED
        BY <3>1, <4>1, <4>2 DEF Stays
    <3>2. CASE text[m] # Newline
      <4>1. m \in Nat /\ m < Len(text)
        BY <2>1
      <4>2. PICK e : LineEndsAt(text, m, e)
        BY <4>1, LineAtIs
      <4>3. e \in (m + 1)..(n + 1) /\ text[e] = Newline
            /\ \A q \in (m + 1)..(e - 1) : text[q] # Newline
        BY <2>1, <2>2, <4>2 DEF LineEndsAt
      <4>4. PICK v : v = e - 1
        OBVIOUS
      <4>5. v \in 1..n /\ v \in m..Len(text) /\ m \in 1..Len(text)
            /\ v + 1 = e /\ v \in m..v
        BY <2>1, <4>3, <4>4
      <4>6. ASSUME NEW b \in m..v PROVE text[b] # Newline
        <5>1. b = m \/ b \in (m + 1)..(e - 1)
          BY <4>3, <4>4
        <5>2. QED
          BY <3>2, <4>3, <5>1
      <4>7. text[v] # Newline /\ text[v + 1] = Newline
        BY <4>3, <4>5, <4>6
      <4>8. ~isspace(text[v])
        BY <2>6, <4>5, <4>7
      <4>9. QED
        BY <4>5, <4>6, <4>8 DEF Stays
    <3>3. QED
      BY <3>1, <3>2
  <2>8. n + 1 \notin Stays(text)
    <3>1. ASSUME n + 1 \in Stays(text) PROVE FALSE
      <4>1. PICK v \in (n + 1)..Len(text) : ~isspace(text[v])
        BY <3>1 DEF Stays
      <4>2. v = n + 1
        BY <2>1, <4>1
      <4>3. isspace(text[v])
        BY <2>2, <4>2 DEF isspace
      <4>4. QED
        BY <4>1, <4>3
    <3>2. QED
      BY <3>1
  <2>9. Stays(text) = 1..n
    <3>1. Stays(text) \in SUBSET (1..(n + 1))
      BY <2>1, StaysIs
    <3>2. \A m \in 1..(n + 1) : m = n + 1 \/ m \in 1..n
      OBVIOUS
    <3>3. QED
      BY <2>7, <2>8, <3>1, <3>2
  <2>10. Stays(text) # {}
    BY <2>4, <2>9
  <2>11. Trimmed(text) = Append(Picked(text, 1..n), text[n + 1])
    BY <2>2, <2>9, <2>10 DEF Trimmed
  <2>12. QED
    BY <2>1, <2>11, PicksFront
<1>3. QED
  BY <1>1, <1>2

-----------------------------------------------------------------------------
(* The answer of check_file *)

\* What check_file knows of the lines up to rd.
Looked ==
    /\ NoSpaceEnds(before, rd)
    /\ last_line_is_empty <=> EmptyLineAt(before, rd)
    /\ rd = 0 \/ before[rd] = Newline \/ rd = Len(before)

CheckInv ==
    /\ last_line_is_empty \in BOOLEAN
    /\ at \in {"exit", "open"} => last_line_is_empty = FALSE
    /\ at = "check" => Looked
    /\ at = "close" /\ is_check =>
          /\ out = <<>>
          /\ ignored = {} /\ EndsInNewline(files[name]) =>
                (err = "ERR" <=> ~Clean(files[name]))

\* Where the file is written on, it is not held for trimmed.
Rewriting == at \in {"read", "write", "flush", "truncate"}
             \/ (at = "close" /\ ~is_check)

TrimmedInv ==
    /\ trimmed \subseteq DOMAIN files
    /\ \A f \in trimmed : \E x \in Seq(Chars) : files[f] = Trimmed(x)
    /\ Rewriting => name \notin trimmed

AnswerInv == CheckInv /\ TrimmedInv

\* AnswerInv holds at first, and each action keeps it.
LEMMA InitAnswer == ASSUME Init PROVE AnswerInv
<1>1. at = "exit" /\ last_line_is_empty = FALSE /\ trimmed = {}
  BY DEF Init
<1>2. QED
  BY <1>1 DEF AnswerInv, CheckInv, TrimmedInv, Rewriting

LEMMA ClosedAnswer ==
    ASSUME AnswerInv, Start \/ CannotOpen \/ NoMoreFiles \/ Crash
    PROVE  AnswerInv'
<1>1. /\ at' \in {"exit", "open"} /\ files' = files /\ trimmed' = trimmed
      /\ \/ last_line_is_empty' = FALSE
         \/ /\ last_line_is_empty' = last_line_is_empty
            /\ at \in {"exit", "open"}
  BY DEF Start, CannotOpen, NoMoreFiles, Crash, file_vars, Release
<1>2. CheckInv'
  <2>1. at \in {"exit", "open"} => last_line_is_empty = FALSE
    BY DEF AnswerInv, CheckInv
  <2>2. last_line_is_empty' = FALSE
    BY <1>1, <2>1
  <2>3. QED
    BY <1>1, <2>2 DEF CheckInv
<1>3. TrimmedInv'
  BY <1>1 DEF AnswerInv, TrimmedInv, Rewriting
<1>4. QED
  BY <1>2, <1>3 DEF AnswerInv

\* Before the first line there is nothing to complain about.
LEMMA OpenAnswer == ASSUME TypeInv, AnswerInv, Open PROVE AnswerInv'
<1>1. /\ at = "open" /\ at' = (IF is_check THEN "check" ELSE "read")
      /\ before' = files[name] /\ files' = files /\ rd' = rd
      /\ paths' = paths /\ i' = i /\ is_check' = is_check
      /\ trimmed' = (IF is_check THEN trimmed ELSE trimmed \ {name})
      /\ last_line_is_empty' = last_line_is_empty
  BY DEF Open, line_vars, arg_vars
<1>2. name' = name /\ rd = 0
  BY <1>1, NameStays DEF TypeInv, ReadInv
<1>3. Looked'
  <2>1. 2..0 = {} /\ ~(0 > 0)
    OBVIOUS
  <2>2. last_line_is_empty = FALSE
    BY <1>1 DEF AnswerInv, CheckInv
  <2>3. NoSpaceEnds(before', 0) /\ ~EmptyLineAt(before', 0)
    BY <2>1 DEF NoSpaceEnds, EmptyLineAt
  <2>4. QED
    BY <1>1, <1>2, <2>2, <2>3 DEF Looked
<1>4. CheckInv'
  BY <1>1, <1>3 DEF AnswerInv, CheckInv
<1>5. TrimmedInv'
  BY <1>1, <1>2 DEF AnswerInv, TrimmedInv, Rewriting
<1>6. QED
  BY <1>4, <1>5 DEF AnswerInv

\* A line is looked at: it ends in a space, or the lines up to it are clean.
LEMMA CheckLineAnswer ==
    ASSUME TypeInv, TextInv, AnswerInv, CheckLine PROVE AnswerInv'
<1>1. /\ at = "check" /\ at' \in {"check", "close"} /\ files' = files
      /\ before' = before /\ rd < Len(files[name])
      /\ paths' = paths /\ i' = i /\ out' = out
      /\ rd' = rd + Len(Line) /\ trimmed' = trimmed /\ ignored' = ignored
      /\ is_check' = is_check
  BY DEF CheckLine, arg_vars, file_vars, stream_vars
<1>2. /\ IF EndsInSpace(Line)
         THEN err' = "ERR" /\ at' = "close"
              /\ last_line_is_empty' = last_line_is_empty
         ELSE /\ last_line_is_empty' = (Line = <<Newline>>)
              /\ at' = at
  BY DEF CheckLine
<1>3. name' = name
  BY <1>1, NameStays
<1>4. /\ files[name] = before /\ is_check /\ out = <<>> /\ before \in Seq(Chars)
      /\ rd \in Nat
  BY <1>1 DEF TypeInv, FilesInv, StreamInv, ReadInv, TextInv, ReadingInv, ModeInv
<1>5. Len(before) \in Nat /\ rd < Len(before) /\ Line = LineAt(before, rd)
  BY <1>1, <1>4 DEF Line
<1>6. PICK n : /\ LineEndsAt(before, rd, n)
               /\ Line \in Seq(Chars)
               /\ Len(Line) = n - rd
               /\ \A q \in 1..(n - rd) : Line[q] = before[rd + q]
  BY <1>4, <1>5, LineAtIs
<1>7. /\ n \in Nat /\ n > rd /\ n <= Len(before)
      /\ before[n] = Newline \/ n = Len(before)
      /\ \A q \in (rd + 1)..(n - 1) : before[q] # Newline
  BY <1>4, <1>5, <1>6 DEF LineEndsAt
<1>8. rd' = n
  BY <1>1, <1>4, <1>6, <1>7
<1>9. Looked
  BY <1>1 DEF AnswerInv, CheckInv
<1>10. \A m \in 2..rd : ~(before[m] = Newline /\ before[m - 1] = Space)
  BY <1>9 DEF Looked, NoSpaceEnds
<1>11. EndsInSpace(Line) <=> n > rd + 1 /\ before[n - 1] = Space
  <2>1. CASE n > rd + 1
    <3>1. Len(Line) > 1 /\ Len(Line) - 1 = (n - rd) - 1
          /\ (n - rd) - 1 \in 1..(n - rd) /\ rd + ((n - rd) - 1) = n - 1
      BY <1>4, <1>6, <1>7, <2>1
    <3>2. Line[Len(Line) - 1] = before[n - 1]
      BY <1>6, <3>1
    <3>3. QED
      BY <2>1, <3>1, <3>2 DEF EndsInSpace
  <2>2. CASE ~(n > rd + 1)
    <3>1. ~(Len(Line) > 1)
      BY <1>4, <1>6, <1>7, <2>2
    <3>2. QED
      BY <2>2, <3>1 DEF EndsInSpace
  <2>3. QED
    BY <2>1, <2>2
<1>12. TrimmedInv'
  BY <1>1, <1>3, <1>4 DEF AnswerInv, TrimmedInv, Rewriting
<1>13. CASE EndsInSpace(Line)
  <2>1. n > rd + 1 /\ before[n - 1] = Space
    BY <1>11, <1>13
  <2>2. ASSUME EndsInNewline(before) PROVE ~Clean(before)
    <3>1. before # <<>>
      <4>1. Len(<<>>) = 0
        OBVIOUS
      <4>2. QED
        BY <1>4, <1>5, <4>1
    <3>2. before[n] = Newline
      BY <1>7, <2>2, <3>1 DEF EndsInNewline
    <3>3. n \in 2..Len(before)
      BY <1>4, <1>5, <1>7, <2>1
    <3>4. QED
      BY <2>1, <3>2, <3>3 DEF Clean, NoSpaceEnds
  <2>3. last_line_is_empty' \in BOOLEAN
    BY <1>2, <1>13 DEF AnswerInv, CheckInv
  <2>4. CheckInv'
    BY <1>1, <1>2, <1>3, <1>4, <1>13, <2>2, <2>3 DEF CheckInv
  <2>5. QED
    BY <1>12, <2>4 DEF AnswerInv
<1>14. CASE ~EndsInSpace(Line)
  <2>1. NoSpaceEnds(before, n)
    <3>1. SUFFICES ASSUME NEW m \in 2..n, before[m] = Newline,
                          before[m - 1] = Space
                   PROVE  FALSE
      BY DEF NoSpaceEnds
    <3>2. ~(m \in 2..rd)
      BY <1>10, <3>1
    <3>3. m \in (rd + 1)..n
      BY <1>4, <1>7, <3>2
    <3>4. ~(m \in (rd + 1)..(n - 1))
      BY <1>7, <3>1
    <3>5. m = n
      BY <1>4, <1>7, <3>3, <3>4
    <3>6. ~(n > rd + 1)
      BY <1>11, <1>14, <3>1, <3>5
    <3>7. rd = m - 1 /\ rd > 0 /\ rd # Len(before)
      BY <1>4, <1>5, <1>7, <3>5, <3>6
    <3>8. before[rd] = Newline
      BY <1>9, <3>7 DEF Looked
    <3>9. QED
      BY <3>1, <3>7, <3>8 DEF Newline, Space
  <2>2. Line = <<Newline>> <=> EmptyLineAt(before, n)
    <3>1. CASE n = rd + 1
      <4>1. Len(Line) = 1 /\ Line[1] = before[n]
        <5>1. n - rd = 1 /\ 1 \in 1..(n - rd)
          BY <1>4, <1>7, <3>1
        <5>2. QED
          BY <1>6, <3>1, <5>1
      <4>2. Line = <<Newline>> <=> before[n] = Newline
        <5>1. Len(<<Newline>>) = 1 /\ <<Newline>>[1] = Newline
              /\ <<Newline>> \in Seq(Chars)
          BY CharsAre
        <5>2. ASSUME before[n] = Newline PROVE Line = <<Newline>>
          <6>1. \A q \in 1..1 : Line[q] = <<Newline>>[q]
            BY <4>1, <5>1, <5>2
          <6>2. QED
            BY <1>6, <4>1, <5>1, <6>1, SeqEqual
        <5>3. QED
          BY <4>1, <5>1, <5>2
      <4>3. n > 0 /\ (n = 1 \/ before[n - 1] = Newline)
        <5>1. n - 1 = rd /\ rd # Len(before) /\ n > 0
          BY <1>4, <1>5, <1>7, <3>1
        <5>2. rd = 0 \/ before[rd] = Newline
          BY <1>9, <5>1 DEF Looked
        <5>3. QED
          BY <3>1, <5>1, <5>2
      <4>4. QED
        BY <4>2, <4>3 DEF EmptyLineAt
    <3>2. CASE n # rd + 1
      <4>1. n - 1 \in (rd + 1)..(n - 1) /\ n # 1 /\ Len(Line) # 1
        BY <1>4, <1>6, <1>7, <3>2
      <4>2. ~EmptyLineAt(before, n)
        BY <1>7, <4>1 DEF EmptyLineAt
      <4>3. Line # <<Newline>>
        <5>1. Len(<<Newline>>) = 1
          OBVIOUS
        <5>2. QED
          BY <4>1, <5>1
      <4>4. QED
        BY <4>2, <4>3
    <3>3. QED
      BY <3>1, <3>2
  <2>3. last_line_is_empty' = (Line = <<Newline>>) /\ at' = "check"
    BY <1>1, <1>2, <1>14
  <2>4. last_line_is_empty' \in BOOLEAN
        /\ (last_line_is_empty' <=> EmptyLineAt(before, n))
    BY <2>2, <2>3
  <2>5. before' = before /\ rd' = n
    BY <1>1, <1>8
  <2>6. Looked'
    BY <1>7, <2>1, <2>4, <2>5 DEF Looked
  <2>7. CheckInv'
    BY <2>3, <2>4, <2>6 DEF CheckInv
  <2>8. QED
    BY <1>12, <2>7 DEF AnswerInv
<1>15. QED
  BY <1>13, <1>14

\* All lines are looked at, unless getline failed.
LEMMA EndCheckAnswer ==
    ASSUME TypeInv, TextInv, AnswerInv, EndCheck PROVE AnswerInv'
<1>1. /\ at = "check" /\ at' = "close" /\ files' = files
      /\ before' = before /\ paths' = paths /\ i' = i /\ is_check' = is_check
      /\ out' = out /\ trimmed' = trimmed
      /\ last_line_is_empty' = last_line_is_empty
      /\ err' = (IF last_line_is_empty THEN "ERR" ELSE "OK")
  BY DEF EndCheck, arg_vars, stream_vars
<1>2. name' = name
  BY <1>1, NameStays
<1>3. PICK granted \in BOOLEAN : /\ granted => rd = Len(files[name])
                                 /\ Ignoring("getline", granted)
  BY DEF EndCheck, GetlineFails
<1>4. /\ files[name] = before /\ is_check /\ out = <<>>
  BY <1>1 DEF TypeInv, StreamInv, TextInv, ReadingInv, ModeInv
<1>5. Looked /\ last_line_is_empty \in BOOLEAN
  BY <1>1 DEF AnswerInv, CheckInv
<1>6. ignored' = {} => (err' = "ERR" <=> ~Clean(before))
  <2>1. SUFFICES ASSUME ignored' = {} PROVE err' = "ERR" <=> ~Clean(before)
    OBVIOUS
  <2>2. granted
    BY <1>3, <2>1 DEF Ignoring
  <2>3. rd = Len(before)
    BY <1>3, <1>4, <2>2
  <2>4. Clean(before) <=> ~last_line_is_empty
    BY <1>5, <2>3 DEF Looked, Clean
  <2>5. err' = "ERR" <=> last_line_is_empty
    BY <1>1
  <2>6. QED
    BY <2>4, <2>5
<1>7. CheckInv'
  BY <1>1, <1>2, <1>4, <1>5, <1>6 DEF CheckInv
<1>8. TrimmedInv'
  BY <1>1, <1>2, <1>4 DEF AnswerInv, TrimmedInv, Rewriting
<1>9. QED
  BY <1>7, <1>8 DEF AnswerInv

\* No file but the one that is written changes.
LEMMA RewritingAnswer ==
    ASSUME AnswerInv, Rewriting, ~is_check, is_check' = is_check,
           at' \in {"read", "write", "flush", "truncate", "close"},
           trimmed' = trimmed, name' = name,
           last_line_is_empty' = last_line_is_empty,
           DOMAIN files' = DOMAIN files,
           \A f \in DOMAIN files : f # name => files'[f] = files[f]
    PROVE  AnswerInv'
<1>1. name \notin trimmed /\ trimmed \subseteq DOMAIN files
  BY DEF AnswerInv, TrimmedInv
<1>2. \A f \in trimmed : files'[f] = files[f]
  BY <1>1
<1>3. TrimmedInv'
  <2>1. \A f \in trimmed : \E x \in Seq(Chars) : files'[f] = Trimmed(x)
    BY <1>2 DEF AnswerInv, TrimmedInv
  <2>2. QED
    BY <1>1, <2>1 DEF TrimmedInv
<1>4. CheckInv'
  BY DEF AnswerInv, CheckInv
<1>5. QED
  BY <1>3, <1>4 DEF AnswerInv

\* A write changes the file that is open and no other.
LEMMA WrittenOut ==
    ASSUME NEW n, WriteOut(n)
    PROVE  /\ DOMAIN files' = DOMAIN files
           /\ \A f \in DOMAIN files : f # name => files'[f] = files[f]
BY DEF WriteOut

\* Reading and writing keep what was trimmed before.
LEMMA RewriteAnswer ==
    ASSUME TextInv, AnswerInv,
           ReadLine \/ EndRead \/ WriteLine \/ Drain \/ ShortWrite
             \/ EndWrite \/ Flush \/ Truncate
    PROVE  AnswerInv'
<1>1. /\ at \in {"read", "write", "flush", "truncate", "close"}
      /\ at' \in {"read", "write", "flush", "truncate", "close"}
      /\ paths' = paths /\ i' = i /\ is_check' = is_check
      /\ trimmed' = trimmed /\ last_line_is_empty' = last_line_is_empty
  BY DEF ReadLine, EndRead, WriteLine, Drain, ShortWrite, EndWrite, Flush,
         Truncate, arg_vars, file_vars
<1>2. name' = name
  BY <1>1, NameStays
<1>3. ~is_check
  <2>1. CASE at = "close"
    <3>1. Drain
      BY <2>1 DEF ReadLine, EndRead, WriteLine, ShortWrite, EndWrite, Flush,
                  Truncate
    <3>2. PICK n \in 1..Len(out) : TRUE
      BY <3>1 DEF Drain
    <3>3. out # <<>>
      <4>1. Len(<<>>) = 0 /\ 1..0 = {}
        OBVIOUS
      <4>2. QED
        BY <3>2, <4>1
    <3>4. QED
      BY <2>1, <3>3 DEF AnswerInv, CheckInv
  <2>2. CASE at # "close"
    BY <1>1, <2>2 DEF TextInv, ModeInv
  <2>3. QED
    BY <2>1, <2>2
<1>4. Rewriting
  BY <1>1, <1>3 DEF Rewriting
<1>5. /\ DOMAIN files' = DOMAIN files
      /\ \A f \in DOMAIN files : f # name => files'[f] = files[f]
  <2>1. CASE files' = files
    BY <2>1
  <2>2. CASE \E n : WriteOut(n)
    BY <2>2, WrittenOut
  <2>3. CASE files' = [files EXCEPT ![name] = Cut(@, ftell)]
    BY <2>3
  <2>4. files' = files \/ (\E n : WriteOut(n))
        \/ files' = [files EXCEPT ![name] = Cut(@, ftell)]
    BY DEF ReadLine, EndRead, WriteLine, Drain, ShortWrite, EndWrite, Flush,
           Truncate, file_vars
  <2>5. QED
    BY <2>1, <2>2, <2>3, <2>4
<1>6. QED
  BY <1>1, <1>2, <1>3, <1>4, <1>5, RewritingAnswer

\* A file that is written without a failure is trimmed.
LEMMA CloseAnswer ==
    ASSUME TypeInv, TextInv, AnswerInv, Close PROVE AnswerInv'
<1>1. /\ at = "close" /\ at' \in {"open", "exit"} /\ files' = files
      /\ last_line_is_empty' = FALSE
      /\ trimmed' = IF err = "OK" /\ ~is_check /\ ignored = {}
                    THEN trimmed \cup {name} ELSE trimmed
  BY DEF Close, Release
<1>2. name \in DOMAIN files /\ before \in Seq(Chars)
  BY <1>1, NameIs DEF TypeInv, Processing, FilesInv
<1>3. err = "OK" /\ ~is_check /\ ignored = {} => files[name] = Trimmed(before)
  BY <1>1 DEF TextInv, ClosingInv
<1>4. TrimmedInv'
  <2>1. /\ trimmed \subseteq DOMAIN files
        /\ \A f \in trimmed : \E x \in Seq(Chars) : files[f] = Trimmed(x)
    BY DEF AnswerInv, TrimmedInv
  <2>2. /\ trimmed' \subseteq DOMAIN files
        /\ \A f \in trimmed' : \E x \in Seq(Chars) : files[f] = Trimmed(x)
    BY <1>1, <1>2, <1>3, <2>1
  <2>3. QED
    BY <1>1, <2>2 DEF TrimmedInv, Rewriting
<1>5. CheckInv'
  BY <1>1 DEF CheckInv
<1>6. QED
  BY <1>4, <1>5 DEF AnswerInv

LEMMA StutterAnswer == ASSUME AnswerInv, UNCHANGED vars PROVE AnswerInv'
<1>1. /\ files' = files /\ before' = before /\ ignored' = ignored
      /\ rd' = rd /\ out' = out /\ trimmed' = trimmed
      /\ is_check' = is_check /\ paths' = paths /\ i' = i /\ at' = at /\ err' = err
      /\ last_line_is_empty' = last_line_is_empty
  BY DEF vars, file_vars, line_vars, stream_vars, arg_vars
<1>2. name' = name
  BY <1>1, NameStays
<1>3. QED
  BY <1>1, <1>2 DEF AnswerInv, CheckInv, TrimmedInv, Rewriting, Looked

\* So every step keeps it.
LEMMA StepAnswer ==
    ASSUME TypeInv, TextInv, AnswerInv, [Next]_vars PROVE AnswerInv'
BY ClosedAnswer, OpenAnswer, CheckLineAnswer, EndCheckAnswer, RewriteAnswer,
   CloseAnswer, StutterAnswer DEF Next

\* CheckAgrees follows.
LEMMA Answered ==
    ASSUME TypeInv, AnswerInv
    PROVE  CheckAgrees
<1>1. SUFFICES ASSUME at = "close", is_check, ignored = {}
               PROVE  /\ name \in trimmed => ~(err = "ERR")
                      /\ EndsInNewline(files[name]) /\ err = "ERR"
                            => Trimmed(files[name]) # files[name]
                      /\ EndsInNewline(files[name]) /\ ~(err = "ERR")
                            /\ ~HasTab(files[name])
                            => Trimmed(files[name]) = files[name]
  BY DEF CheckAgrees
<1>2. files[name] \in Seq(Chars)
  BY <1>1, NameIs DEF TypeInv, Processing
<1>3. EndsInNewline(files[name]) => (err = "ERR" <=> ~Clean(files[name]))
  BY <1>1 DEF AnswerInv, CheckInv
<1>4. ASSUME NEW x \in Seq(Chars), files[name] = Trimmed(x)
      PROVE  ~(err = "ERR")
  <2>1. EndsInNewline(Trimmed(x)) /\ Clean(Trimmed(x))
    BY TrimmedIsClean
  <2>2. QED
    BY <1>3, <1>4, <2>1
<1>5. name \in trimmed => ~(err = "ERR")
  BY <1>4 DEF AnswerInv, TrimmedInv
<1>6. EndsInNewline(files[name]) /\ err = "ERR"
         => Trimmed(files[name]) # files[name]
  BY <1>2, <1>4
<1>7. EndsInNewline(files[name]) /\ ~(err = "ERR") /\ ~HasTab(files[name])
         => Trimmed(files[name]) = files[name]
  BY <1>2, <1>3, CleanIsTrimmed
<1>8. QED
  BY <1>5, <1>6, <1>7

\* CheckAgrees: check_file complains of no file that was trimmed before; of one
\* that ends in a newline its complaint means that trimming changes it, and
\* without tabs its silence that it does not.
THEOREM SpacersCheckAgrees == Spec => []CheckAgrees
<1>1. Init => AnswerInv
  BY InitAnswer
<1>2. TypeInv /\ TextInv /\ AnswerInv /\ [Next]_vars => AnswerInv'
  BY StepAnswer
<1>3. TypeInv /\ AnswerInv => CheckAgrees
  BY Answered
<1>4. QED
  BY <1>1, <1>2, <1>3, SpacersTexts, PTL DEF Spec

-----------------------------------------------------------------------------
(* The calls on a string *)

\* A string that spells a text is good for it.
LEMMA GoodIs ==
    ASSUME NEW s, NEW text \in Seq(Chars), Spells(s, text)
    PROVE  Good(s, text)
<1>1. Text(s) = text
  BY TextIs DEF Spells
<1>2. Terminated(s) /\ s.bad = FALSE
  BY DEF Spells, Has
<1>3. QED
  BY <1>1, <1>2 DEF Good

\* A line that got its memory.
Whole(s) == Fine(s) /\ s.value # Null

\* Its text is what it spells.
LEMMA WholeIs ==
    ASSUME NEW s, Whole(s)
    PROVE  /\ Text(s) \in Seq(Chars)
           /\ Len(Text(s)) = s.len
           /\ Spells(s, Text(s))
<1>1. /\ s \in Strs /\ s.len <= Len(s.value) /\ s.len <= s.capacity
      /\ s.bad = FALSE /\ Terminated(s)
  BY DEF Whole, Fine
<1>2. Text(s) \in Seq(Chars) /\ Has(s, Text(s))
  BY <1>1, HasText
<1>3. QED
  BY <1>1, <1>2 DEF Spells, Has

\* Characters stored behind a text that a string has.
LEMMA EndedSpells ==
    ASSUME NEW s \in Strs, NEW text \in Seq(Chars), NEW chars \in Seq(Chars),
           NEW e, Ended(e, s, Len(text), chars),
           \A q \in 1..Len(text) : s.value[q] = text[q],
           Len(text) + Len(chars) <= s.capacity
    PROVE  Spells(e, text \o chars)
<1> DEFINE both == text \o chars
           off == Len(text)
           len == off + Len(chars)
<1>1. off \in Nat /\ Len(chars) \in Nat /\ len \in Nat
  OBVIOUS
<1>2. /\ both \in Seq(Chars) /\ Len(both) = len
      /\ \A q \in 1..len : both[q] =
            IF q <= off THEN text[q] ELSE chars[q - off]
  BY ConcatProperties
<1>3. /\ e \in Strs /\ e.len = len /\ e.capacity = s.capacity /\ e.bad = FALSE
      /\ Terminated(e)
      /\ \A q \in 1..off : e.value[q] = text[q]
      /\ \A q \in 1..Len(chars) : e.value[off + q] = chars[q]
  BY DEF Ended
<1>4. Len(e.value) \in Nat /\ len < Len(e.value)
  BY <1>3 DEF Terminated, Strs
<1> HIDE DEF both
<1>5. ASSUME NEW q \in 1..len PROVE e.value[q] = both[q]
  <2>1. CASE q <= off
    <3>1. q \in 1..off
      BY <1>1, <2>1
    <3>2. QED
      BY <1>2, <1>3, <2>1, <3>1
  <2>2. CASE ~(q <= off)
    <3>1. q - off \in 1..Len(chars) /\ off + (q - off) = q
      BY <1>1, <2>2
    <3>2. QED
      BY <1>2, <1>3, <2>2, <3>1
  <2>3. QED
    BY <2>1, <2>2
<1>6. len <= Len(e.value) /\ len <= e.capacity
  BY <1>1, <1>3, <1>4
<1>7. Spells(e, both)
  <2> HIDE DEF len, off
  <2>1. QED
    BY <1>2, <1>3, <1>5, <1>6 DEF Spells, Has
<1>8. QED
  BY <1>7 DEF both

\* Nothing in front of characters.
LEMMA NoneBefore ==
    ASSUME NEW chars \in Seq(Chars)
    PROVE  <<>> \o chars = chars
OBVIOUS

\* Characters stored from the start of a block with room for them.
LEMMA StartSpells ==
    ASSUME NEW s \in Strs, s.bad = FALSE, NEW chars \in Seq(Chars),
           Len(chars) + 1 <= Len(s.value), Len(chars) <= s.capacity
    PROVE  /\ Spells(Ending(s, 0, chars), chars)
           /\ Ending(s, 0, chars).capacity = s.capacity
           /\ Len(Ending(s, 0, chars).value) = Len(s.value)
<1> DEFINE e == Ending(s, 0, chars)
<1>1. Len(chars) \in Nat /\ <<>> \in Seq(Chars) /\ Len(<<>>) = 0 /\ 1..0 = {}
      /\ 0 + Len(chars) = Len(chars) /\ 0 + Len(chars) + 1 = Len(chars) + 1
  OBVIOUS
<1>2. Ended(e, s, 0, chars)
  BY <1>1, EndingIs
<1>3. e.capacity = s.capacity /\ Len(e.value) = Len(s.value)
  BY <1>2 DEF Ended
<1> HIDE DEF e
<1>4. Spells(e, <<>> \o chars)
  BY <1>1, <1>2, EndedSpells
<1>5. QED
  BY <1>3, <1>4, NoneBefore DEF e

\* Characters in a block of their own.
Fresh(s, chars, capacity) ==
    Ending([s EXCEPT !.value = malloc(Len(chars) + 1), !.capacity = capacity],
           0, chars)

\* They are its text.
LEMMA FreshSpells ==
    ASSUME NEW s \in Strs, s.bad = FALSE, NEW chars \in Seq(Chars),
           NEW capacity \in Nat, Len(chars) <= capacity
    PROVE  /\ Spells(Fresh(s, chars, capacity), chars)
           /\ Fresh(s, chars, capacity).capacity = capacity
           /\ Len(Fresh(s, chars, capacity).value) = Len(chars) + 1
<1> DEFINE block == malloc(Len(chars) + 1)
           r == [s EXCEPT !.value = block, !.capacity = capacity]
<1>1. Len(chars) \in Nat /\ Len(chars) + 1 \in Nat /\ s.len \in Nat
  BY DEF Strs
<1>2. block \in Seq(Chars) /\ Len(block) = Len(chars) + 1
  BY <1>1, CharsAre, MallocIs
<1> HIDE DEF block
<1>3. r = [value |-> block, len |-> s.len, capacity |-> capacity, bad |-> FALSE]
  BY MovedIs
<1> HIDE DEF r
<1>4. r \in Strs /\ r.bad = FALSE /\ r.value = block /\ r.capacity = capacity
  BY <1>1, <1>2, <1>3 DEF Strs
<1>5. Len(chars) + 1 <= Len(r.value) /\ Len(chars) <= r.capacity
  BY <1>1, <1>2, <1>4
<1>6. Fresh(s, chars, capacity) = Ending(r, 0, chars)
  BY DEF Fresh, r, block
<1>7. QED
  BY <1>2, <1>4, <1>5, <1>6, StartSpells

-----------------------------------------------------------------------------
(* Filtering *)

\* Places in front of what is appended.
LEMMA PickedFront ==
    ASSUME NEW S, NEW text \in Seq(S), NEW more \in Seq(S),
           Len(text) <= Len(more),
           \A q \in 1..Len(text) : more[q] = text[q],
           NEW P \in SUBSET (1..Len(text))
    PROVE  Picked(more, P) = Picked(text, P)
<1>1. IsPicked(S, Picked(text, P), text, P)
  BY PickedIs
<1>2. \A p \in P : more[p] = text[p]
  OBVIOUS
<1>3. IsPicked(S, Picked(text, P), more, P)
  BY <1>1, <1>2 DEF IsPicked
<1>4. P \in SUBSET (1..Len(more))
  <2>1. Len(text) \in Nat /\ Len(more) \in Nat
    OBVIOUS
  <2>2. \A p \in 1..Len(text) : p \in 1..Len(more)
    BY <2>1
  <2>3. QED
    BY <2>2
<1>5. QED
  BY <1>3, <1>4, PickedUnique

WithoutGrows(s, x, C) ==
    Without(Append(s, x), C) =
        IF x \notin C THEN Append(Without(s, C), x) ELSE Without(s, C)

\* Without goes through a text from its start.
LEMMA WithoutNext ==
    ASSUME NEW S, NEW s \in Seq(S), NEW x \in S, NEW C
    PROVE  WithoutGrows(s, x, C)
<1> DEFINE t == Append(s, x)
           n == Len(s) + 1
           P == {q \in DOMAIN s : s[q] \notin C}
           Q == {q \in DOMAIN t : t[q] \notin C}
<1>1. /\ Len(s) \in Nat /\ t \in Seq(S) /\ Len(t) = n /\ t[n] = x
      /\ \A q \in 1..Len(s) : t[q] = s[q]
      /\ DOMAIN s = 1..Len(s) /\ DOMAIN t = 1..n
  OBVIOUS
<1>2. Without(t, C) = Picked(t, Q) /\ Without(s, C) = Picked(s, P)
  BY DEF Without
<1> HIDE DEF t
<1>3. P \in SUBSET (1..Len(s))
  BY <1>1
<1>4. Picked(t, P) = Picked(s, P)
  BY <1>1, <1>3, PickedFront
<1>5. \A q \in 1..n : q \in Q <=> (q \in P \/ (q = n /\ x \notin C))
  <2>1. \A q \in 1..n : q = n \/ q \in 1..Len(s)
    BY <1>1
  <2>2. n \notin P
    BY <1>1
  <2>3. QED
    BY <1>1, <2>1, <2>2
<1>6. n \in 1..Len(t) /\ (\A p \in P : p < n) /\ P \in SUBSET (1..Len(t))
      /\ P \in SUBSET (1..n)
  BY <1>1
<1>7. Q \in SUBSET (1..n)
  BY <1>1
<1> HIDE DEF P, Q, n
<1>8. CASE x \notin C
  <2>1. Q = P \cup {n}
    BY <1>1, <1>5, <1>6, <1>7, <1>8
  <2>2. Picked(t, P \cup {n}) = Append(Picked(t, P), t[n])
    BY <1>1, <1>6, PickedNext
  <2>3. QED
    BY <1>1, <1>2, <1>4, <1>8, <2>1, <2>2 DEF WithoutGrows, t
<1>9. CASE x \in C
  <2>1. Q = P
    BY <1>5, <1>6, <1>7, <1>9
  <2>2. QED
    BY <1>2, <1>4, <1>9, <2>1 DEF WithoutGrows, t
<1>10. QED
  BY <1>8, <1>9

\* It leaves no more than there was.
LEMMA WithoutIs ==
    ASSUME NEW S, NEW text \in Seq(S), NEW C
    PROVE  Without(text, C) \in Seq(S) /\ Len(Without(text, C)) <= Len(text)
<1> DEFINE P == {q \in DOMAIN text : text[q] \notin C}
<1>1. Len(text) \in Nat /\ P \in SUBSET (1..Len(text))
  OBVIOUS
<1>2. IsPicked(S, Without(text, C), text, P)
  BY PickedIs DEF Without
<1>3. Cardinality(P) <= Len(text)
  <2> HIDE DEF P
  <2>1. IsFiniteSet(1..Len(text)) /\ Cardinality(1..Len(text)) = Len(text)
    <3>1. IsFiniteSet(1..Len(text))
      BY <1>1, FS_Interval
    <3>2. Cardinality(1..Len(text)) = IF 1 > Len(text) THEN 0 ELSE Len(text) - 1 + 1
      BY <1>1, FS_Interval
    <3>3. QED
      BY <1>1, <3>1, <3>2
  <2>2. Cardinality(P) <= Cardinality(1..Len(text))
    BY <1>1, <2>1, FS_Subset
  <2>3. QED
    BY <2>1, <2>2
<1>4. QED
  BY <1>2, <1>3 DEF IsPicked

\* And nothing of nothing.
LEMMA WithoutNone ==
    ASSUME NEW C
    PROVE  Without(<<>>, C) = <<>>
<1>1. <<>> \in Seq({}) /\ {q \in DOMAIN <<>> : <<>>[q] \notin C} = {}
  OBVIOUS
<1>2. QED
  BY <1>1, PickedNone DEF Without

\* The first n of a text.
LEMMA FrontNext ==
    ASSUME NEW S, NEW text \in Seq(S), NEW n \in 1..Len(text)
    PROVE  /\ SubSeq(text, 1, n - 1) \in Seq(S)
           /\ text[n] \in S
           /\ SubSeq(text, 1, n) = Append(SubSeq(text, 1, n - 1), text[n])
<1> DEFINE a == SubSeq(text, 1, n - 1)
           b == SubSeq(text, 1, n)
           c == Append(a, text[n])
<1>1. Len(text) \in Nat /\ n \in Nat /\ n - 1 \in Nat /\ text[n] \in S
  OBVIOUS
<1>2. a \in Seq(S) /\ Len(a) = n - 1 /\ \A q \in 1..(n - 1) : a[q] = text[q]
  <2>1. \A q \in 1..(n - 1) : text[q] \in S
    BY <1>1
  <2>2. a \in Seq(S)
    BY <1>1, <2>1, SubSeqProperties
  <2>3. QED
    BY <1>1, <2>2
<1>3. b \in Seq(S) /\ Len(b) = n /\ \A q \in 1..n : b[q] = text[q]
  <2>1. \A q \in 1..n : text[q] \in S
    BY <1>1
  <2>2. b \in Seq(S)
    BY <1>1, <2>1, SubSeqProperties
  <2>3. QED
    BY <1>1, <2>2
<1> HIDE DEF a, b
<1>4. c \in Seq(S) /\ Len(c) = n /\ \A q \in 1..n : c[q] = text[q]
  <2>1. c \in Seq(S) /\ Len(c) = n
    BY <1>1, <1>2
  <2>2. ASSUME NEW q \in 1..n PROVE c[q] = text[q]
    <3>1. CASE q = n
      BY <1>1, <1>2, <3>1
    <3>2. CASE q # n
      <4>1. q \in 1..(n - 1)
        BY <3>2
      <4>2. QED
        BY <1>1, <1>2, <4>1
    <3>3. QED
      BY <3>1, <3>2
  <2>3. QED
    BY <2>1, <2>2
<1> HIDE DEF c
<1>5. b = c
  BY <1>3, <1>4, SeqEqual
<1>6. QED
  BY <1>1, <1>2, <1>5 DEF a, b, c

\* The front of no length, and of all.
LEMMA FrontAll ==
    ASSUME NEW S, NEW text \in Seq(S)
    PROVE  SubSeq(text, 1, 0) = <<>> /\ SubSeq(text, 1, Len(text)) = text
OBVIOUS

\* What a second filter takes after the first, one takes for both.
LEMMA WithoutTwice ==
    ASSUME NEW S, NEW text \in Seq(S), NEW C, NEW D
    PROVE  Without(Without(text, C), D) = Without(text, C \cup D)
<1> DEFINE front(n) == SubSeq(text, 1, n)
           T == {n \in 0..Len(text) : Without(Without(front(n), C), D)
                                         = Without(front(n), C \cup D)}
<1>1. Len(text) \in Nat
  OBVIOUS
<1>2. front(0) = <<>> /\ front(Len(text)) = text
  BY FrontAll
<1>3. 0 \in T
  <2> HIDE DEF front
  <2>1. Without(<<>>, C) = <<>> /\ Without(<<>>, D) = <<>>
        /\ Without(<<>>, C \cup D) = <<>>
    BY WithoutNone
  <2>2. QED
    BY <1>1, <1>2, <2>1
<1>4. ASSUME NEW n \in 1..Len(text), n - 1 \in T PROVE n \in T
  <2> DEFINE a == front(n - 1)
             x == text[n]
  <2>1. a \in Seq(S) /\ x \in S /\ front(n) = Append(a, x)
    BY FrontNext
  <2>2. Without(Without(a, C), D) = Without(a, C \cup D)
    BY <1>4
  <2>3. n \in 0..Len(text)
    BY <1>1
  <2> HIDE DEF a, x, front
  <2>4. Without(a, C) \in Seq(S)
    BY <2>1, WithoutIs
  <2>5. /\ WithoutGrows(a, x, C) /\ WithoutGrows(a, x, C \cup D)
        /\ WithoutGrows(Without(a, C), x, D)
    BY <2>1, <2>4, WithoutNext
  <2>6. Without(Without(Append(a, x), C), D) = Without(Append(a, x), C \cup D)
    <3>1. CASE x \in C
      <4>1. Without(Append(a, x), C) = Without(a, C)
        BY <2>5, <3>1 DEF WithoutGrows
      <4>2. Without(Append(a, x), C \cup D) = Without(a, C \cup D)
        BY <2>5, <3>1 DEF WithoutGrows
      <4>3. QED
        BY <2>2, <4>1, <4>2
    <3>2. CASE x \notin C /\ x \in D
      <4>1. Without(Append(a, x), C) = Append(Without(a, C), x)
        BY <2>5, <3>2 DEF WithoutGrows
      <4>2. Without(Append(a, x), C \cup D) = Without(a, C \cup D)
        BY <2>5, <3>2 DEF WithoutGrows
      <4>3. Without(Append(Without(a, C), x), D) = Without(Without(a, C), D)
        BY <2>5, <3>2 DEF WithoutGrows
      <4>4. QED
        BY <2>2, <4>1, <4>2, <4>3
    <3>3. CASE x \notin C /\ x \notin D
      <4>1. Without(Append(a, x), C) = Append(Without(a, C), x)
        BY <2>5, <3>3 DEF WithoutGrows
      <4>2. Without(Append(a, x), C \cup D) = Append(Without(a, C \cup D), x)
        BY <2>5, <3>3 DEF WithoutGrows
      <4>3. Without(Append(Without(a, C), x), D)
               = Append(Without(Without(a, C), D), x)
        BY <2>5, <3>3 DEF WithoutGrows
      <4>4. QED
        BY <2>2, <4>1, <4>2, <4>3
    <3>4. QED
      BY <3>1, <3>2, <3>3
  <2>7. QED
    BY <2>1, <2>3, <2>6
<1> HIDE DEF T
<1>5. Len(text) \in T
  <2>1. \A n \in 0..Len(text) : n \in T
    BY <1>1, <1>3, <1>4, EveryTurn
  <2>2. QED
    BY <1>1, <2>1
<1>6. QED
  BY <1>2, <1>5 DEF T

\* The loop of mrs_filter.
LEMMA KeptIs ==
    ASSUME NEW s, NEW text \in Seq(Chars), Has(s, text), NEW c
    PROVE  Kept(s, c) = Without(text, {c})
<1> DEFINE m == s.len
           Turn(n, r) == IF s.value[n] # c THEN Append(r, s.value[n]) ELSE r
           F == [n \in 1..m |-> [r \in Seq(Chars) |-> Turn(n, r)]]
           Is(f) == f = [n \in 0..s.len |->
                      IF n = 0 THEN <<>>
                      ELSE IF s.value[n] # c
                           THEN Append(f[n - 1], s.value[n])
                           ELSE f[n - 1]]
           kept == CHOOSE f : Is(f)
<1>1. /\ m \in Nat /\ m = Len(text)
      /\ \A n \in 1..m : s.value[n] = text[n] /\ s.value[n] \in Chars
  BY DEF Has, Strs
<1>2. F \in [1..m -> [Seq(Chars) -> Seq(Chars)]]
  <2>1. ASSUME NEW n \in 1..m, NEW r \in Seq(Chars) PROVE Turn(n, r) \in Seq(Chars)
    <3>1. Append(r, s.value[n]) \in Seq(Chars)
      BY <1>1
    <3>2. QED
      BY <3>1
  <2> HIDE DEF Turn
  <2>2. QED
    BY <2>1
<1>3. PICK g : AreTurns(g, Seq(Chars), F, <<>>, m)
  <2>1. <<>> \in Seq(Chars)
    OBVIOUS
  <2> HIDE DEF F, m
  <2>2. QED
    BY <1>1, <1>2, <2>1, TurnsExist
<1>4. Is(g)
  <2>1. ASSUME NEW n \in 0..m, n # 0
        PROVE  g[n] = Turn(n, g[n - 1])
    <3>1. n - 1 \in 0..m /\ n \in 1..m
      BY <1>1, <2>1
    <3>2. g[n - 1] \in Seq(Chars) /\ g[n] = F[n][g[n - 1]]
      BY <1>3, <3>1 DEF AreTurns
    <3> HIDE DEF Turn
    <3>3. QED
      BY <3>1, <3>2
  <2> HIDE DEF Turn
  <2>2. g = [n \in 0..m |-> IF n = 0 THEN <<>> ELSE Turn(n, g[n - 1])]
    BY <1>3, <2>1 DEF AreTurns
  <2>3. QED
    BY <2>2 DEF Turn
<1>5. Is(kept)
  BY <1>4
<1>6. Kept(s, c) = kept[m]
  BY DEF Kept
<1> HIDE DEF kept
<1>7. kept = [n \in 0..m |-> IF n = 0 THEN <<>> ELSE Turn(n, kept[n - 1])]
  BY <1>5
<1> HIDE DEF Turn, m
<1>8. \A n \in 0..m : kept[n] = IF n = 0 THEN <<>> ELSE Turn(n, kept[n - 1])
  BY <1>7, Zenon
<1> DEFINE front(n) == SubSeq(text, 1, n)
           T == {n \in 0..m : kept[n] = Without(front(n), {c})}
<1>9. front(0) = <<>> /\ front(m) = text
  BY <1>1, FrontAll
<1>10. 0 \in T
  <2> HIDE DEF front
  <2>1. 0 \in 0..m
    BY <1>1
  <2>2. kept[0] = <<>>
    BY <1>8, <2>1
  <2>3. QED
    BY <1>9, <2>1, <2>2, WithoutNone
<1>11. ASSUME NEW n \in 1..m, n - 1 \in T PROVE n \in T
  <2> DEFINE a == front(n - 1)
             x == text[n]
  <2>1. a \in Seq(Chars) /\ x \in Chars /\ front(n) = Append(a, x)
    BY <1>1, FrontNext
  <2>2. kept[n - 1] = Without(a, {c})
    BY <1>11
  <2>3. n \in 0..m /\ n # 0 /\ s.value[n] = x
    BY <1>1
  <2> HIDE DEF a, front, x
  <2>4. kept[n] = Turn(n, Without(a, {c}))
    BY <1>8, <2>2, <2>3
  <2>5. WithoutGrows(a, x, {c})
    BY <2>1, WithoutNext
  <2>6. kept[n] = Without(Append(a, x), {c})
    BY <2>3, <2>4, <2>5 DEF WithoutGrows, Turn
  <2>7. QED
    BY <2>1, <2>3, <2>6
<1> HIDE DEF T
<1>12. m \in T
  <2>1. \A n \in 0..m : n \in T
    BY <1>1, <1>10, <1>11, EveryTurn
  <2>2. QED
    BY <1>1, <2>1
<1>13. QED
  BY <1>6, <1>9, <1>12 DEF T

\* mrs_filter leaves the characters that are not taken out.
LEMMA FilterIs ==
    ASSUME NEW s, NEW text \in Seq(Chars), Spells(s, text), NEW c
    PROVE  Spells(mrs_filter(s, c), Without(text, {c}))
<1> DEFINE kept == Without(text, {c})
<1>1. /\ s \in Strs /\ s.len = Len(text) /\ s.len <= s.capacity /\ s.bad = FALSE
      /\ s.len < Len(s.value) /\ Has(s, text)
  BY DEF Spells, Has, Terminated
<1>2. /\ kept \in Seq(Chars) /\ Len(kept) <= Len(text) /\ Len(kept) \in Nat
  BY WithoutIs
<1>3. Kept(s, c) = kept
  BY <1>1, KeptIs
<1> HIDE DEF kept
<1>4. /\ ~(Len(kept) > s.capacity) /\ ~(Len(kept) > Len(kept))
      /\ Len(kept) + 1 <= Len(s.value) /\ Len(kept) <= s.capacity
  BY <1>1, <1>2 DEF Strs
<1>5. SubSeq(kept, 1, Len(kept)) = kept
  BY <1>2, FrontAll
<1>6. mrs_filter(s, c) = Ending(s, 0, kept)
  BY <1>3, <1>4, <1>5 DEF mrs_filter, mrs_setstrn
<1>7. Spells(Ending(s, 0, kept), kept)
  BY <1>1, <1>2, <1>4, StartSpells
<1>8. QED
  BY <1>6, <1>7 DEF kept

\* CallsAgree, call by call.
PushAgrees(s, t) ==
    Good(mrs_pushstr(s, Text(t), TRUE), Text(s) \o Text(t))

SpacesAgree(s) ==
    Good(mrs_remove_whitespace(s), Without(Text(s), {Newline, Tab, Space}))

CharAgrees(s, c) ==
    LET text == Text(s)
        first == mrs_strchr(s, c)
    IN  /\ Good(mrs_filter(s, c), Without(text, {c}))
        /\ IF c \in {text[n] : n \in DOMAIN text}
           THEN /\ mrs_get_char(s, first) = c
                /\ mrs_get_idx(s, first) = first
                /\ c \notin {text[n] : n \in 1..first}
           ELSE first = s.len

DupAgrees(s, n) ==
    LET dup == mrs_strndup(s, n, Failed, TRUE)
    IN  /\ Good(dup, SubSeq(Text(s), 1, n))
        /\ mrs_strcmp(dup, s) <=> n = s.len

ShrinkAgrees(s) ==
    /\ Good(mrs_shrink_to_fit(s), Text(s))
    /\ Sized(mrs_shrink_to_fit(s)) \/ s.capacity = s.len

SpaceAgrees(s, n) ==
    (mrs_is_whitespace(s, n) = "OK")
        <=> (n < s.len /\ isspace(Text(s)[n + 1]))

Occurs(s, t, n) ==
    /\ n + t.len <= s.len
    /\ SubSeq(Text(s), n + 1, n + t.len) = Text(t)

FindAgrees(s, t, start) ==
    LET n == mrs_strstr(s, t, start)
    IN  IF n = s.len
        THEN t.len > 0 => \A j \in start..s.len : ~Occurs(s, t, j)
        ELSE Occurs(s, t, n) /\ \A j \in start..(n - 1) : ~Occurs(s, t, j)

\* What is used of a line with its memory.
LEMMA WholeHas ==
    ASSUME NEW s, Whole(s)
    PROVE  /\ s \in Strs /\ s.len \in Nat /\ s.capacity \in Nat
           /\ s.value \in Seq(Chars) /\ Len(s.value) \in Nat
           /\ s.len <= s.capacity /\ s.len < Len(s.value) /\ s.bad = FALSE
           /\ Terminated(s)
           /\ Text(s) \in Seq(Chars) /\ Len(Text(s)) = s.len
           /\ \A n \in 1..s.len : Text(s)[n] = s.value[n]
           /\ Has(s, Text(s)) /\ Spells(s, Text(s))
<1>1. /\ Text(s) \in Seq(Chars) /\ Len(Text(s)) = s.len /\ Spells(s, Text(s))
  BY WholeIs
<1>2. Has(s, Text(s)) /\ Terminated(s)
  BY <1>1 DEF Spells
<1>3. /\ s \in Strs /\ s.len <= s.capacity /\ s.bad = FALSE
      /\ s.len < Len(s.value)
  BY <1>2 DEF Has, Terminated
<1>4. s.len \in Nat /\ s.capacity \in Nat /\ s.value \in Seq(Chars)
  BY <1>3 DEF Strs
<1>5. \A n \in 1..s.len : Text(s)[n] = s.value[n]
  BY <1>1, <1>2 DEF Has
<1>6. QED
  BY <1>1, <1>2, <1>3, <1>4, <1>5

\* mrs_pushstr of the text of another.
LEMMA PushedAgrees ==
    ASSUME NEW s, Whole(s), NEW t, Whole(t)
    PROVE  PushAgrees(s, t)
<1>1. Has(s, Text(s)) /\ Text(s) \in Seq(Chars) /\ Text(t) \in Seq(Chars)
  BY WholeHas
<1>2. Spells(mrs_pushstr(s, Text(t), TRUE), Text(s) \o Text(t))
  BY <1>1, PushIs
<1>3. Text(s) \o Text(t) \in Seq(Chars)
  BY <1>1
<1>4. QED
  BY <1>2, <1>3, GoodIs DEF PushAgrees

\* mrs_remove_whitespace, three filters of which each takes one space out.
LEMMA SpacesOutAgree ==
    ASSUME NEW s, Whole(s)
    PROVE  SpacesAgree(s)
<1> DEFINE text == Text(s)
           a == Without(text, {Space})
           b == Without(a, {Newline})
           c == Without(b, {Tab})
<1>1. text \in Seq(Chars) /\ Spells(s, text)
  BY WholeHas
<1> HIDE DEF text
<1>2. a \in Seq(Chars) /\ Spells(mrs_filter(s, Space), a)
  BY <1>1, WithoutIs, FilterIs
<1> HIDE DEF a
<1>3. b \in Seq(Chars) /\ Spells(mrs_filter(mrs_filter(s, Space), Newline), b)
  BY <1>2, WithoutIs, FilterIs
<1> HIDE DEF b
<1>4. c \in Seq(Chars) /\ Spells(mrs_remove_whitespace(s), c)
  BY <1>3, WithoutIs, FilterIs DEF mrs_remove_whitespace
<1> HIDE DEF c
<1>5. c = Without(text, {Newline, Tab, Space})
  <2>1. b = Without(text, {Space} \cup {Newline})
    BY <1>1, WithoutTwice DEF a, b
  <2>2. c = Without(text, ({Space} \cup {Newline}) \cup {Tab})
    BY <1>1, <2>1, WithoutTwice DEF c
  <2>3. ({Space} \cup {Newline}) \cup {Tab} = {Newline, Tab, Space}
    OBVIOUS
  <2>4. QED
    BY <2>2, <2>3
<1>6. Good(mrs_remove_whitespace(s), c)
  BY <1>4, GoodIs
<1>7. QED
  BY <1>5, <1>6 DEF SpacesAgree, text

\* The least of the places that are found.
LEMMA FirstIs ==
    ASSUME NEW found \in SUBSET Nat, found # {}
    PROVE  LET first == CHOOSE n \in found : \A j \in found : n <= j
           IN  first \in found /\ \A j \in found : first <= j
<1>1. \E n \in found : \A j \in found : n <= j
  BY LeastNatural
<1>2. QED
  BY <1>1

\* mrs_filter, mrs_strchr and what leads back from its pointer.
LEMMA CharsAgree ==
    ASSUME NEW s, Whole(s), NEW c
    PROVE  CharAgrees(s, c)
<1> DEFINE text == Text(s)
           first == mrs_strchr(s, c)
           found == {n \in 0..(s.len - 1) : s.value[n + 1] = c}
           least == CHOOSE n \in found : \A j \in found : n <= j
<1>1. /\ text \in Seq(Chars) /\ Spells(s, text) /\ s.len \in Nat
      /\ Len(text) = s.len /\ \A n \in 1..s.len : text[n] = s.value[n]
  BY WholeHas
<1>7. DOMAIN text = 1..s.len
  BY <1>1
<1>2. Good(mrs_filter(s, c), Without(text, {c}))
  <2>1. Without(text, {c}) \in Seq(Chars)
    BY <1>1, WithoutIs
  <2>2. Spells(mrs_filter(s, c), Without(text, {c}))
    BY <1>1, FilterIs
  <2>3. QED
    BY <2>1, <2>2, GoodIs
<1>3. first = IF found = {} THEN s.len ELSE least
  BY DEF mrs_strchr
<1> HIDE DEF first, text
<1>4. c \in {text[n] : n \in DOMAIN text} <=> found # {}
  <2>1. ASSUME NEW n \in 1..s.len, text[n] = c PROVE n - 1 \in found
    BY <1>1, <2>1
  <2>2. ASSUME NEW n \in found PROVE n + 1 \in 1..s.len /\ text[n + 1] = c
    BY <1>1
  <2>3. QED
    BY <1>1, <1>7, <2>1, <2>2
<1>5. ASSUME found # {}
      PROVE  /\ mrs_get_char(s, first) = c
             /\ mrs_get_idx(s, first) = first
             /\ c \notin {text[n] : n \in 1..first}
  <2>1. found \in SUBSET Nat
    BY <1>1
  <2>2. least \in found /\ \A j \in found : least <= j
    BY <1>5, <2>1, FirstIs
  <2> HIDE DEF least
  <2>3. first \in found /\ \A j \in found : first <= j
    BY <1>3, <1>5, <2>2
  <2>4. /\ first \in Nat /\ first < s.len /\ s.value[first + 1] = c
    BY <1>1, <2>3
  <2>5. ASSUME NEW n \in 1..first, text[n] = c PROVE FALSE
    <3>1. n - 1 \in 0..(s.len - 1) /\ (n - 1) + 1 = n /\ n \in 1..s.len
          /\ ~(first <= n - 1)
      BY <1>1, <2>4
    <3>2. n - 1 \in found
      BY <1>1, <2>5, <3>1
    <3>3. QED
      BY <2>3, <3>1, <3>2
  <2>6. mrs_get_char(s, first) = c /\ mrs_get_idx(s, first) = first
    BY <1>1, <2>4 DEF mrs_get_char, mrs_get_idx
  <2>7. QED
    BY <2>5, <2>6
<1> HIDE DEF found, least
<1>6. IF c \in {text[n] : n \in DOMAIN text}
      THEN /\ mrs_get_char(s, first) = c
           /\ mrs_get_idx(s, first) = first
           /\ c \notin {text[n] : n \in 1..first}
      ELSE first = s.len
  BY <1>3, <1>4, <1>5
<1>8. QED
  BY <1>2, <1>6 DEF CharAgrees, text, first

\* The first n characters.
LEMMA FrontIs ==
    ASSUME NEW text \in Seq(Chars), NEW n \in 0..Len(text)
    PROVE  /\ SubSeq(text, 1, n) \in Seq(Chars) /\ Len(SubSeq(text, 1, n)) = n
           /\ \A q \in 1..n : SubSeq(text, 1, n)[q] = text[q]
<1>1. \A q \in 1..n : text[q] \in Chars
  OBVIOUS
<1>2. SubSeq(text, 1, n) \in Seq(Chars)
  BY <1>1, SubSeqProperties
<1>3. QED
  BY <1>2

\* mrs_strndup and mrs_strcmp.
LEMMA DupsAgree ==
    ASSUME NEW s, Whole(s), NEW n \in 0..s.len
    PROVE  DupAgrees(s, n)
<1> DEFINE text == Text(s)
           prefix == SubSeq(text, 1, n)
           chars == SubSeq(s.value, 1, n)
           dup == mrs_strndup(s, n, Failed, TRUE)
<1>0. /\ s \in Strs /\ s.len \in Nat /\ s.capacity \in Nat
      /\ s.len <= s.capacity /\ s.bad = FALSE
      /\ s.value \in Seq(Chars) /\ s.len < Len(s.value)
      /\ text \in Seq(Chars) /\ Len(text) = s.len
      /\ \A q \in 1..s.len : text[q] = s.value[q]
  BY WholeHas
<1>1. n \in Nat /\ n <= s.len
  BY <1>0
<1>2. /\ prefix \in Seq(Chars) /\ Len(prefix) = n
      /\ \A q \in 1..n : prefix[q] = text[q]
  BY <1>0, <1>1, FrontIs
<1>3. /\ chars \in Seq(Chars) /\ Len(chars) = n
      /\ \A q \in 1..n : chars[q] = s.value[q]
  <2>1. n \in 0..Len(s.value)
    BY <1>0, <1>1
  <2>2. QED
    BY <1>0, <1>1, <2>1, FrontIs
<1> HIDE DEF text
<1>4. chars = prefix
  <2>1. \A q \in 1..n : q \in 1..s.len
    BY <1>0, <1>1
  <2>2. \A q \in 1..n : chars[q] = prefix[q]
    BY <1>0, <1>1, <1>2, <1>3, <2>1
  <2> HIDE DEF chars, prefix
  <2>3. QED
    BY <1>2, <1>3, <2>2, SeqEqual
<1>5. dup = Fresh(s, prefix, s.capacity)
  <2>1. dup = Ending([s EXCEPT !.value = malloc(n + 1)], 0, chars)
    BY <1>0, <1>1 DEF mrs_strndup
  <2>2. [s EXCEPT !.value = malloc(n + 1)]
           = [s EXCEPT !.value = malloc(n + 1), !.capacity = s.capacity]
    BY <1>0, <1>1 DEF Strs
  <2> HIDE DEF chars, prefix
  <2>3. QED
    BY <1>2, <1>4, <2>1, <2>2 DEF Fresh
<1> HIDE DEF prefix, dup, chars
<1>6. Spells(dup, prefix)
  <2>1. Len(prefix) <= s.capacity
    BY <1>0, <1>1, <1>2
  <2>2. QED
    BY <1>0, <1>1, <1>2, <1>5, <2>1, FreshSpells
<1>7. Good(dup, prefix)
  BY <1>2, <1>6, GoodIs
<1>8. mrs_strcmp(dup, s) <=> n = s.len
  <2>1. dup.len = n /\ Text(dup) = prefix
    BY <1>2, <1>6, TextIs DEF Spells, Has
  <2>2. n = s.len => prefix = text
    BY <1>0, <1>1, FrontAll DEF prefix
  <2>3. QED
    BY <2>1, <2>2 DEF mrs_strcmp, text
<1>9. QED
  BY <1>7, <1>8 DEF DupAgrees, dup, prefix, text

\* mrs_copy.
LEMMA CopiedAgrees ==
    ASSUME NEW s, Whole(s)
    PROVE  Good(mrs_copy(Failed, s, TRUE), Text(s))
<1> DEFINE text == Text(s)
           room == malloc(s.capacity + 1)
           cells == SubSeq(s.value, 1, s.len + 1)
           block == Stored(room, 0, cells)
           e == mrs_copy(Failed, s, TRUE)
<1>1. /\ s \in Strs /\ s.len \in Nat /\ s.capacity \in Nat /\ s.bad = FALSE
      /\ s.value \in Seq(Chars) /\ s.len <= s.capacity
      /\ text \in Seq(Chars) /\ Len(text) = s.len /\ Terminated(s)
      /\ \A q \in 1..s.len : text[q] = s.value[q]
  BY WholeHas
<1>2. s.len + 1 <= Len(s.value) /\ s.capacity + 1 \in Nat
  BY <1>1 DEF Terminated
<1>3. room \in Seq(Chars) /\ Len(room) = s.capacity + 1
  BY <1>2, CharsAre, MallocIs
<1>4. /\ cells \in Seq(Chars) /\ Len(cells) = s.len + 1
      /\ \A q \in 1..(s.len + 1) : cells[q] = s.value[q]
  <2>1. s.len + 1 \in 0..Len(s.value)
    BY <1>1, <1>2
  <2>2. QED
    BY <1>1, <2>1, FrontIs
<1>5. e = [s EXCEPT !.value = block]
  BY DEF mrs_copy
<1> HIDE DEF text, room, cells
<1>6. StoredAs(Chars, block, room, 0, cells)
  <2>1. 0 \in Nat
    OBVIOUS
  <2>2. QED
    BY <1>3, <1>4, <2>1, StoredIs
<1> HIDE DEF block, e
<1>7. /\ block \in Seq(Chars) /\ Len(block) = s.capacity + 1
      /\ \A q \in 1..(s.len + 1) : block[q] = s.value[q]
  <2>1. \A q \in 1..(s.len + 1) : /\ q \in 1..Len(room) /\ 0 < q
                                  /\ q <= 0 + Len(cells) /\ q - 0 = q
    BY <1>1, <1>3, <1>4
  <2>2. QED
    BY <1>3, <1>4, <1>6, <2>1 DEF StoredAs
<1>8. /\ e \in Strs /\ e.value = block /\ e.len = s.len /\ e.bad = FALSE
      /\ e.capacity = s.capacity
  BY <1>1, <1>5, <1>7 DEF Strs
<1>9. Has(e, text)
  <2>1. s.len <= Len(block)
    BY <1>1, <1>7
  <2>2. \A q \in 1..s.len : q \in 1..(s.len + 1)
    BY <1>1
  <2>3. \A q \in 1..s.len : block[q] = text[q]
    BY <1>1, <1>7, <2>2
  <2>4. QED
    BY <1>1, <1>8, <2>1, <2>3 DEF Has
<1>10. Terminated(e)
  <2>1. s.len < Len(block) /\ s.len + 1 \in 1..(s.len + 1)
    BY <1>1, <1>7
  <2>2. QED
    BY <1>1, <1>7, <1>8, <2>1 DEF Terminated
<1>11. Good(e, text)
  BY <1>1, <1>9, <1>10, GoodIs DEF Spells
<1>12. QED
  BY <1>11 DEF e, text

\* mrs_shrink_to_fit.
LEMMA ShrunkAgrees ==
    ASSUME NEW s, Whole(s)
    PROVE  ShrinkAgrees(s)
<1> DEFINE text == Text(s)
           r == mrs_shrink_to_fit(s)
<1>1. /\ s \in Strs /\ s.len \in Nat /\ s.bad = FALSE
      /\ text \in Seq(Chars) /\ Len(text) = s.len /\ Spells(s, text)
  BY WholeHas
<1>2. CASE s.len = s.capacity
  <2>1. r = s
    BY <1>2 DEF mrs_shrink_to_fit
  <2>2. QED
    BY <1>1, <1>2, <2>1, GoodIs DEF ShrinkAgrees
<1>3. CASE s.len # s.capacity
  <2>1. r = Fresh(s, text, s.len)
    BY <1>1, <1>3 DEF mrs_shrink_to_fit, Fresh
  <2> HIDE DEF text, r
  <2>2. Spells(r, text) /\ r.capacity = s.len /\ Len(r.value) = s.len + 1
    <3>1. Len(text) <= s.len
      BY <1>1
    <3>2. /\ Spells(Fresh(s, text, s.len), text)
          /\ Fresh(s, text, s.len).capacity = s.len
          /\ Len(Fresh(s, text, s.len).value) = Len(text) + 1
      BY <1>1, <3>1, FreshSpells
    <3>3. QED
      BY <1>1, <2>1, <3>2
  <2>3. Sized(r)
    <3>1. r.value # Null
      <4>1. Len(Null) = 0
        BY DEF Null
      <4>2. QED
        BY <1>1, <2>2, <4>1
    <3>2. QED
      BY <2>2, <3>1 DEF Sized
  <2>4. Good(r, text)
    BY <1>1, <2>2, GoodIs
  <2>5. QED
    BY <2>3, <2>4 DEF ShrinkAgrees, r, text
<1>4. QED
  BY <1>2, <1>3

\* mrs_is_whitespace at every index, that behind the text included.
LEMMA SpaceIsAgrees ==
    ASSUME NEW s, Whole(s), NEW n \in 0..s.len
    PROVE  SpaceAgrees(s, n)
<1>1. s.len \in Nat /\ \A q \in 1..s.len : Text(s)[q] = s.value[q]
  BY WholeHas
<1>2. CASE n = s.len
  <2>1. mrs_get_char(s, n) = Nul
    BY <1>1, <1>2 DEF mrs_get_char
  <2>2. mrs_is_whitespace(s, n) = "NOT_FOUND"
    BY <2>1 DEF mrs_is_whitespace
  <2>3. QED
    BY <1>1, <1>2, <2>2 DEF SpaceAgrees
<1>3. CASE n < s.len
  <2>1. n + 1 \in 1..s.len /\ ~(n >= s.len)
    BY <1>1, <1>3
  <2>2. mrs_get_char(s, n) = Text(s)[n + 1]
    BY <1>1, <2>1 DEF mrs_get_char
  <2>3. ~isspace(Nul)
    BY DEF isspace, Nul, Newline, Tab, Space
  <2>4. QED
    BY <1>3, <2>2, <2>3 DEF SpaceAgrees, mrs_is_whitespace, isspace
<1>4. QED
  BY <1>1, <1>2, <1>3

\* mrs_strstr finds the first place behind the start where the text occurs.
LEMMA FoundAgrees ==
    ASSUME NEW s, Whole(s), NEW t, Whole(t), NEW start \in 0..s.len
    PROVE  FindAgrees(s, t, start)
<1> DEFINE n == mrs_strstr(s, t, start)
           found == {j \in start..(s.len - 1) :
                        /\ j + t.len <= s.len
                        /\ IsAt(s, t, j)}
           least == CHOOSE j \in found : \A l \in found : j <= l
<1>1. /\ s.len \in Nat /\ t.len \in Nat
      /\ Text(s) \in Seq(Chars) /\ Len(Text(s)) = s.len
      /\ Text(t) \in Seq(Chars) /\ Len(Text(t)) = t.len
      /\ \A q \in 1..s.len : Text(s)[q] = s.value[q]
      /\ \A q \in 1..t.len : Text(t)[q] = t.value[q]
  BY WholeHas
<1>2. ASSUME NEW j \in start..s.len, t.len > 0
      PROVE  Occurs(s, t, j) <=> j \in found
  <2>1. j \in Nat
    OBVIOUS
  <2>2. CASE ~(j + t.len <= s.len)
    BY <2>2 DEF Occurs
  <2>3. CASE j + t.len <= s.len
    <3> DEFINE sub == SubSeq(Text(s), j + 1, j + t.len)
    <3>1. j \in start..(s.len - 1)
      BY <1>1, <1>2, <2>3
    <3>2. /\ sub \in Seq(Chars) /\ Len(sub) = t.len
          /\ \A q \in 1..t.len : sub[q] = Text(s)[j + q]
      <4>1. \A q \in (j + 1)..(j + t.len) : q \in 1..s.len
        BY <1>1, <2>1, <2>3
      <4>2. \A q \in (j + 1)..(j + t.len) : Text(s)[q] \in Chars
        BY <1>1, <4>1
      <4>3. sub \in Seq(Chars)
        BY <1>1, <2>1, <4>2, SubSeqProperties
      <4>4. Len(sub) = t.len
        BY <1>1, <2>1, <2>3
      <4>5. ASSUME NEW q \in 1..t.len PROVE sub[q] = Text(s)[j + q]
        BY <1>1, <2>1, <2>3
      <4>6. QED
        BY <4>3, <4>4, <4>5
    <3> HIDE DEF sub
    <3>3. \A q \in 1..t.len : Text(s)[j + q] = s.value[j + q]
      <4>1. \A q \in 1..t.len : j + q \in 1..s.len
        BY <1>1, <2>1, <2>3
      <4>2. QED
        BY <1>1, <4>1
    <3>4. sub = Text(t) <=> \A q \in 1..t.len : s.value[j + q] = t.value[q]
      <4>1. ASSUME sub = Text(t), NEW q \in 1..t.len
            PROVE  s.value[j + q] = t.value[q]
        BY <1>1, <3>2, <3>3, <4>1
      <4>2. ASSUME \A q \in 1..t.len : s.value[j + q] = t.value[q]
            PROVE  sub = Text(t)
        <5>1. \A q \in 1..t.len : sub[q] = Text(t)[q]
          BY <1>1, <3>2, <3>3, <4>2
        <5>2. QED
          BY <1>1, <3>2, <5>1, SeqEqual
      <4>3. QED
        BY <4>1, <4>2
    <3>5. Occurs(s, t, j) <=> sub = Text(t)
      BY <2>3 DEF Occurs, sub
    <3>6. j \in found <=> \A q \in 1..t.len : s.value[j + q] = t.value[q]
      BY <1>2, <2>3, <3>1 DEF IsAt
    <3>7. QED
      BY <3>4, <3>5, <3>6
  <2>4. QED
    BY <2>2, <2>3
<1>3. n = IF found = {} THEN s.len ELSE least
  BY DEF mrs_strstr
<1>4. /\ found \in SUBSET Nat
      /\ \A j \in found : j \in start..s.len /\ j < s.len /\ t.len > 0
  <2>1. ASSUME NEW j \in found
        PROVE  j \in Nat /\ j \in start..s.len /\ j < s.len /\ t.len > 0
    BY <1>1 DEF IsAt
  <2>2. QED
    BY <2>1
<1> HIDE DEF n
<1>5. CASE found = {}
  <2>1. n = s.len
    BY <1>3, <1>5
  <2>2. t.len > 0 => \A j \in start..s.len : ~Occurs(s, t, j)
    BY <1>2, <1>5
  <2>3. QED
    BY <2>1, <2>2 DEF FindAgrees, n
<1>6. CASE found # {}
  <2>1. least \in found /\ \A j \in found : least <= j
    BY <1>4, <1>6, FirstIs
  <2> HIDE DEF least
  <2>2. n \in found /\ \A j \in found : n <= j
    BY <1>3, <1>6, <2>1
  <2>3. n # s.len /\ n \in start..s.len /\ t.len > 0 /\ n \in Nat
    BY <1>1, <1>4, <2>2
  <2>4. Occurs(s, t, n)
    BY <1>2, <2>2, <2>3
  <2>5. ASSUME NEW j \in start..(n - 1) PROVE ~Occurs(s, t, j)
    <3>1. j \in start..s.len /\ ~(n <= j)
      BY <1>1, <2>3
    <3>2. j \notin found
      BY <2>2, <3>1
    <3>3. QED
      BY <1>2, <2>3, <3>1, <3>2
  <2>6. QED
    BY <2>3, <2>4, <2>5 DEF FindAgrees, n
<1>7. QED
  BY <1>5, <1>6

\* All of CallsAgree.
LEMMA WholeAgree ==
    ASSUME NEW s, Whole(s), NEW t, Whole(t), NEW chars
    PROVE  CallsAgree(s, t, chars)
<1>1. PushAgrees(s, t) /\ SpacesAgree(s) /\ ShrinkAgrees(s)
  BY PushedAgrees, SpacesOutAgree, ShrunkAgrees
<1>2. \A c \in chars : CharAgrees(s, c)
  BY CharsAgree
<1>3. \A n \in 0..s.len : DupAgrees(s, n)
  BY DupsAgree
<1>4. \A n \in 0..s.len : SpaceAgrees(s, n)
  BY SpaceIsAgrees
<1>5. \A start \in 0..s.len : FindAgrees(s, t, start)
  BY FoundAgrees
<1>6. mrs_strndup(s, s.len + 1, t, TRUE) = t
  <2>1. s.len \in Nat
    BY WholeHas
  <2>2. s.len < s.len + 1
    BY <2>1
  <2>3. QED
    BY <2>2 DEF mrs_strndup
<1>7. Good(mrs_copy(Failed, s, TRUE), Text(s))
  BY CopiedAgrees
<1>8. QED
  BY <1>1, <1>2, <1>3, <1>4, <1>5, <1>6, <1>7 DEF CallsAgree, PushAgrees, SpacesAgree,
     ShrinkAgrees, CharAgrees, DupAgrees, SpaceAgrees, FindAgrees, Occurs

\* TrustingCallsAgree, call by call.  A store that ends past the block.
LEMMA EndingPast ==
    ASSUME NEW s, s \in Strs, NEW offset \in Nat, NEW chars,
           Len(chars) \in Nat, offset + Len(chars) >= Len(s.value)
    PROVE  Ending(s, offset, chars).bad
<1>1. /\ Len(s.value) \in Nat /\ s.bad \in BOOLEAN
      /\ Ending(s, offset, chars).bad
            = (s.bad \/ ~Within(s.value, offset, Len(chars) + 1))
  BY DEF Ending, Strs
<1>2. ~Within(s.value, offset, Len(chars) + 1)
  BY <1>1 DEF Within
<1>3. QED
  BY <1>1, <1>2

\* mrs_strcat.
LEMMA JoinedAgrees ==
    ASSUME NEW s, Whole(s), NEW t, Whole(t)
    PROVE  IF s.len + t.len \in Len(s.value)..s.capacity
           THEN mrs_strcat(s, t, TRUE).bad
           ELSE Good(mrs_strcat(s, t, TRUE), Text(s) \o Text(t))
<1> DEFINE a == Text(s)
           b == Text(t)
           len == t.len + s.len
           e == mrs_strcat(s, t, TRUE)
<1>1. /\ s \in Strs /\ s.len \in Nat /\ s.capacity \in Nat /\ s.bad = FALSE
      /\ s.value \in Seq(Chars)
      /\ a \in Seq(Chars) /\ Len(a) = s.len
      /\ \A q \in 1..s.len : a[q] = s.value[q]
  BY WholeHas
<1>2. t.len \in Nat /\ b \in Seq(Chars) /\ Len(b) = t.len
  BY WholeHas
<1>3. Len(s.value) \in Nat
  BY <1>1
<1> HIDE DEF a, b
<1>4. a \o b \in Seq(Chars) /\ Len(a \o b) = len /\ len \in Nat
  <2>1. a \o b \in Seq(Chars) /\ Len(a \o b) = Len(a) + Len(b)
    BY <1>1, <1>2, ConcatProperties
  <2>2. QED
    BY <1>1, <1>2, <2>1
<1>5. ASSUME len <= s.capacity, len < Len(s.value)
      PROVE  Good(e, a \o b)
  <2> DEFINE r == Ending(s, s.len, b)
  <2>1. e = r
    BY <1>5 DEF mrs_strcat, b
  <2>2. s.len + Len(b) + 1 <= Len(s.value) /\ Len(a) + Len(b) <= s.capacity
    BY <1>1, <1>2, <1>3, <1>5
  <2>3. Ended(r, s, s.len, b)
    BY <1>1, <1>2, <2>2, EndingIs
  <2> HIDE DEF r
  <2>4. Ended(r, s, Len(a), b) /\ \A q \in 1..Len(a) : s.value[q] = a[q]
    BY <1>1, <2>3
  <2>5. Spells(r, a \o b)
    BY <1>1, <1>2, <2>2, <2>4, EndedSpells
  <2>6. QED
    BY <1>4, <2>1, <2>5, GoodIs
<1>6. ASSUME ~(len <= s.capacity)
      PROVE  Good(e, a \o b)
  <2>1. e = Fresh(s, a \o b, len)
    <3>1. e = Ending([s EXCEPT !.value = malloc(len + 1), !.capacity = len],
                     0, a \o b)
      BY <1>6 DEF mrs_strcat, a, b
    <3> HIDE DEF e, len
    <3>2. QED
      BY <1>4, <3>1 DEF Fresh
  <2>2. Len(a \o b) <= len
    BY <1>4
  <2> HIDE DEF e, len
  <2>3. Spells(Fresh(s, a \o b, len), a \o b)
    BY <1>1, <1>4, <2>2, FreshSpells
  <2>4. QED
    BY <1>4, <2>1, <2>3, GoodIs
<1>7. ASSUME len <= s.capacity, len >= Len(s.value)
      PROVE  e.bad
  <2>1. e = Ending(s, s.len, b)
    BY <1>7 DEF mrs_strcat, b
  <2>2. s.len + Len(b) >= Len(s.value)
    BY <1>1, <1>2, <1>7
  <2>3. QED
    BY <1>1, <1>2, <2>1, <2>2, EndingPast
<1>8. s.len + t.len \in Len(s.value)..s.capacity
         <=> len <= s.capacity /\ len >= Len(s.value)
  BY <1>1, <1>2, <1>3
<1>9. len < Len(s.value) \/ len >= Len(s.value)
  BY <1>3, <1>4
<1> HIDE DEF e, len
<1>10. QED
  BY <1>5, <1>6, <1>7, <1>8, <1>9 DEF e, a, b

\* mrs_setstr.
LEMMA SetAgrees ==
    ASSUME NEW s, Whole(s), NEW t, Whole(t)
    PROVE  LET set == mrs_setstr(s, Text(t))
           IN  /\ t.len > s.capacity => set = s
               /\ t.len \in Len(s.value)..s.capacity => set.bad
               /\ t.len <= s.capacity /\ t.len < Len(s.value)
                     => Good(set, Text(t))
<1>1. /\ s \in Strs /\ s.capacity \in Nat /\ s.bad = FALSE
      /\ s.value \in Seq(Chars) /\ Len(s.value) \in Nat
      /\ Text(s) \in Seq(Chars) /\ Spells(s, Text(s))
  BY WholeHas
<1>2. t.len \in Nat /\ Text(t) \in Seq(Chars) /\ Len(Text(t)) = t.len
  BY WholeHas
<1>3. t.len > s.capacity => mrs_setstr(s, Text(t)) = s
  BY <1>2 DEF mrs_setstr
<1>4. ASSUME t.len <= s.capacity, t.len < Len(s.value)
      PROVE  Good(mrs_setstr(s, Text(t)), Text(t))
  <2>1. mrs_setstr(s, Text(t)) = Ending(s, 0, Text(t))
    BY <1>1, <1>2, <1>4 DEF mrs_setstr
  <2>2. Len(Text(t)) + 1 <= Len(s.value) /\ Len(Text(t)) <= s.capacity
    BY <1>1, <1>2, <1>4
  <2>3. Spells(Ending(s, 0, Text(t)), Text(t))
    BY <1>1, <1>2, <2>2, StartSpells
  <2>4. Good(Ending(s, 0, Text(t)), Text(t))
    BY <1>2, <2>3, GoodIs
  <2>5. QED
    BY <2>1, <2>4
<1>5. ASSUME t.len \in Len(s.value)..s.capacity
      PROVE  mrs_setstr(s, Text(t)).bad
  <2>1. mrs_setstr(s, Text(t)) = Ending(s, 0, Text(t))
    BY <1>1, <1>2, <1>5 DEF mrs_setstr
  <2>2. 0 + Len(Text(t)) >= Len(s.value)
    BY <1>1, <1>2, <1>5
  <2>3. QED
    BY <1>1, <1>2, <2>1, <2>2, EndingPast
<1>6. QED
  BY <1>3, <1>4, <1>5

\* All of TrustingCallsAgree.
LEMMA TrustingAgree ==
    ASSUME NEW s, Whole(s), NEW t, Whole(t)
    PROVE  TrustingCallsAgree(s, t)
<1>1. s.capacity \in Nat /\ Len(s.value) \in Nat /\ t.len \in Nat
  BY WholeHas
<1>2. t.len <= s.capacity /\ t.len \notin Len(s.value)..s.capacity
         => t.len < Len(s.value)
  BY <1>1
<1>3. QED
  BY <1>2, SetAgrees, JoinedAgrees DEF TrustingCallsAgree

\* StringCallsAgree follows.
LEMMA LinesAgree == ASSUME TypeInv PROVE StringCallsAgree
<1>1. \A s \in Lines : Whole(s)
  BY DEF Lines, TypeInv, LinesInv, Whole
<1>2. QED
  BY <1>1, WholeAgree, TrustingAgree DEF StringCallsAgree

\* StringCallsAgree: every call of mrs_strings.c on the lines that the tool
\* holds, trimmed or pushed to, returns what their texts say, terminated and
\* within its block, but for a mrs_setstr or mrs_strcat of more than the block
\* of a pushed line has and no more than its capacity, which always stores past
\* the end.
THEOREM SpacersStringCallsAgree == Spec => []StringCallsAgree
<1>1. TypeInv => StringCallsAgree
  BY LinesAgree
<1>2. QED
  BY <1>1, SpacersTypes, PTL

===============================================================================
