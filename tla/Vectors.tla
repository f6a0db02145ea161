------------------------------ MODULE Vectors -------------------------------
(***************************************************************************)
(* src/src/mr_utils/src/mrv_vectors.c: a vector of items of one size in a  *)
(* block that grows.  A cell of the block holds one item, so the stride is *)
(* left out.  The field bad is set by a store outside of the block, or by  *)
(* a block that realloc has freed and the vector still points to.          *)
(***************************************************************************)
EXTENDS Blocks

\* mrv_create and mrv_init of a vector whose block malloc gives.
mrv_init(capacity) ==
    [arr |-> malloc(capacity), len |-> 0, capacity |-> capacity, bad |-> FALSE]

Items(vec) == SubSeq(vec.arr, 1, vec.len)

mrv_dupe(vec) ==
    [vec EXCEPT !.arr = Stored(malloc(vec.capacity), 0, Items(vec))]

\* The block stays, the capacity says otherwise.
mrv_clear(vec) ==
    [vec EXCEPT !.arr = Stored(@, 0, malloc(vec.len)), !.len = 0, !.capacity = 0]

Scalings == {"INCREMENT", "DOUBLE", "ONE_POINT_FIVE"}

Scaled(capacity, scaling) ==
    IF scaling = "INCREMENT" THEN capacity + 1
    ELSE IF capacity = 0 THEN 1
    ELSE IF scaling = "DOUBLE" THEN 2 * capacity
    ELSE capacity + capacity \div 2

\* The item behind the last one, where the vector has room.
Pushed(vec, item) ==
    [vec EXCEPT !.arr = Stored(@, vec.len, <<item>>),
                !.len = @ + 1,
                !.bad = @ \/ ~Within(vec.arr, vec.len, 1)]

mrv_append(vec, item, scaling, granted) ==
    LET capacity == Scaled(vec.capacity, scaling)
    IN  IF vec.capacity # vec.len THEN Pushed(vec, item)
        ELSE IF ~granted THEN vec
        ELSE Pushed([vec EXCEPT !.arr = realloc(@, capacity),
                                !.capacity = capacity], item)

\* realloc of no cells frees the block and returns NULL, an error here, and
\* arr still points to it; a failure otherwise leaves a larger block.
mrv_realloc_to_fit(vec, granted) ==
    LET fit == [vec EXCEPT !.capacity = vec.len]
    IN  IF vec.capacity = vec.len THEN vec
        ELSE IF vec.len = 0 THEN [fit EXCEPT !.arr = Null, !.bad = TRUE]
        ELSE IF ~granted THEN fit
        ELSE [fit EXCEPT !.arr = realloc(@, vec.len)]

mrv_pop(vec) == [vec EXCEPT !.len = @ - 1]

mrv_pop_front(vec) ==
    [vec EXCEPT !.arr = Stored(@, 0, SubSeq(@, 2, vec.len)), !.len = @ - 1]

mrv_get_idx(vec, n) == vec.arr[n + 1]

mrv_get_last(vec) == mrv_get_idx(vec, vec.len - 1)

\* A mistake: the last item goes and does not take the place of the other.
mrv_remove_last(vec, idx) == mrv_pop(vec)

mrv_remove(vec, idx) ==
    [vec EXCEPT !.arr = Stored(@, idx, <<mrv_get_last(vec)>>), !.len = @ - 1]

\* The index of the first item in a set, or len for NULL; mrv_get_item looks
\* for the bytes of one item, mrv_get_item_where asks a function.
mrv_get_item_where(vec, chosen) ==
    LET found == {i \in 0..(vec.len - 1) : mrv_get_idx(vec, i) \in chosen}
    IN  IF found = {} THEN vec.len
        ELSE CHOOSE i \in found : \A j \in found : i <= j

mrv_get_item(vec, item) == mrv_get_item_where(vec, {item})

-----------------------------------------------------------------------------
(* What the library promises, on the items of a vector *)

Holds(vec, items) == Items(vec) = items /\ ~vec.bad

\* A vector of capacity 1 does not grow by half of that.
Grows(vec, scaling) == ~(scaling = "ONE_POINT_FIVE" /\ vec.capacity = 1)

\* Appending twice, with a call between that changes the capacity.
AppendsAgree(vec, item) ==
    \A first, second \in Scalings :
        LET items == Items(vec)
            once == mrv_append(vec, item, first, TRUE)
            fit == mrv_realloc_to_fit(once, TRUE)
            cleared == mrv_append(mrv_clear(vec), item, first, TRUE)
        IN  /\ Grows(vec, first) \/ vec.len = 0 =>
                  /\ Holds(once, Append(items, item))
                  /\ Holds(fit, Append(items, item))
                  /\ Grows(fit, second) =>
                        Holds(mrv_append(fit, item, second, TRUE),
                              items \o <<item, item>>)
                  /\ Holds(mrv_append(once, item, second, FALSE),
                           IF once.len = once.capacity THEN Items(once)
                           ELSE items \o <<item, item>>)
            /\ Holds(cleared, <<item>>)
            /\ Holds(mrv_append(mrv_dupe(vec), item, "DOUBLE", TRUE),
                     Append(items, item))

\* What is taken out, and that the others stay.
RemovalsAgree(vec) ==
    LET items == Items(vec)
        last == vec.len
    IN  \A idx \in 0..(vec.len - 1) :
            LET rest == Items(mrv_remove(vec, idx))
            IN  /\ Holds(mrv_pop(vec), SubSeq(items, 1, last - 1))
                /\ Holds(mrv_pop_front(vec), Tail(items))
                /\ Len(rest) = last - 1
                /\ \A i \in 1..(last - 1) :
                      rest[i] = IF i = idx + 1 THEN items[last] ELSE items[i]
                /\ LET first == mrv_get_item(vec, items[idx + 1])
                   IN  /\ first <= idx
                       /\ mrv_get_idx(vec, first) = items[idx + 1]

=============================================================================
