-------------------------------- MODULE Walk --------------------------------
(***************************************************************************)
(* How the program walks the characters of a gap buffer: a char pointer    *)
(* that starts at the text and is moved by buffer_seek_next_utf8 counts    *)
(* rows and columns on its way.  A loop that walks is given here by the    *)
(* set of offsets it can stop at and the first of them where it does.      *)
(***************************************************************************)
EXTENDS GapBuffer, FiniteSetsExt

CONSTANTS
    Newlines,   \* UTF8_RETURN and UTF8_NEWLINE: each ends a row
    Tab,        \* UTF8_TAB
    TabSpaces   \* tab_spaces: the columns of a tab

ASSUME WalkAssumption ==
    /\ Newlines \subseteq Bytes \ (Cont \cup {NUL})
    /\ Tab \in Bytes \ (Cont \cup Newlines \cup {NUL})
    /\ TabSpaces \in Nat \ {0}

End(b) == MaxText(b.size)

\* The first offset behind the mapping; a walk that gets here has read there.
Off(b) == End(b) + 1

-----------------------------------------------------------------------------
(* Steps *)

\* utf8_seek_next
NextChar(b, p) ==
    Min({r \in (p + 1)..End(b) : b.text[r] \notin Cont} \cup {Off(b)})

\* utf8_seek_next, then over the gap if that is where it stopped.  The byte
\* at gap_start is no longer part of the text, but the step looks at it.
Seek(b, p) ==
    LET q == NextChar(b, p) IN IF q = b.gap_start THEN b.gap_end ELSE q

\* A mistake: the walk starts in the gap.
StartAtText(b) == 0

\* "find first char that isnt a in buffer gap"
Start(b) == IF b.gap_start = 0 THEN b.gap_end ELSE 0

\* The offsets the pointer takes until it is at the end of the text.
Visited(b) ==
    LET after[n \in 0..End(b)] ==
            IF n = 0 THEN Start(b)
            ELSE LET p == after[n - 1] IN IF p < End(b) THEN Seek(b, p) ELSE p
    IN  {after[n] : n \in 0..End(b)}

EndsRow(b, p) == b.text[p] \in Newlines

\* The rows, and the columns, that a pointer with the offsets in v counts on
\* its way from p to q.
Rows(b, v, p, q) == Cardinality({r \in v : p <= r /\ r < q /\ EndsRow(b, r)})

Columns(b, v, p, q) ==
    LET chars == {r \in v : p <= r /\ r < q}
        tabs  == {r \in chars : b.text[r] = Tab}
    IN  Cardinality(chars \ tabs) + TabSpaces * Cardinality(tabs)

-----------------------------------------------------------------------------
(* Loops *)

LineStart(b, row) ==
    LET v == Visited(b)
    IN  Min({p \in v : Rows(b, v, 0, p) = row \/ p >= End(b)})

LineEnd(b, p) ==
    Min({q \in Visited(b) : p <= q /\ (EndsRow(b, q) \/ q >= End(b))})

RowLength(b, row) ==
    LET p == LineStart(b, row)
    IN  Columns(b, Visited(b), p, LineEnd(b, p))

MaxRow(b) == Rows(b, Visited(b), 0, End(b))

\* Where buffer_move_gap_to_row_col stops.  Its loops do not look for the end
\* of the text: without such a row, or in the last row without such a column,
\* they leave the mapping.  A column inside a tab is not met, since
\* col -= tab_spaces wraps: only the end of the row stops the walk then.
StopAt(b, row, col) ==
    LET v == Visited(b)
        p == Min({r \in v : Rows(b, v, 0, r) = row} \cup {Off(b)})
    IN  Min({q \in v : p <= q /\ (EndsRow(b, q) \/ Columns(b, v, p, q) = col)}
            \cup {Off(b)})

\* The argument of buffer_move_gap for a pointer at p; a pointer inside the
\* gap may make p - gap_size wrap, and the call then takes the largest.
PointFor(b, p) ==
    IF p < b.gap_start THEN p
    ELSE IF p < Gap(b) THEN TextLen(b)
    ELSE p - Gap(b)

-----------------------------------------------------------------------------
(* What a walk should find *)

\* The step that ends at the gap sees that it does: the byte left at its
\* start, which is no longer text, does not look like a continuation.
Clean(b) == b.gap_start > 0 => b.text[b.gap_start] \notin Cont

\* The row and the column of position k of a text.
RowAt(s, k) == Cardinality({i \in 1..k : s[i] \in Newlines})

ColAt(s, k) ==
    LET line == {i \in 1..k : s[i] \notin Cont /\ RowAt(s, i) = RowAt(s, k)}
        tabs == {i \in line : s[i] = Tab}
        ends == {i \in line : s[i] \in Newlines}
    IN  Cardinality(line \ (tabs \cup ends)) + TabSpaces * Cardinality(tabs)

Boundaries(s) == {k \in 0..Len(s) : k < Len(s) => s[k + 1] \notin Cont}

\* The positions of a text at a row and a column.
PositionsAt(s, row, col) ==
    {k \in Boundaries(s) : RowAt(s, k) = row /\ ColAt(s, k) = col}

=============================================================================
