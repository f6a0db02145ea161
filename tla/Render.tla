------------------------------- MODULE Render -------------------------------
(***************************************************************************)
(* What render_text_buffer of src/src/render.c puts on the screen.  It     *)
(* walks over the text in pieces: a piece ends at a tab, at the end of a   *)
(* row and at the gap, where a '\0' is put in for the time it takes to     *)
(* draw it.  Lengths are in characters of the one width of the font, from  *)
(* the origin of the frame.                                                *)
(***************************************************************************)
EXTENDS Walk

\* The characters drawn for the bytes from p up to q, as a string of C.
Glyphs(b, p, q) ==
    {r \in p..(q - 1) : b.text[r] \notin Cont /\ \A i \in p..r : b.text[i] # NUL}

\* A walk: where it is, where its piece starts, the place that piece will be
\* drawn at, and the characters drawn so far, each with its column and row.
Piece(b, w) ==
    LET g == Glyphs(b, w.start, w.ptr)
    IN  {<<r, w.x + Cardinality({i \in g : i < r}), w.y>> : r \in g}

\* The walk goes on at p with a new piece, at the column x of row y.
NewPiece(b, w, p, x, y) ==
    [ptr |-> p, start |-> p, x |-> x, y |-> y, drawn |-> w.drawn \cup Piece(b, w)]

\* x_advance of the piece
Advance(b, w) == Cardinality(Glyphs(b, w.start, w.ptr))

\* A mistake: a tab right behind another tab, or at the start of a row, has no
\* width.
TabAdvanceOfPiece(b, w) ==
    IF w.start = w.ptr THEN 0 ELSE Advance(b, w) + TabSpaces

\* What a tab and the piece in front of it take.
TabAdvance(b, w) == Advance(b, w) + TabSpaces

\* One turn of the loop.  At an empty gap it stays where it is.
Step(b, w) ==
    CASE w.ptr = b.gap_start ->
            NewPiece(b, w, b.gap_end, w.x + Advance(b, w), w.y)
      [] w.ptr # b.gap_start /\ b.text[w.ptr] = Tab ->
            NewPiece(b, w, Seek(b, w.ptr), w.x + TabAdvance(b, w), w.y)
      [] w.ptr # b.gap_start /\ EndsRow(b, w.ptr) ->
            NewPiece(b, w, Seek(b, w.ptr), 0, w.y + 1)
      [] OTHER ->
            [w EXCEPT !.ptr = NextChar(b, @)]

\* The loop over the first rows of the text, as far as it comes in as many
\* turns as there are offsets.
Loop(b, rows) ==
    LET end == LineStart(b, rows)
        after[n \in 0..Off(b)] ==
            IF n = 0
            THEN [ptr |-> LineStart(b, 0), start |-> LineStart(b, 0),
                  x |-> 0, y |-> 0, drawn |-> {}]
            ELSE LET w == after[n - 1] IN IF w.ptr < end THEN Step(b, w) ELSE w
    IN  after[Off(b)]

Ends(b, rows) == Loop(b, rows).ptr >= LineStart(b, rows)

\* render_text_buffer with view_start_row 0, which nothing changes.
Drawn(b, rows) ==
    LET w == Loop(b, rows)
    IN  IF w.start < LineStart(b, rows) THEN w.drawn \cup Piece(b, w) ELSE w.drawn

-----------------------------------------------------------------------------
(* What it should draw *)

\* Each character of the rows that is neither a tab nor the end of a row, by
\* its offset, at its column and row.
Picture(b, rows) ==
    LET s == Content(b)
        shown == {k \in Boundaries(s) \ {Len(s)} :
                     /\ s[k + 1] \notin Newlines \cup {Tab}
                     /\ RowAt(s, k) < rows}
    IN  {<<IF k < b.gap_start THEN k ELSE k + Gap(b), ColAt(s, k), RowAt(s, k)>> :
            k \in shown}

=============================================================================
