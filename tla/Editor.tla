------------------------------- MODULE Editor -------------------------------
(***************************************************************************)
(* The editing commands of src/src/editor.c and src/src/binds.c on the one *)
(* buffer the program opens.  The editor keeps the cursor as a row and a   *)
(* column beside the buffer's gap; each command changes both, the gap by   *)
(* a walk over the text, and nothing compares them afterwards.             *)
(***************************************************************************)
EXTENDS Buffers, Render

CONSTANTS
    CoordRange,  \* 2^16: cursor.row and cursor.col are of type uint16_t
    MouseRows,   \* the rows and the columns a mouse position can stand for
    MouseCols,
    ViewRows     \* view_row_count: the rows that windows have room for

ASSUME EditorAssumption ==
    /\ 0 \in Slots
    /\ MaxPages > 0
    /\ PageSize \in BlankSizes
    /\ CoordRange \in Nat \ {0}
    /\ MouseRows \subseteq 0..(CoordRange - 1)
    /\ MouseCols \subseteq 0..(CoordRange - 1)
    /\ ViewRows \subseteq Nat \ {0}

VARIABLES
    row,    \* current_buffer.cursor.row
    col     \* current_buffer.cursor.col

evars == <<buffers, file, proc, stray, row, col>>

\* current_buffer.buffer
buf == buffers[0]

EditorTypeOK ==
    /\ TypeOK
    /\ row \in 0..(CoordRange - 1)
    /\ col \in 0..(CoordRange - 1)

\* editor_init without a path, as main calls it.
EditorInit ==
    /\ buffers = [id \in Slots |->
                     IF id = 0 THEN Blank(RoundUp(PageSize)) ELSE NoBuffer]
    /\ file = <<>>
    /\ proc = "running"
    /\ stray = {}
    /\ row = 0
    /\ col = 0

-----------------------------------------------------------------------------

\* A mistake: a cursor wider than 16 bits.
SetCursorWide(r, c) == row' = r /\ col' = c

\* editor_set_cursor_position
SetCursor(r, c) ==
    /\ row' = r % CoordRange
    /\ col' = c % CoordRange

\* The cursor goes to a row and a column and the gap goes after it.
GoTo(r, c) ==
    LET stop == StopAt(buf, r, c)
    IN  \/ /\ stop < Off(buf)
           /\ Put(0, MoveGap(buf, PointFor(buf, stop)))
           /\ SetCursor(r, c)
        \/ /\ stop = Off(buf)
           /\ \/ Put(0, MoveGap(buf, TextLen(buf)))
              \/ Fail("segv", {})
           /\ SetCursor(r, c)

Narrow(n) == n % CoordRange

\* A mistake: the column is kept in a shorter row.
KeepColumn(r, c) == c

\* A column of row r, or the end of the row if the row is shorter.
Clip(r, c) ==
    IF RowLength(buf, r) < c THEN Narrow(RowLength(buf, r)) ELSE c

Up ==
    /\ row > 0
    /\ GoTo(row - 1, Clip(row - 1, col))

Down ==
    /\ row < MaxRow(buf)
    /\ LET r == Narrow(row + 1) IN GoTo(r, Clip(r, col))

\* A mistake: a tab counts as one column.
WidthOne(c) == 1

\* The widths a tab has for the cursor, and any other character.
Width(c) == IF c = Tab THEN TabSpaces ELSE 1

Left ==
    /\ col > 0
    /\ LET w == IF buf.gap_start > 0 THEN Width(buf.text[buf.gap_start - 1])
                                     ELSE 1
       IN  GoTo(row, Narrow(col + CoordRange - w))

Right ==
    /\ col < RowLength(buf, row)
    /\ LET w == IF buf.gap_end < End(buf) THEN Width(buf.text[buf.gap_end])
                                          ELSE 1
       IN  GoTo(row, Narrow(col + w))

\* The bounds of the frame and the size of the font turn the position into a
\* row and a column.  The columns of the row are counted by characters.
Click(r0, c0) ==
    LET r == IF r0 > MaxRow(buf) THEN Narrow(MaxRow(buf)) ELSE r0
        p == LineStart(buf, r)
        n == Cardinality({q \in Visited(buf) : p <= q /\ q < LineEnd(buf, p)})
        c == IF c0 > n THEN Narrow(n) ELSE c0
    IN  GoTo(r, c)

-----------------------------------------------------------------------------

\* One input of editor_buffer_text_input.
TextInput(s) ==
    /\ s # <<>>
    /\ InsertUtf8(0, s)
    /\ IF s[1] \in Newlines THEN SetCursor(row + 1, 0)
                            ELSE SetCursor(row, col + Width(s[1]))

\* The byte at the new gap_start is the first of the character that went, so
\* it tells a tab.  In column 0 the row before is measured as it is now, with
\* what the character has joined to it.
Backspace ==
    /\ buf.gap_start # 0
    /\ DeleteUtf8(0)
    /\ \/ proc' # "running" /\ UNCHANGED <<row, col>>
       \/ /\ proc' = "running"
          /\ \/ /\ col = 0
                /\ row > 0
                /\ SetCursor(row - 1, RowLength(buf', row - 1))
             \/ /\ col = 0
                /\ row = 0
                /\ UNCHANGED <<row, col>>
             \/ /\ col > 0
                /\ SetCursor(row, col + CoordRange
                                     - Width(buf'.text[buf'.gap_start]))

-----------------------------------------------------------------------------

EditorNext ==
    /\ proc = "running"
    /\ \/ Up \/ Down \/ Left \/ Right \/ Backspace
       \/ \E r \in MouseRows, c \in MouseCols : Click(r, c)
       \/ \E s \in Inputs : TextInput(s)

EditorSpec == EditorInit /\ [][EditorNext]_evars

-----------------------------------------------------------------------------
(* What the cursor promises *)

Text == Content(buf)

\* Nothing misleads a walk.
Sound == Clean(buf) /\ OnCharBoundary(buf)

\* The cursor says where the gap is.
Agrees == buf.gap_start \in PositionsAt(Text, row, col)

\* On a clean buffer the walks find what the text has: the length of each
\* row, the number of rows, and for each position of the text the offset
\* that the gap has to be moved to (buffers.c:182, 437, 474, utils.c:122).
WalksFindText ==
    Sound =>
        /\ MaxRow(buf) = RowAt(Text, Len(Text))
        /\ \A k \in Boundaries(Text) :
              LET r == RowAt(Text, k)
                  c == ColAt(Text, k)
              IN  /\ PointFor(buf, StopAt(buf, r, c)) = k
                  /\ c <= RowLength(buf, r)
                  /\ \E j \in Boundaries(Text) :
                        RowAt(Text, j) = r /\ ColAt(Text, j) = RowLength(buf, r)

\* Backspace in column 0, with text behind the cursor, joins two rows: a row
\* end before the gap is deleted.
JoinsRows ==
    /\ Text' # Text
    /\ col = 0
    /\ buf.gap_end < End(buf)
    /\ buf.text[buf.gap_end] \notin Newlines
    /\ buf'.gap_start < buf.gap_start

\* A command that finds the cursor with the gap, in a buffer whose walks are
\* not misled, brings both to the same place: if it edits the text, always; if
\* it moves, whenever the text has the place.  The one exception is the join
\* of two rows: it leaves the cursor at the end of the joined row and the gap
\* where the rows met (binds.c:126-134).
StaysTogether ==
    [][(/\ Agrees /\ Sound /\ ~JoinsRows
        /\ proc' = "running"
        /\ Text' = Text => PositionsAt(Text, row', col') # {})
       => Agrees']_evars

\* No command walks off the mapping (buffers.c:193-211) but from a state in
\* which the cursor had lost the gap or the walk was misled, or when the
\* column it goes to is inside a tab of the last row.
LeavesMapping == proc' = "segv" /\ stray' = stray

InsideTab(r, c) ==
    /\ PositionsAt(Text, r, c) = {}
    /\ \E k \in Boundaries(Text) : RowAt(Text, k) = r /\ ColAt(Text, k) > c

OnlyLostWalksLeave ==
    [][LeavesMapping =>
          \/ ~Agrees
          \/ ~Sound
          \/ InsideTab(row', col') /\ row' = RowAt(Text, Len(Text))]_evars

\* Of all the commands only typing and backspace change the text, each at the
\* gap and by whole inputs or one character; the walks, misled or not, and
\* the moves of the gap they end in change nothing of it.
EditsText == [][proc = "running" /\ Doc!Next]_(Doc!vars)

-----------------------------------------------------------------------------
(* What the screen promises *)

\* Whatever the commands leave, a frame of it can be drawn: the walk of the
\* renderer comes to the end of the view.  An insertion must never fill the
\* gap, since the renderer would jump from its start to its end, the same
\* place, for ever (render.c:157, buffers.c:361).
RenderEnds ==
    proc = "running" => \A n \in ViewRows : Ends(buf, n)

\* On a clean buffer each character of the visible rows is drawn where its row
\* and column say, and nothing of the gap is; so the block that
\* render_text_buffer_cursor draws at the cursor's row and column is on the
\* character behind the gap when the cursor agrees with it.
DrawsText ==
    Sound =>
        \A n \in ViewRows :
            /\ Drawn(buf, n) = Picture(buf, n)
            /\ (/\ Agrees
                /\ row < n
                /\ buf.gap_end < End(buf)
                /\ buf.text[buf.gap_end] \notin Newlines \cup {Tab})
               => <<buf.gap_end, col, row>> \in Drawn(buf, n)

=============================================================================
