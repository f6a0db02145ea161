------------------------------ MODULE GapBuffer ------------------------------
(***************************************************************************)
(* One gap buffer of src/src/posix/buffers.c: a mapping of whole pages     *)
(* that starts with a header and holds the text in two parts, before and   *)
(* after a gap.  This module has no variables: it gives the buffer as a    *)
(* record and what the functions of buffers.c compute on it.  A byte of    *)
(* the text sits at an offset of buffer->text, counted from 0 as in C; the *)
(* last offset of the mapping is the one kept for the null terminator.     *)
(***************************************************************************)
EXTENDS Naturals, Sequences, FiniteSets

CONSTANTS
    PageSize,    \* system_page_size
    HeaderSize,  \* sizeof(struct Buffer): the bytes of a mapping before text
    MaxPages,    \* bound: the largest mapping the model follows, in pages
    Bytes,       \* the values of a byte that the properties tell apart
    Cont,        \* the UTF-8 continuation bytes among them
    NUL,         \* '\0'
    FreshByte    \* a byte of a new mapping: NUL, and not NUL where mmap is
                 \* mrd_mmap, which fills the mapping with a pattern (DEBUG)

ASSUME SizeAssumption ==
    /\ PageSize \in Nat
    /\ HeaderSize \in Nat
    /\ MaxPages \in Nat
    /\ HeaderSize + 1 < PageSize

ASSUME ByteAssumption ==
    /\ Cont \subseteq Bytes
    /\ NUL \in Bytes \ Cont
    /\ FreshByte \in Bytes

-----------------------------------------------------------------------------
(* Sizes *)

\* The sizes a mapping can have.
Sizes == {k * PageSize : k \in 1..MaxPages}

\* BUFFER_MAX_TEXT_BYTES_LENGTH: also the offset of the terminator.
MaxText(size) == size - HeaderSize - 1

\* (size + system_page_size - 1) & ~(system_page_size - 1)
RoundUp(n) == ((n + PageSize - 1) \div PageSize) * PageSize

\* A buffer whose gap lies within its text area.
IsGapBuffer(b) ==
    /\ b \in [size      : Sizes,
              gap_start : Nat,
              gap_end   : Nat,
              text      : [0..MaxText(b.size) -> Bytes]]
    /\ b.gap_start <= b.gap_end
    /\ b.gap_end <= MaxText(b.size)

-----------------------------------------------------------------------------
(* What a buffer says *)

Gap(b) == b.gap_end - b.gap_start

TextLen(b) == MaxText(b.size) - Gap(b)

\* The text, without the gap.
Content(b) ==
    [k \in 1..TextLen(b) |->
        IF k <= b.gap_start THEN b.text[k - 1] ELSE b.text[k - 1 + Gap(b)]]

\* The offset of the k-th byte of the text, counted from 0, is k before the
\* gap and k plus the gap after it; this is the way back.
Logical(b, p) == IF p < b.gap_start THEN p ELSE p - Gap(b)

\* The offsets of the bytes that start a character, on both sides of the gap.
CharStarts(b) ==
    {p \in (0..b.gap_start - 1) \cup (b.gap_end..MaxText(b.size) - 1) :
        b.text[p] \notin Cont}

\* Two mistakes: a continuation byte is not counted; the i-th byte for the
\* i-th character.
LogicalTurnByChar(b, i, s, byte_idx) ==
    IF s.found \/ b.text[byte_idx] \in Cont THEN s
    ELSE IF s.chars = i THEN [s EXCEPT !.found = TRUE]
    ELSE [logical |-> s.logical + 1, chars |-> s.chars + 1, found |-> FALSE]

LogicalIdxOfByte(b, i) == i

\* One turn of a loop of the lookup without the gap: it counts the bytes and
\* the characters it leaves behind, and returns at the i-th character.
LogicalTurn(b, i, s, byte_idx) ==
    IF s.found THEN s
    ELSE IF b.text[byte_idx] \in Cont THEN [s EXCEPT !.logical = @ + 1]
    ELSE IF s.chars = i THEN [s EXCEPT !.found = TRUE]
    ELSE [logical |-> s.logical + 1, chars |-> s.chars + 1, found |-> FALSE]

\* The loop over the offsets from..to-1.
LogicalLoop(b, i, s, from, to) ==
    LET after[n \in 0..(to - from)] ==
            IF n = 0 THEN s ELSE LogicalTurn(b, i, after[n - 1], from + n - 1)
    IN  after[to - from]

\* The loop before the gap, and from where it got to the one behind.
LogicalLookup(b, i) ==
    LET front == LogicalLoop(b, i, [logical |-> 0, chars |-> 0, found |-> FALSE],
                             0, b.gap_start)
    IN  LogicalLoop(b, i, front, b.gap_end, MaxText(b.size))

\* The lookup returns in a loop or at the end of the text; beyond the end it
\* comes to a failed ASSERT.
ValidChar(b, i) ==
    LogicalLookup(b, i).found \/ LogicalLookup(b, i).chars = i

\* The position of the i-th character in the text, the gap excluded.
LogicalIdx(b, i) == LogicalLookup(b, i).logical

\* One turn of a loop of the lookup with the gap, which keeps the offset at
\* which it returns.
ByteTurn(b, i, s, byte_idx) ==
    IF s.found \/ b.text[byte_idx] \in Cont THEN s
    ELSE IF s.chars = i THEN [byte_idx |-> byte_idx, chars |-> i, found |-> TRUE]
    ELSE [s EXCEPT !.chars = @ + 1]

ByteLoop(b, i, s, from, to) ==
    LET after[n \in 0..(to - from)] ==
            IF n = 0 THEN s ELSE ByteTurn(b, i, after[n - 1], from + n - 1)
    IN  after[to - from]

\* The offset of the i-th character, the gap included; the loops end at the
\* offset of the terminator.
ByteIdx(b, i) ==
    LET end   == MaxText(b.size)
        front == ByteLoop(b, i, [byte_idx |-> end, chars |-> 0, found |-> FALSE],
                          0, b.gap_start)
    IN  ByteLoop(b, i, front, b.gap_end, end).byte_idx

-----------------------------------------------------------------------------
(* What the operations make of a buffer *)

\* A new mapping with an empty text.
Blank(size) ==
    [size      |-> size,
     gap_start |-> 0,
     gap_end   |-> MaxText(size),
     text      |-> [p \in 0..MaxText(size) |-> NUL]]

\* A mistake: the text is put at the end of the mapping, over the terminator.
FilledToTheEnd(size, s) ==
    [Blank(size) EXCEPT
        !.gap_end = MaxText(size) - Len(s),
        !.text    = [p \in 0..MaxText(size) |->
                        IF p > MaxText(size) - Len(s)
                        THEN s[p - MaxText(size) + Len(s)] ELSE NUL]]

\* A new mapping with s behind the gap; only the header is zeroed, so the
\* bytes that fread does not fill, the terminator's too, are those of mmap.
Filled(size, s) ==
    LET gap_end == MaxText(size) - Len(s)
    IN  [size      |-> size,
         gap_start |-> 0,
         gap_end   |-> gap_end,
         text      |-> [p \in 0..MaxText(size) |->
                           IF p \in gap_end..MaxText(size) - 1
                           THEN s[p - gap_end + 1]
                           ELSE FreshByte]]

\* Two mistakes: the end of the text is missed by one; no bytes are moved.
MoveGapPastEnd(b, g) ==
    LET to == IF g > TextLen(b) + 1 THEN TextLen(b) ELSE g
    IN  [b EXCEPT !.gap_start = to, !.gap_end = to + Gap(b)]

MoveGapWithoutBytes(b, g) ==
    LET to == IF g > TextLen(b) THEN TextLen(b) ELSE g
    IN  [b EXCEPT !.gap_start = to, !.gap_end = to + Gap(b)]

\* The gap moves to position g, or to the end of the text if g lies beyond:
\* the bytes between the two positions change sides.
MoveGap(b, g) ==
    LET to == IF g > TextLen(b) THEN TextLen(b) ELSE g
    IN  [b EXCEPT
            !.gap_start = to,
            !.gap_end   = to + Gap(b),
            !.text      = [p \in DOMAIN b.text |->
                IF p \in (to + Gap(b))..(b.gap_end - 1) THEN b.text[p - Gap(b)]
                ELSE IF p \in b.gap_start..(to - 1)     THEN b.text[p + Gap(b)]
                ELSE b.text[p]]]

\* The bytes of s enter the gap at its start.
Store(b, s) ==
    [b EXCEPT
        !.gap_start = @ + Len(s),
        !.text      = [p \in DOMAIN b.text |->
            IF p \in b.gap_start..(b.gap_start + Len(s) - 1)
            THEN s[p - b.gap_start + 1]
            ELSE b.text[p]]]

\* A mistake: the tail stays where it was.
GrowLeavingTail(b) ==
    LET size == b.size + PageSize
    IN  [Blank(size) EXCEPT
            !.gap_start = b.gap_start,
            !.gap_end   = b.gap_end + PageSize,
            !.text      = [p \in 0..MaxText(size) |->
                IF p <= MaxText(b.size) THEN b.text[p] ELSE FreshByte]]

\* The copy in a mapping one page larger, with the tail moved to its end.
Grow(b) ==
    LET size    == b.size + PageSize
        gap_end == b.gap_end + PageSize
    IN  [size      |-> size,
         gap_start |-> b.gap_start,
         gap_end   |-> gap_end,
         text      |-> [p \in 0..MaxText(size) |->
             IF p \in gap_end..(MaxText(size) - 1) THEN b.text[p - PageSize]
             ELSE IF p <= MaxText(b.size)          THEN b.text[p]
             ELSE FreshByte]]

\* The gap takes back the bytes from offset p to its start.
CutBack(b, p) == [b EXCEPT !.gap_start = p]

\* Where buffer_delete_utf8_char stops: the last character before the gap
\* starts at one of these offsets.  With none it runs below the text.
StartsBefore(b) == {p \in CharStarts(b) : p < b.gap_start}

LastStart(b) ==
    CHOOSE p \in StartsBefore(b) : \A q \in StartsBefore(b) : q <= p

=============================================================================
