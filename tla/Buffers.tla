------------------------------- MODULE Buffers -------------------------------
(***************************************************************************)
(* The table of gap buffers of src/src/posix/buffers.c and every function  *)
(* of internal.h that changes it, called by one thread in any order.       *)
(*                                                                         *)
(* A call that stores outside the memory it owns is recorded in stray with *)
(* its cause.  What the store does to the process is in proc: it may go    *)
(* on, fault, or go on with a header or a text that no longer means        *)
(* anything; the model follows a process only as long as it runs with the  *)
(* memory it should have.  Calls that are refused (no free slot, a size of *)
(* 0, a failed mmap) return NOT_FOUND or ERR and change nothing.           *)
(***************************************************************************)
EXTENDS GapBuffer

CONSTANTS
    MaxBuffers,     \* MAX_BUFFERS
    BlankSizes,     \* the sizes asked of buffer_create_blank
    FileTexts,      \* the files a caller may have at the start
    Inputs,         \* the strings given to buffer_insert_utf8
    Asciis,         \* the bytes given to buffer_insert_ascii_char
    ByteLevel,      \* TRUE: callers also move and delete by single bytes
    MmapOutcomes,   \* what mmap may do: TRUE succeed, FALSE fail
    MaxFile         \* bound: the longest file that a save leaves

ASSUME InputAssumption ==
    /\ MaxBuffers \in Nat
    /\ MaxFile \in Nat
    /\ BlankSizes \subseteq Nat
    /\ FileTexts \subseteq Seq(Bytes)
    /\ Inputs \subseteq Seq(Bytes)
    /\ Asciis \subseteq Bytes \ Cont
    /\ ByteLevel \in BOOLEAN
    /\ MmapOutcomes \subseteq BOOLEAN

VARIABLES
    buffers,    \* slot -> a gap buffer, or NoBuffer
    file,       \* the file that is loaded from and saved to
    proc,       \* "running"; "segv": killed by a fault; "abort": by ASSERT;
                \* "corrupt": runs on with a header or text overwritten
    stray       \* the causes of the stores outside the memory owned so far

vars == <<buffers, file, proc, stray>>

Slots == 0..(MaxBuffers - 1)

NoBuffer == [size |-> 0]

Open == {id \in Slots : buffers[id] # NoBuffer}

Procs == {"running", "segv", "abort", "corrupt"}

Causes == {"terminator", "stale", "overrun", "underflow", "header"}

TypeOK ==
    /\ DOMAIN buffers = Slots
    /\ \A id \in Open : IsGapBuffer(buffers[id])
    /\ file \in Seq(Bytes)
    /\ proc \in Procs
    /\ stray \subseteq Causes

-----------------------------------------------------------------------------

Init ==
    /\ buffers = [id \in Slots |-> NoBuffer]
    /\ file \in FileTexts
    /\ proc = "running"
    /\ stray = {}

\* Slot id holds b from now on; nothing else happens.
Put(id, b) ==
    /\ buffers' = [buffers EXCEPT ![id] = b]
    /\ UNCHANGED <<file, proc, stray>>

\* The process ends, or goes on in a way the model does not follow.
Fail(outcome, causes) ==
    /\ proc' = outcome
    /\ stray' = stray \cup causes
    /\ UNCHANGED <<buffers, file>>

\* A mistake: a slot is taken for free without a look at it.
AnySlot(id) == id \in Slots

\* next_empty_buffer: the lowest free slot.
IsNextEmpty(id) ==
    /\ id \in Slots \ Open
    /\ \A k \in 0..(id - 1) : k \in Open

-----------------------------------------------------------------------------
(* Creating and destroying *)

CreateBlank(id, n) ==
    /\ IsNextEmpty(id)
    /\ TRUE \in MmapOutcomes
    /\ RoundUp(n) \in Sizes
    /\ Put(id, Blank(RoundUp(n)))

\* The mapping is sized for the first bytes of the file, which is as long as
\* it was when first measured; by the second measure it may be longer.  The
\* text is cut only if it is longer than the whole mapping.  One that is not,
\* and does not fit in front of the terminator, starts inside the header.
CreateFromFile(id, first) ==
    LET size   == RoundUp(first)
        length == IF Len(file) > size THEN MaxText(size) ELSE Len(file)
    IN  /\ IsNextEmpty(id)
        /\ TRUE \in MmapOutcomes
        /\ size \in Sizes
        /\ \/ /\ length <= MaxText(size)
              /\ Put(id, Filled(size, SubSeq(file, 1, length)))
           \/ /\ length > MaxText(size)
              /\ \E outcome \in {"corrupt", "segv"} : Fail(outcome, {"header"})

Destroy(id) ==
    /\ id \in Open
    /\ Put(id, NoBuffer)

BuffersFree ==
    /\ buffers' = [id \in Slots |-> NoBuffer]
    /\ UNCHANGED <<file, proc, stray>>

-----------------------------------------------------------------------------
(* Inserting *)

\* Room for the larger mapping, within the bound.
CanGrow(b) ==
    /\ TRUE \in MmapOutcomes
    /\ b.size + PageSize \in Sizes

\* A full gap is grown first.  The expansion stores its '\0' behind the end
\* of the new mapping: that faults, or hits what is mapped there.  If it
\* cannot map, the byte is stored all the same, over the text.
InsertAscii(id, c) ==
    LET b == buffers[id]
    IN  /\ id \in Open
        /\ \/ /\ Gap(b) > 0
              /\ Put(id, Store(b, <<c>>))
           \/ /\ Gap(b) = 0
              /\ CanGrow(b)
              /\ \/ Fail("segv", {"terminator"})
                 \/ /\ buffers' = [buffers EXCEPT ![id] = Store(Grow(b), <<c>>)]
                    /\ stray' = stray \cup {"terminator"}
                    /\ UNCHANGED <<file, proc>>
           \/ /\ Gap(b) = 0
              /\ FALSE \in MmapOutcomes
              /\ Fail("corrupt", {"overrun"})

\* A mistake: a string that just fits is stored, and leaves no gap.
FillsBeyond(b, s) == Len(s) > Gap(b)

\* A gap that the string would fill is grown first.
Fills(b, s) == Len(s) >= Gap(b)

\* If the gap is grown, the bytes go to the buffer as it was looked up before,
\* which the expansion has unmapped; only an empty string stores nothing.
InsertUtf8(id, s) ==
    LET b == buffers[id]
        full == Fills(b, s)
    IN  /\ id \in Open
        /\ \/ /\ ~full
              /\ Put(id, Store(b, s))
           \/ /\ full
              /\ CanGrow(b)
              /\ \/ Fail("segv", {"terminator"})
                 \/ /\ s = <<>>
                    /\ buffers' = [buffers EXCEPT ![id] = Grow(b)]
                    /\ stray' = stray \cup {"terminator"}
                    /\ UNCHANGED <<file, proc>>
                 \/ /\ s # <<>>
                    /\ Fail("segv", {"terminator", "stale"})
           \/ /\ full
              /\ FALSE \in MmapOutcomes
              /\ \/ /\ Len(s) = Gap(b)
                    /\ Put(id, Store(b, s))
                 \/ /\ Len(s) > Gap(b)
                    /\ Fail("corrupt", {"overrun"})

-----------------------------------------------------------------------------
(* Deleting *)

DeleteAscii(id) ==
    LET b == buffers[id]
    IN  /\ id \in Open
        /\ b.gap_start # 0
        /\ Put(id, CutBack(b, b.gap_start - 1))

\* With nothing but continuation bytes before the gap the search for the
\* start of the character leaves the text, and gap_start wraps.
DeleteUtf8(id) ==
    LET b == buffers[id]
    IN  /\ id \in Open
        /\ b.gap_start # 0
        /\ \/ /\ StartsBefore(b) # {}
              /\ Put(id, CutBack(b, LastStart(b)))
           \/ /\ StartsBefore(b) = {}
              /\ Fail("corrupt", {"underflow"})

-----------------------------------------------------------------------------
(* Moving the gap and saving *)

Move(id, g) ==
    /\ id \in Open
    /\ Put(id, MoveGap(buffers[id], g))

MoveToUtf8Idx(id, i) ==
    LET b == buffers[id]
    IN  /\ id \in Open
        /\ \/ /\ ValidChar(b, i)
              /\ Put(id, MoveGap(b, LogicalIdx(b, i)))
           \/ /\ ~ValidChar(b, i)
              /\ Fail("abort", {})

\* fwrite puts n bytes of the text at the start of the file: all of them, or
\* fewer with ERR.  What the file held beyond them stays.
SaveToFile(id, n) ==
    LET b == buffers[id]
        written == SubSeq(Content(b), 1, n)
    IN  /\ id \in Open
        /\ n <= MaxFile
        /\ file' = written \o SubSeq(file, n + 1, Len(file))
        /\ UNCHANGED <<buffers, proc, stray>>

-----------------------------------------------------------------------------

Create(id) ==
    \/ \E n \in BlankSizes : CreateBlank(id, n)
    \/ \E first \in 0..Len(file) : CreateFromFile(id, first)

Edit(id) ==
    \/ \E c \in Asciis : InsertAscii(id, c)
    \/ \E s \in Inputs : InsertUtf8(id, s)
    \/ DeleteUtf8(id)
    \/ ByteLevel /\ DeleteAscii(id)

\* An argument one past the last valid one stands for all beyond it.
Use(id) ==
    \/ /\ ByteLevel
       /\ id \in Open
       /\ \E g \in 0..(TextLen(buffers[id]) + 1) : Move(id, g)
    \/ /\ id \in Open
       /\ \E i \in 0..(Cardinality(CharStarts(buffers[id])) + 1) :
             MoveToUtf8Idx(id, i)
    \/ /\ id \in Open
       /\ \E n \in 0..TextLen(buffers[id]) : SaveToFile(id, n)

Next ==
    /\ proc = "running"
    /\ \/ BuffersFree
       \/ \E id \in Slots : Create(id) \/ Destroy(id) \/ Edit(id) \/ Use(id)

Spec == Init /\ [][Next]_vars

-----------------------------------------------------------------------------
(* What the table promises *)

\* The gap of each buffer keeps within its text area and the byte at
\* BUFFER_MAX_TEXT_BYTES_LENGTH stays the null terminator that the macro
\* leaves room for (internal.h:87), whatever the calls move, insert, delete
\* or reallocate.
NulTerminated ==
    \A id \in Open : buffers[id].text[MaxText(buffers[id].size)] = NUL

\* The text with a point that a slot stands for.
DocOf(b) ==
    IF b = NoBuffer
    THEN [text |-> <<>>, point |-> 0, open |-> FALSE]
    ELSE [text |-> Content(b), point |-> b.gap_start, open |-> TRUE]

Doc == INSTANCE Document WITH
    Inputs <- Inputs \cup {<<c>> : c \in Asciis},
    docs   <- [id \in Slots |-> DocOf(buffers[id])],
    up     <- proc = "running"

\* Every call on a buffer is, to its caller, one edit of a plain text with a
\* point: moving the gap and moving to a larger mapping change no text, and
\* no call changes another slot.
DocumentSpec == Doc!Spec

\* Two loops of their own look up a character, one without the gap and one
\* with it.  Up to the number of characters, and no further, both come to the
\* character with as many before it, each on its own side of the count.
CharIndexAgrees ==
    \A id \in Open :
        LET b == buffers[id]
            n == Cardinality(CharStarts(b))
        IN  /\ \A i \in 0..n :
                  /\ ValidChar(b, i)
                  /\ Doc!IsCharIndex(Content(b), i, LogicalIdx(b, i))
                  /\ ByteIdx(b, i) \in CharStarts(b) \cup {MaxText(b.size)}
                  /\ Logical(b, ByteIdx(b, i)) = LogicalIdx(b, i)
            /\ ~ValidChar(b, n + 1)

\* Callers like the editor: they go by characters, insert whole characters,
\* load files that start with one, and are never refused memory.
CharCallers ==
    /\ ~ByteLevel
    /\ FALSE \notin MmapOutcomes
    /\ \A s \in Inputs : s # <<>> => s[1] \notin Cont
    /\ \A f \in FileTexts : f # <<>> => f[1] \notin Cont

\* The gap stands between two characters and the text starts with one.
OnCharBoundary(b) ==
    /\ b.gap_end < MaxText(b.size) => b.text[b.gap_end] \notin Cont
    /\ b.gap_start > 0 => b.text[0] \notin Cont

\* CharCallers keep every gap between two characters, even
\* if a file was cut inside one when it was loaded or saved.
OnCharBoundaries == \A id \in Open : OnCharBoundary(buffers[id])

\* So their deletions never run below a text (buffers.c:395): given memory,
\* the one thing that overwrites what a buffer needs is a file that does not
\* fit the mapping made for it.
CorruptOnlyByFile == proc = "corrupt" => "header" \in stray

\* buffer_insert_utf8 "may update global buffers and reallocate"
\* (internal.h:128): having done so it stores to the new mapping.
NoStaleStore == "stale" \notin stray

=============================================================================
