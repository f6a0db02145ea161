------------------------------ MODULE Document ------------------------------
(***************************************************************************)
(* What src/src/posix/buffers.c promises its callers: a table of texts,    *)
(* each a sequence of bytes with a point at which bytes are inserted and   *)
(* before which they are erased, and a file.  Nothing here knows of gaps,  *)
(* pages or terminators.  The process may stop at any time.                *)
(***************************************************************************)
EXTENDS Naturals, Sequences, FiniteSets, Texts

CONSTANTS
    Slots,      \* the indices of the table
    Bytes,      \* the values of a byte
    Cont,       \* the UTF-8 continuation bytes among them
    Inputs      \* the byte sequences that a caller may insert

VARIABLES
    docs,       \* slot -> [text, point], or Closed
    file,       \* the bytes of the file
    up          \* the process runs, with its memory intact

vars == <<docs, file, up>>

-----------------------------------------------------------------------------

Closed == [text |-> <<>>, point |-> 0, open |-> FALSE]

Doc(s, k) == [text |-> s, point |-> k, open |-> TRUE]

OpenSlots == {d \in Slots : docs[d].open}

\* The positions of the text at which a character starts.
Starts(s) == {k \in 0..(Len(s) - 1) : s[k + 1] \notin Cont}

\* Position k is where the i-th character of s starts, or where one would be
\* added after the last.
IsCharIndex(s, i, k) ==
    /\ k \in Starts(s) \cup {Len(s)}
    /\ Cardinality({j \in Starts(s) : j < k}) = i

-----------------------------------------------------------------------------

Init ==
    /\ docs = [d \in Slots |-> Closed]
    /\ file \in Seq(Bytes)
    /\ up = TRUE

Set(d, doc) ==
    /\ docs' = [docs EXCEPT ![d] = doc]
    /\ UNCHANGED <<file, up>>

Create(d) ==
    /\ d \notin OpenSlots
    /\ Set(d, Doc(<<>>, 0))

\* The file's text, or as much of its start as the process found room for.
Load(d) ==
    /\ d \notin OpenSlots
    /\ \E n \in 0..Len(file) :
          Set(d, Doc([i \in 1..n |-> file[i]], 0))

Close(d) ==
    /\ d \in OpenSlots
    /\ Set(d, Closed)

CloseAll ==
    /\ docs' = [d \in Slots |-> Closed]
    /\ UNCHANGED <<file, up>>

Insert(d) ==
    /\ d \in OpenSlots
    /\ \E t \in Inputs :
          Set(d, Doc(Splice(docs[d].text, docs[d].point, t),
                     docs[d].point + Len(t)))

\* The byte before the point goes.
EraseByte(d) ==
    /\ d \in OpenSlots
    /\ docs[d].point > 0
    /\ Set(d, Doc(Cut(docs[d].text, docs[d].point - 1, docs[d].point),
                  docs[d].point - 1))

\* The character before the point goes: the bytes from the last place before
\* the point at which a character starts.
EraseChar(d) ==
    /\ d \in OpenSlots
    /\ \E j \in Starts(docs[d].text) :
          /\ j < docs[d].point
          /\ \A k \in Starts(docs[d].text) : k < docs[d].point => k <= j
          /\ Set(d, Doc(Cut(docs[d].text, j, docs[d].point), j))

MoveTo(d) ==
    /\ d \in OpenSlots
    /\ \E k \in 0..Len(docs[d].text) : Set(d, Doc(docs[d].text, k))

\* The file gets the text, or what could be written of it.
Save(d) ==
    /\ d \in OpenSlots
    /\ \E n \in 0..Len(docs[d].text) :
          file' = Overlay(file, [i \in 1..n |-> docs[d].text[i]])
    /\ UNCHANGED <<docs, up>>

Halt ==
    /\ up' = FALSE
    /\ UNCHANGED <<docs, file>>

Next ==
    \/ CloseAll
    \/ Halt
    \/ \E d \in Slots :
          \/ Create(d) \/ Load(d) \/ Close(d)
          \/ Insert(d) \/ EraseByte(d) \/ EraseChar(d)
          \/ MoveTo(d) \/ Save(d)

Spec == Init /\ [][up /\ Next]_vars

=============================================================================
