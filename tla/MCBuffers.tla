------------------------------ MODULE MCBuffers ------------------------------
(***************************************************************************)
(* Instances of Buffers for TLC.  "a" stands for an ASCII character,       *)
(* "L" for the lead byte and "c" for the continuation byte of a two-byte   *)
(* character.                                                              *)
(***************************************************************************)
EXTENDS Buffers

MCBytes == {"nul", "a", "L", "c"}

MCInputs == {<<>>, <<"L", "c">>}

\* A file that starts inside a character, and one that does not fit a page.
MCFiles == {<<"c", "a">>, <<"a", "L", "c", "a", "a">>}

\* Files of whole characters, one of which is cut when it is loaded.
MCWholeFiles == {<<"L", "c">>, <<"a", "a", "a">>, <<"a", "L", "c", "a", "a">>}

MCEmptyFile == {<<>>}

=============================================================================
