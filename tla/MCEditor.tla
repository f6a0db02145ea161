------------------------------ MODULE MCEditor ------------------------------
(***************************************************************************)
(* An instance of Editor for TLC: "L" "c" is a character of two bytes, "n" *)
(* ends a row and "t" is a tab, two columns wide.                          *)
(***************************************************************************)
EXTENDS Editor

MCBytes == {"nul", "L", "c", "n", "t"}

MCInputs == {<<"L", "c">>, <<"n">>, <<"t">>}

MCNoFiles == {<<>>}

=============================================================================
