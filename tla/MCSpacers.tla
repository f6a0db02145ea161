----------------------------- MODULE MCSpacers ------------------------------
(***************************************************************************)
(* Every text of up to three characters in a file, and two of four; a      *)
(* second file that needs a change; command lines that write, check, and   *)
(* are not understood.                                                     *)
(***************************************************************************)
EXTENDS Spacers

McBytes == {"x", "y", Space, Tab, Newline}

McTexts ==
    UNION {[1..n -> McBytes] : n \in 0..3}
        \cup {<<"x", Space, Newline, "y">>, <<"x", Newline, Newline, Newline>>}

McStarts == {[a |-> text, b |-> <<"y", Space>>] : text \in McTexts}

McCommands == {<<"a">>, <<"a", "b">>, <<"a", "-c">>, <<"a", "-x">>}

=============================================================================
