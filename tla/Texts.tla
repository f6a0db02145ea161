-------------------------------- MODULE Texts --------------------------------
(***************************************************************************)
(* What an edit makes of a text, a sequence of bytes.                      *)
(***************************************************************************)
EXTENDS Naturals, Sequences

\* s with t put in after its first k bytes.
Splice(s, k, t) ==
    [i \in 1..(Len(s) + Len(t)) |->
        IF i <= k THEN s[i]
        ELSE IF i <= k + Len(t) THEN t[i - k]
        ELSE s[i - Len(t)]]

\* s without its bytes j+1..k.
Cut(s, j, k) ==
    [i \in 1..(Len(s) - (k - j)) |-> IF i <= j THEN s[i] ELSE s[i + (k - j)]]

\* Writing t over the start of s leaves what s has beyond it.
Overlay(s, t) ==
    [i \in 1..(IF Len(t) > Len(s) THEN Len(t) ELSE Len(s)) |->
        IF i <= Len(t) THEN t[i] ELSE s[i]]

=============================================================================
