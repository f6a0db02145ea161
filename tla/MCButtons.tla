----------------------------- MODULE MCButtons -----------------------------
(***************************************************************************)
(* Instances of Buttons for TLC: two boxes that share an edge.             *)
(***************************************************************************)
EXTENDS Buttons

MCBoxes == {[x |-> 0, y |-> 0, w |-> 1, h |-> 1], [x |-> 1, y |-> 0, w |-> 1, h |-> 1]}

MCPoints == {[x |-> 0, y |-> 1], [x |-> 1, y |-> 0], [x |-> 3, y |-> 0]}

=============================================================================
