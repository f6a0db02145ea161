------------------------------ MODULE MCInputs ------------------------------
(***************************************************************************)
(* Instances of Inputs for TLC: a letter, Ctrl, an arrow, Backspace and    *)
(* "=", the keys that the program treats in different ways.                *)
(***************************************************************************)
EXTENDS Inputs

MCKeysymOf ==
    [k \in Keys |->
        CASE k = "ctrl"      -> "CTRL_LEFT"
          [] k = "up"        -> "ARROW_UP"
          [] k = "backspace" -> "BACKSPACE"
          [] k = "="         -> "EQUAL"
          [] OTHER           -> "NOT_FOUND"]

MCTextOf == [k \in Keys |-> IF k \in {"ctrl", "up"} THEN "" ELSE k]

=============================================================================
