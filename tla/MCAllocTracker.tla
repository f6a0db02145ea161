-------------------------- MODULE MCAllocTracker ----------------------------
(***************************************************************************)
(* The tracker with two threads, three addresses and a table of three      *)
(* slots: small enough to fill, large enough for a block that is moved     *)
(* twice.                                                                  *)
(***************************************************************************)
EXTENDS AllocTracker, TLC

Symmetry == Permutations(Threads) \cup Permutations(Addresses)
=============================================================================
