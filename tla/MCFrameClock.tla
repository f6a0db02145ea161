---------------------------- MODULE MCFrameClock ----------------------------
(***************************************************************************)
(* An instance of FrameClock for TLC, with seconds of ten nanoseconds.     *)
(***************************************************************************)
EXTENDS FrameClock

MCDelay == [s |-> 0, ns |-> 7]

=============================================================================
