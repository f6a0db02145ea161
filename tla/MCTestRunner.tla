---------------------------- MODULE MCTestRunner ----------------------------
(***************************************************************************)
(* Instances of TestRunner for TLC.                                        *)
(***************************************************************************)
EXTENDS TestRunner, TLC

\* A case that passes and one that does not, and two groups of one case.
MCCases == (0 :> <<TRUE>>) @@ (1 :> <<TRUE, FALSE>>) @@ (2 :> <<FALSE>>)

=============================================================================
