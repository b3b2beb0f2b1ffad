------------------------- MODULE EvaluationLeaseMC -------------------------
(* Instances of the evaluation lease for TLC. *)
EXTENDS EvaluationLease

CONSTANTS r1, r2

=============================================================================
