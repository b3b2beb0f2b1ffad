----------------------- MODULE PreemptionEvaluationMC -----------------------
(* Instances of the preemption decision for TLC. *)
EXTENDS PreemptionEvaluation

CONSTANTS w1, w2, w3

\* Creation order, with all CRs but the first created in the same second.
MCCreated == [w \in Workloads |-> IF w = w1 THEN 1 ELSE 2]

=============================================================================
