\* Two replicas that crash and lose releases, under fairness; evaluations end
\* before the lease expires.
SPECIFICATION LiveSpec
CONSTANTS
    r1 = r1  r2 = r2
    Replicas = {r1, r2}
    Nobody = Nobody
    LeaseDuration = 3  MaxEvaluation = 2
INVARIANTS TypeOK MutualExclusion EvaluatorHoldsLease
PROPERTY EvaluationsKeepHappening
