\* Two replicas; an evaluation may outlast the lease.
SPECIFICATION Spec
CONSTANTS
    r1 = r1  r2 = r2
    Replicas = {r1, r2}
    Nobody = Nobody
    LeaseDuration = 3  MaxEvaluation = 3
INVARIANT MutualExclusion
