\* Three workloads that may need two resources each, one evaluation.
SPECIFICATION Spec
CONSTANTS
    w1 = w1  w2 = w2  w3 = w3
    Workloads = {w1, w2, w3}
    Resources = {gpu, partition}
    None = None
    Grace = 1  Ttl = 1  MaxAge = 2
    AlwaysPolicy = {}
    Created <- MCCreated
    MaxGpus = 1  MaxRounds = 1
INVARIANT NoPointlessEviction
CHECK_DEADLOCK FALSE
