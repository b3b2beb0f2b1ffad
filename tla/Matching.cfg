\* Three workloads that may need two resources each, two evaluations.
SPECIFICATION Spec
CONSTANTS
    w1 = w1  w2 = w2  w3 = w3
    Workloads = {w1, w2, w3}
    Resources = {gpu, partition}
    None = None
    Grace = 1  Ttl = 1  MaxAge = 2
    AlwaysPolicy = {w1}
    Created <- MCCreated
    MaxGpus = 2  MaxRounds = 2
INVARIANTS TypeOK FitCheck NoDoubleClaim NoNeglect LongestIdleFirst OldestPendingFirst
PROPERTY RepeatMarksNothing
CHECK_DEADLOCK FALSE
