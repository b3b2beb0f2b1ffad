\* One replica under fairness; the Always-policy w2 cannot be deleted.
SPECIFICATION LiveSpec
CONSTANTS
    w1 = w1  w2 = w2  w3 = w3  r1 = r1  r2 = r2  gpu = gpu
    Workloads = {w2}
    Resources = {gpu}
    None = None
    Grace = 1  Ttl = 1  MaxAge = 1
    AlwaysPolicy = {w2}
    Created <- MCCreated
    Replicas = {r1}
    Nobody = Nobody
    LeaseDuration = 1
    OnePod <- MCOnePod
    Total <- MCOnePod
    PodStates <- MCFixedPods
    Vanishing = {}
    Reused = {}
    Undeletable = {w2}
    Decisions <- Plans
    MaxLag = 1
    MaxFaults = 0
PROPERTY UndeletableIsLeftAlone
