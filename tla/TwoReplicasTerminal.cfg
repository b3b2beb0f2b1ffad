\* Two replicas.
SPECIFICATION Spec
CONSTANTS
    w1 = w1  w2 = w2  w3 = w3  r1 = r1  r2 = r2  gpu = gpu
    Workloads = {w2}
    Resources = {gpu}
    None = None
    Grace = 1  Ttl = 1  MaxAge = 1
    AlwaysPolicy = {}
    Created <- MCCreated
    Replicas = {r1, r2}
    Nobody = Nobody
    LeaseDuration = 1
    OnePod <- MCOnePod
    Total <- MCTwoPods
    PodStates <- MCFixedPods
    Vanishing = {w2}
    Reused = {}
    Undeletable = {}
    Decisions <- Plans
    MaxLag = 2
    MaxFaults = 0
PROPERTY TerminalIsFinal
