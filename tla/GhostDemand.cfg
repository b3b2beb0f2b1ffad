\* One replica; the owner of the pending workload is deleted.
SPECIFICATION Spec
CONSTANTS
    w1 = w1  w2 = w2  w3 = w3  r1 = r1  r2 = r2  gpu = gpu
    Workloads = {w1, w2}
    Resources = {gpu}
    None = None
    Grace = 1  Ttl = 1  MaxAge = 1
    AlwaysPolicy = {}
    Created <- MCCreated
    Replicas = {r1}
    Nobody = Nobody
    LeaseDuration = 1
    OnePod <- MCOnePod
    Total <- MCOnePod
    PodStates <- MCFixedPods
    Vanishing = {w1}
    Reused = {}
    Undeletable = {}
    Decisions <- Plans
    MaxLag = 2
    MaxFaults = 0
PROPERTY PressureIsReal
