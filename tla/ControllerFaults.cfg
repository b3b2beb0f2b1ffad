\* One replica; w1 waits for GPUs or runs, and is Always-policy and undeletable;
\* the owner of w2 is recreated under its name; one fault.
SPECIFICATION Spec
CONSTANTS
    w1 = w1  w2 = w2  w3 = w3  r1 = r1  r2 = r2  gpu = gpu
    Workloads = {w1, w2}
    Resources = {gpu}
    None = None
    Grace = 1  Ttl = 1  MaxAge = 1
    AlwaysPolicy = {w1}
    Created <- MCCreated
    Replicas = {r1}
    Nobody = Nobody
    LeaseDuration = 1
    OnePod <- MCOnePod
    Total <- MCTwoPods
    PodStates <- MCWaitOrRun
    Vanishing = {}
    Reused = {w2}
    Undeletable = {w1}
    Decisions <- Plans
    MaxLag = 2
    MaxFaults = 1
INVARIANTS TypeOK StatusWellFormed TerminalMeansOwnerGone
PROPERTIES GraceRespected OnlyMarkedOwnersDeleted FollowsLifecycle
