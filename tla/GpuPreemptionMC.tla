-------------------------- MODULE GpuPreemptionMC --------------------------
(* Instances of the GPU preemption controller for TLC. *)
EXTENDS GpuPreemption

CONSTANTS w1, w2, w3, r1, r2, gpu

One == [res \in Resources |-> 1]
Two == [res \in Resources |-> 2]

\* CRs are created in the order of the names.
MCCreated == [w \in Workloads |-> IF w = w1 THEN 1 ELSE IF w = w2 THEN 2 ELSE 3]

\* One pod with one GPU each.
MCOnePod == [w \in Workloads |-> One]

\* w2 turns out to have two pods.
MCTwoPods == [w \in Workloads |-> IF w = w2 THEN Two ELSE One]

\* w1 asks for the GPUs of two other workloads.
MCPendingTwo == [w \in Workloads |-> IF w = w1 THEN Two ELSE One]

\* w1 waits for GPUs and may get them, the other workloads only ever run.
MCWaitOrRun ==
    [w \in Workloads |-> IF w = w1 THEN {"pendingGpu", "running"}
                                   ELSE {"running"}]

\* w1 only ever waits, the other workloads only ever run.
MCFixedPods ==
    [w \in Workloads |-> IF w = w1 THEN {"pendingGpu"} ELSE {"running"}]

=============================================================================
