------------------------ MODULE GpuWorkloadLifecycle ------------------------
(***************************************************************************)
(* What the GPU preemption controller promises of each CR: the life cycle  *)
(* its phases document. No replicas, caches, copies or calls; each CR      *)
(* moves from phase to phase in one step, with its root owner in view.     *)
(***************************************************************************)
CONSTANTS
    Workloads,   \* the tracked root owners
    Undeletable  \* those the operator may not delete

VARIABLES
    phase,   \* of each CR; "Absent" once it has been removed
    exists   \* whether each tracked root owner still exists

vars == <<phase, exists>>

Live == {"New", "PendingOther", "PendingGpu", "Active", "Idle"}
Terminal == {"Preempted", "Deleted"}

Init ==
    /\ phase \in [Workloads -> {"New", "PendingOther"}]
    /\ exists = [w \in Workloads |-> TRUE]

Move(w, to) == phase' = [phase EXCEPT ![w] = to]

\* The phase follows the pods and their utilization while the owner is tracked.
Observe(w) ==
    /\ phase[w] \in Live
    /\ \E to \in Live \ {"New"} : Move(w, to)
    /\ UNCHANGED exists

\* The workload is selected for preemption.
Select(w) == phase[w] = "Idle" /\ Move(w, "Preempting") /\ UNCHANGED exists

\* It cannot be deleted, and is observed again.
Reprieve(w) ==
    /\ phase[w] = "Preempting" /\ w \in Undeletable
    /\ Move(w, "Idle")
    /\ UNCHANGED exists

\* The root owner was deleted by the preemption system.
FinishPreemption(w) ==
    /\ phase[w] = "Preempting" /\ ~exists[w]
    /\ Move(w, "Preempted")
    /\ UNCHANGED exists

\* The root owner disappeared on its own.
NoticeDeletion(w) ==
    /\ phase[w] \in Live /\ ~exists[w]
    /\ Move(w, "Deleted")
    /\ UNCHANGED exists

\* The CR has been retained for its TTL.
Remove(w) == phase[w] \in Terminal /\ Move(w, "Absent") /\ UNCHANGED exists

\* The root owner is deleted, by whomever, and never comes back.
Disappear(w) ==
    /\ exists[w]
    /\ exists' = [exists EXCEPT ![w] = FALSE]
    /\ UNCHANGED phase

Next == \E w \in Workloads :
    \/ Observe(w) \/ Select(w) \/ Reprieve(w) \/ FinishPreemption(w)
    \/ NoticeDeletion(w) \/ Remove(w) \/ Disappear(w)

Spec == Init /\ [][Next]_vars

=============================================================================
