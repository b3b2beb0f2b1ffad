--------------------------- MODULE GpuPreemption ---------------------------
(***************************************************************************)
(* The controller with the decisions its evaluations really make:          *)
(* Decisions of GpuWorkloadController is Plans of PreemptionMatching. The  *)
(* properties are those that relate marks to what pending workloads need.  *)
(***************************************************************************)
EXTENDS GpuWorkloadController, PreemptionMatching

\* GPUs of the victims that are still Preempting for p.
MarkedFor(p, res) ==
    GpuSum(gw, res, {w \in Workloads : gw[w].phase = "Preempting"
                                       /\ gw[w].preemptedFor = p})

\* The step marks v for p.
Marks(v, p) ==
    /\ gw[v].phase = "Idle"
    /\ gw'[v].phase = "Preempting" /\ gw'[v].preemptedFor = p

\* Workloads that an evaluation has still to mark for p and that are Idle.
ToBeMarked(p) ==
    {v \in Workloads : gw[v].phase = "Idle"
       /\ \E r \in Replicas : \E i \in DOMAIN plan[r] :
             plan[r][i].victim = v /\ plan[r][i].for = p}

\* All or nothing: a workload is marked for a pending one only as part of a set
\* that covers what the pending one asks for of some resource, counting those
\* marked for it earlier and those its evaluation goes on to mark.
AllOrNothing ==
    [][\A v, p \in Workloads :
         Marks(v, p)
           => \E res \in Resources :
                 MarkedFor(p, res) + GpuSum(gw, res, ToBeMarked(p))
                   >= gw[p].gpus[res]]_vars

\* inFlight, across evaluation cycles: a workload is marked for a pending one
\* only while the victims that are still Preempting for it do not cover what it
\* asks for of some resource.
InFlightCounts ==
    [][\A v, p \in Workloads :
         Marks(v, p)
           => \E res \in Resources : MarkedFor(p, res) < gw[p].gpus[res]]_vars

\* GPUs of the victims that were deleted for p and whose pods have not
\* terminated yet.
Terminating(p, res) ==
    GpuSum(gw, res, {w \in Workloads : gw[w].phase = "Preempted"
                                       /\ gw[w].preemptedFor = p
                                       /\ pods[w] # "none"})

\* No over-preemption across evaluation cycles: a workload is marked for a
\* pending one only while the capacity that deleted victims are still freeing
\* for it falls short.
NoOverPreemption ==
    [][\A v, p \in Workloads :
         Marks(v, p)
           => \E res \in Resources : Terminating(p, res) < gw[p].gpus[res]]_vars

-----------------------------------------------------------------------------
\* A pending workload whose demand the preemptible workloads could meet.
Pressure ==
    \E res \in Resources : \E p \in Pending(gw, res) :
        /\ Demand(gw, p, res) > 0
        /\ GpuSum(gw, res, IdlePool(gw, res)) >= Demand(gw, p, res)

\* Evaluations that find the lease taken are not made up for, yet no pressure
\* lasts: the requeue of the Idle workloads brings another evaluation.
PressureIsRelieved == []<>~Pressure

=============================================================================
