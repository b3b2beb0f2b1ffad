------------------------ MODULE PreemptionEvaluation ------------------------
(***************************************************************************)
(* The preemption decision on its own: one evaluation after another over a *)
(* set of CRs that nothing else touches, every mark of every evaluation    *)
(* landing. Its properties relate what the loops over resources, pending   *)
(* and idle workloads decide to what a fit check is meant to guarantee.    *)
(***************************************************************************)
EXTENDS PreemptionMatching

CONSTANTS
    MaxGpus,     \* largest GPU count of a workload
    MaxRounds    \* number of evaluations

ASSUME RoundsAssumption == MaxGpus \in Nat /\ MaxRounds \in Nat

VARIABLES
    view,    \* the stored CRs
    listed,  \* the CRs the last evaluation listed
    plan,    \* the marks it made
    rounds   \* evaluations so far

vars == <<view, listed, plan, rounds>>

\* The CRs an evaluation tells apart: running and busy ones, pending ones, idle
\* ones of every age, and ones an earlier evaluation marked for somebody.
Inputs ==
    LET gpus == [Resources -> 0..MaxGpus] \ {NoGpus}
        cr(phase, age, for, g) ==
            [Fresh(phase, g) EXCEPT !.idleSince = age, !.preemptedFor = for]
    IN {cr("Active", None, None, g) : g \in gpus}
         \cup {cr("PendingGpu", None, None, g) : g \in gpus}
         \cup {cr("Idle", age, None, g) : age \in Ages, g \in gpus}
         \cup {cr("Preempting", None, p, g) : p \in Workloads, g \in gpus}

\* A marked workload was marked for another one.
Init ==
    /\ view \in [Workloads -> Inputs]
    /\ \A w \in Workloads : view[w].preemptedFor # w
    /\ listed = view
    /\ plan = <<>>
    /\ rounds = 0

Evaluate ==
    /\ rounds < MaxRounds
    /\ plan' \in Plans(view)
    /\ listed' = view
    /\ view' = [w \in Workloads |->
                  IF w \notin Victims(plan') THEN view[w]
                  ELSE Marked(view[w],
                         (CHOOSE m \in ToSet(plan') : m.victim = w).for)]
    /\ rounds' = rounds + 1

Next == Evaluate

Spec == Init /\ [][Next]_vars

-----------------------------------------------------------------------------
TypeOK ==
    /\ view \in [Workloads -> CR]
    /\ listed \in [Workloads -> CR]
    /\ rounds \in 0..MaxRounds
    /\ \A m \in ToSet(plan) :
          /\ m.victim \in Workloads
          /\ m.for \in Workloads \cup {None}
          /\ m.res \in Resources \cup {None}

VictimsFor(p, res) ==
    Victims(SelectSeq(plan, LAMBDA m : m.for = p /\ m.res = res))

\* matchAndMarkVictims is all-or-nothing and takes no more than it needs: the
\* victims marked for a pending workload's demand of a resource cover that
\* demand, and without the last one marked they would not.
FitCheck ==
    \A p \in Workloads, res \in Resources :
        LET marks  == SelectSeq(plan, LAMBDA m : m.for = p /\ m.res = res)
            demand == Demand(listed, p, res)
        IN marks # <<>> =>
              /\ GpuSum(listed, res, Victims(marks)) >= demand
              /\ GpuSum(listed, res, Victims(Front(marks))) < demand

\* The claimed map: no workload is marked twice in one evaluation, whichever
\* pending workloads and resources it could serve.
NoDoubleClaim == \A i, j \in DOMAIN plan :
    plan[i].victim = plan[j].victim => i = j

\* Nobody's demand is left open that the idle workloads could have met: what an
\* unserved pending workload lacks exceeds everything left unclaimed.
NoNeglect ==
    rounds > 0 =>
      \A res \in Resources : \A p \in Pending(listed, res) :
        LET left == IdlePool(listed, res) \ Victims(plan)
        IN (VictimsFor(p, res) = {} /\ Demand(listed, p, res) > 0)
             => GpuSum(listed, res, left) < Demand(listed, p, res)

\* A workload is not marked under pressure while one that has been idle longer,
\* and offers the same resource, is spared by the whole evaluation.
LongestIdleFirst ==
    \A m \in ToSet(plan) : m.for # None =>
        \A u \in IdlePool(listed, m.res) \ Victims(plan) :
            listed[u].idleSince <= listed[m.victim].idleSince

\* All workloads use the same resource.
OneResource(crs) ==
    \E res \in Resources : \A w \in Workloads, other \in Resources \ {res} :
        crs[w].gpus[other] = 0

\* Pending workloads are served oldest first. With a single resource, one that
\* is left unserved could not be served even with the victims that all younger
\* ones got.
OldestPendingFirst ==
    (rounds > 0 /\ OneResource(listed)) =>
      \A res \in Resources : \A p \in Pending(listed, res) :
        LET elder == UNION {VictimsFor(q, res) :
                              q \in {q \in Workloads : Created[q] <= Created[p]}}
        IN (VictimsFor(p, res) = {} /\ Demand(listed, p, res) > 0)
             => GpuSum(listed, res, IdlePool(listed, res) \ elder)
                  < Demand(listed, p, res)

\* inFlight prevents over-preemption across evaluation cycles as long as the
\* victims are still Preempting: with a single resource, a second evaluation of
\* the CRs the first one left marks nothing.
RepeatMarksNothing ==
    [][(rounds > 0 /\ OneResource(view)) => plan' = <<>>]_vars

\* A pending workload gets no victim unless, after the evaluation, every
\* resource it lacks is being freed for it.
NoPointlessEviction ==
    \A m \in ToSet(plan) : m.for # None =>
        \A res \in Resources : Demand(view, m.for, res) <= 0

=============================================================================
