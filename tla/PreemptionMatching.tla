------------------------- MODULE PreemptionMatching -------------------------
(***************************************************************************)
(* The global preemption decision: which idle workloads one evaluation     *)
(* marks, for which pending workload and in which order. It is a function  *)
(* of the CRs the evaluation listed (a view: one CR per workload), except  *)
(* for two orders the code leaves open: Go's order over the map of GPU     *)
(* resources, and sort.Slice's order between equal timestamps.             *)
(***************************************************************************)
EXTENDS GpuWorkloadStatus, SequencesExt

CONSTANTS
    AlwaysPolicy,  \* the workloads whose preemption policy is Always
    Created        \* CreationTimestamp of each workload's CR

ASSUME PolicyAssumption ==
    AlwaysPolicy \subseteq Workloads /\ Created \in [Workloads -> Nat]

\* A mark to make: the victim, the pending workload it makes room for and the
\* resource that workload lacks; an Always-policy mark has neither.
Mark(v, for, res) == [victim |-> v, for |-> for, res |-> res]

Victims(plan) == {m.victim : m \in ToSet(plan)}

-----------------------------------------------------------------------------
(* classifyWorkloads *)

Pending(view, res) ==
    {w \in Workloads : view[w].phase = "PendingGpu" /\ view[w].gpus[res] > 0}

\* Idle for its whole grace period, by the IdleSince of the listed CR.
Preemptible(view, w) ==
    /\ view[w].phase = "Idle"
    /\ view[w].idleSince # None
    /\ view[w].idleSince >= Grace

IdlePool(view, res) ==
    {w \in Workloads \ AlwaysPolicy :
        Preemptible(view, w) /\ view[w].gpus[res] > 0}

\* GPUs of one resource that a set of listed CRs accounts for.
GpuSum(view, res, ws) == MapThenSumSet(LAMBDA w : view[w].gpus[res], ws)

\* Mutant: earlier marks are not credited.
InFlightIgnored(view, p, res) == 0

\* GPUs that marks of earlier evaluations are freeing for a pending workload.
InFlight(view, p, res) ==
    GpuSum(view, res, {w \in Workloads : view[w].phase = "Preempting"
                                         /\ view[w].preemptedFor = p})

Demand(view, p, res) == view[p].gpus[res] - InFlight(view, p, res)

\* The sequences over S in ascending order of key, ties in any order.
SortedBy(S, key) ==
    {s \in SetToSeqs(S) :
        \A i, j \in DOMAIN s : i < j => key[s[i]] <= key[s[j]]}

\* Mutant: the policy takes the place of the pending workload's name.
AlwaysMarksNamed(view) ==
    {[i \in DOMAIN s |-> Mark(s[i], "Always", None)] :
        s \in SetToSeqs({w \in AlwaysPolicy : Preemptible(view, w)})}

\* Marked during classification, in the order of the list.
AlwaysMarks(view) ==
    {[i \in DOMAIN s |-> Mark(s[i], None, None)] :
        s \in SetToSeqs({w \in AlwaysPolicy : Preemptible(view, w)})}

-----------------------------------------------------------------------------
(* matchAndMarkVictims *)

\* Mutant: what there is, is taken although it does not cover the demand.
AccumulatePartly(view, res, pool, claimed, demand) ==
    LET free   == SelectSeq(pool, LAMBDA v : v \notin claimed)
        total  == [k \in 0..Len(free) |->
                     GpuSum(view, res, {free[i] : i \in 1..k})]
        enough == {k \in DOMAIN free : total[k] >= demand}
    IN IF enough = {} THEN free ELSE SubSeq(free, 1, Min(enough))

\* Mutant: victims that cover the demand exactly are not enough.
AccumulateMore(view, res, pool, claimed, demand) ==
    LET free   == SelectSeq(pool, LAMBDA v : v \notin claimed)
        total  == [k \in 0..Len(free) |->
                     GpuSum(view, res, {free[i] : i \in 1..k})]
        enough == {k \in DOMAIN free : total[k] > demand}
    IN IF enough = {} THEN <<>> ELSE SubSeq(free, 1, Min(enough))

\* The unclaimed idle workloads, longest idle first, that are accumulated
\* until they cover the demand; empty when all of them together do not.
Accumulate(view, res, pool, claimed, demand) ==
    LET free   == SelectSeq(pool, LAMBDA v : v \notin claimed)
        total  == [k \in 0..Len(free) |->
                     GpuSum(view, res, {free[i] : i \in 1..k})]
        enough == {k \in DOMAIN free : total[k] >= demand}
    IN IF enough = {} THEN <<>> ELSE SubSeq(free, 1, Min(enough))

\* Mutant: victims are claimed per resource.
MatchPendingPerResource(view, res, pool, acc, p) ==
    LET demand  == Demand(view, p, res)
        claimed == Victims(SelectSeq(acc, LAMBDA m : m.res = res))
        victims == Accumulate(view, res, pool, claimed, demand)
    IN IF demand <= 0 THEN acc
       ELSE acc \o [i \in DOMAIN victims |-> Mark(victims[i], p, res)]

\* One pending workload of one resource; acc is the plan so far. A victim in
\* the plan is a claimed one.
MatchPending(view, res, pool, acc, p) ==
    LET demand  == Demand(view, p, res)
        victims == Accumulate(view, res, pool, Victims(acc), demand)
    IN IF demand <= 0 THEN acc
       ELSE acc \o [i \in DOMAIN victims |-> Mark(victims[i], p, res)]

\* Mutant: the idle pool is sorted the other way round.
MatchResourceLastIdle(view, res, plans) ==
    {FoldLeft(LAMBDA acc, p : MatchPending(view, res, pool, acc, p),
              plan, pending) :
        plan    \in plans,
        pending \in SortedBy(Pending(view, res), Created),
        pool    \in SortedBy(IdlePool(view, res),
                             [w \in IdlePool(view, res) |-> view[w].idleSince])}

\* Mutant: the pending workloads are not sorted.
MatchResourceUnsorted(view, res, plans) ==
    {FoldLeft(LAMBDA acc, p : MatchPending(view, res, pool, acc, p),
              plan, pending) :
        plan    \in plans,
        pending \in SetToSeqs(Pending(view, res)),
        pool    \in SortedBy(IdlePool(view, res),
                             [w \in IdlePool(view, res) |->
                                MaxAge - view[w].idleSince])}

\* One resource: its pending workloads oldest first, its idle pool longest
\* idle first.
MatchResource(view, res, plans) ==
    {FoldLeft(LAMBDA acc, p : MatchPending(view, res, pool, acc, p),
              plan, pending) :
        plan    \in plans,
        pending \in SortedBy(Pending(view, res), Created),
        pool    \in SortedBy(IdlePool(view, res),
                             [w \in IdlePool(view, res) |->
                                MaxAge - view[w].idleSince])}

Matches(view) ==
    UNION {FoldLeft(LAMBDA plans, res : MatchResource(view, res, plans),
                    {<<>>}, order) : order \in SetToSeqs(Resources)}

\* Every sequence of marks an evaluation of this view may set out to make.
Plans(view) ==
    {always \o matched : always \in AlwaysMarks(view), matched \in Matches(view)}

=============================================================================
