# Formal model of the Kaiwo operator

Kaiwo is a Kubernetes operator that runs GPU workloads on top of Kueue. This
directory holds TLA+ modules of its concurrent parts, the TLC configurations
that model-check them on small instances, and TLAPS proofs of the properties
that hold for every instance. File names of the Go code are relative to `src/`;
`PROJECT.json` maps every definition to the lines it models.

What is here so far is **GPU preemption**: the reconciler of `GpuWorkload`
custom resources (CRs), the decision which idle workloads make room for which
pending ones, the Lease that guards that decision, and the metrics scraper. The
rest of the operator is listed under *Inventory*, in the order it is planned.

## The system

Every GPU workload that opts in is tracked by a CR that names its **root owner**
(a Job, a Deployment, a RayJob, ...). Four parties act on the CRs:

- the **reconciler** (`internal/controller/gpuworkload_controller.go`) observes
  the owner and its pods and moves the CR between `PendingOther`, `PendingGpu`,
  `Active` and `Idle`; deletes the owner of a `Preempting` CR and records
  `Preempted`; records `Deleted` when the owner has disappeared; removes terminal
  CRs after their TTL;
- the **evaluation**, run inside a reconcile while holding a **Lease**, lists all
  CRs and marks idle ones `Preempting`, for the pending ones that need their GPUs
  (policy OnPressure) or for nobody (policy Always);
- the **scraper** (`gpuworkload_scraper.go`) writes GPU utilization samples into
  the status, which the next reconcile compares with a threshold;
- the **cluster**: pods, Kueue Workloads and owners come and go; the API server
  rejects a write whose copy is out of date; all reads of CRs come from the
  manager's client, that is from an informer cache.

All of them write the status as a whole, from a copy read earlier. What keeps
them from undoing each other's work is the conditional write, the re-checks
before a mark and the single worker of a controller; the properties ask whether
that is enough.

## Modules

| module | models | its state |
|---|---|---|
| `GpuWorkloadStatus` | the CR and the pure changes of it: phase computation, idle clock, mark, terminal statuses, TTL | none |
| `PreemptionMatching` | `classifyWorkloads` and `matchAndMarkVictims`: from the listed CRs to the set of possible sequences of marks | none |
| `PreemptionEvaluation` | that decision on its own, evaluation after evaluation | the CRs, the last list and plan |
| `EvaluationLease` | `tryAcquireLease`, `releaseLease` | the Lease, each replica's step, copy and clock |
| `GpuWorkloadLifecycle` | what the phases promise: the documented life cycle, without replicas, caches or calls | phase and existence of the owner |
| `GpuWorkloadController` | `Reconcile`, its handlers, the evaluation's steps, the scraper's writes and the cluster, for any decision an evaluation may make (`Decisions`) | CRs, owners, pods, lease, caches, work queues, each replica's reconcile and plan |
| `GpuPreemption` | the controller with the decisions of `PreemptionMatching` | as above |
| `*MC` | constants for TLC | |
| `*_proofs` | theorems and their proofs | |

### How the model corresponds to the code

*Steps.* A reconcile is cut at its API calls: `Reconcile*` reads (`Get`, owner,
pods) and decides, and each write is a step of its own (`SyncSpec`, `Reget`,
`CommitStatus`, `DeleteOwner`, `CommitOutcome`, `Reap`, `TryAcquire`, `Evaluate`,
`MarkVictim`, `ReleaseLease`). Everything else happens in between. The reads
before the first write are one step, since nothing is lost by letting a
conflicting write come before all of them or after: the status update is
conditional on the first read, and pods and owners are only looked at once.

*Caches.* `cache[r]` is the sequence of what replica `r` sees of the CRs, followed
by the versions it has yet to receive, in the order they were written; `View(r)`
is the first of them, and no read goes anywhere else. `CacheSync` moves on by one
version, so a replica sees every intermediate one and may be behind its own
writes. `MaxLag` bounds the sequence by delaying writes. Owners and pods are read
as they are: a change of theirs may come at any time before or after the read.
The Lease is read and written in one step here; `EvaluationLease` has stale
copies of it, and in the controller they show as `LeaseError`.

*Conditional writes.* An update succeeds if the copy it was computed from equals
the stored CR. The API server compares resource versions instead; a CR that was
changed and changed back differs only in its version, and then the copy is what
a later read would have returned. Read-modify-writes that are retried and depend
on nothing else (the scraper's) are one step, which needs a replica whose cache
is current. `RetryOnConflict` around a mark reads the cache again and again for
a few milliseconds: either the cache catches up meanwhile, and `MarkVictim` marks
or skips, or the tries run out and the evaluation fails (`MarkFails`), as it does
when the victim's CR has disappeared. The marks still to make are then dropped
and the reconcile is requeued, after the lease is released.

*Time.* A timestamp is kept as its age, saturating at the largest duration it is
compared with, and `Tick` ages every copy of it at once. Clocks of replicas
agree.

*Events.* A write of a CR enqueues it when the cache receives it. A change of pods
or of Kueue Workloads enqueues the CR if the root owner can be resolved; the
removal of a pod cannot, since the pod itself is looked up first. `RequeueAfter`, `Requeue` and errors put it back in the queue; delays are not
told apart, since `Tick` may come at any time. A terminal CR is taken from the
queue when its TTL has elapsed.

*Faults.* Up to `MaxFaults` of: an API call fails (`ApiError`, `LeaseError`), a
write lands but its response is lost (`ResponseLost`), the process restarts
(`Crash`).

*Abstractions.* Utilization is a class: no tracked pods, below the threshold,
at or above it. Samples that change without changing class cause a conflict at
most, and a conflict is a requeue. What a reconcile sees of the pods is one of
five views (`PodViews`), the cases `computePhase` distinguishes. GPU counts are
`OnePod` when the CR is created and `Total` once pods are listed; with these the
branch of `upsertGpuWorkloadForPreemption` that raises a recorded count to that
of one pod never changes anything. Events, owner chains, annotations and reasons
are left out. An owner is "gone" once its deletion is accepted; finalizers of
the owner are not modelled. `handleTerminal` on a CR without `FinishedAt` is not
a step because there is none (`StatusWellFormed`).

## What the runs check

| run | instance | properties | result |
|---|---|---|---|
| `matching` | 3 workloads of both policies, two resources, counts to 2, two evaluations from every mix of CRs | `FitCheck`, `NoDoubleClaim`, `NoNeglect`, `LongestIdleFirst`, `OldestPendingFirst`, `RepeatMarksNothing`, `TypeOK` | hold |
| `matching_pointless` | 3 workloads, two resources | `NoPointlessEviction` | **violated** |
| `lease` | 2 replicas, lease longer than an evaluation, fair | `MutualExclusion`, `EvaluatorHoldsLease`, `EvaluationsKeepHappening`, `TypeOK` | hold |
| `lease_expiry` | 2 replicas, an evaluation may take as long as the lease | `MutualExclusion` | **violated** |
| `controller_faults` | 1 replica, lag 2, a workload of policy Always that may not be deleted and one whose owner's name is reused, pods change, 1 fault | `StatusWellFormed`, `TerminalMeansOwnerGone`, `GraceRespected`, `OnlyMarkedOwnersDeleted`, `FollowsLifecycle`, `TypeOK` | hold |
| `controller_liveness` | 1 replica, lag 2, a pending workload whose owner may vanish and an idle one, fair | `FollowsLifecycle`, `PreemptingEnds`, `LostOwnerIsCleanedUp`, `PressureIsRelieved` | hold |
| `all_or_nothing` | 1 replica, lag 3, a demand that takes two victims | `AllOrNothing` | **violated** |
| `stale_inflight` | 1 replica, lag 3, two candidates for one demand | `InFlightCounts` | **violated** |
| `over_preemption` | 1 replica, lag 3, two candidates for one demand | `NoOverPreemption` | **violated** |
| `ghost_demand` | 1 replica, lag 2, the pending owner vanishes | `PressureIsReal` | **violated** |
| `undeletable_retry` | 1 replica, lag 1, one workload of policy Always, fair | `UndeletableIsLeftAlone` | **violated** |
| `two_replicas_terminal` | 2 replicas, lag 2, one workload | `TerminalIsFinal` | **violated** |

`FollowsLifecycle` is refinement: the controller, with phase and existence of the
owner as the mapping, implements `GpuWorkloadLifecycle`. Each property of a
passing run is accompanied by an operator, commented `Mutant:`, that changes one
definition as a plausible bug would and violates the property.

### Where code and documentation disagree

The violated properties are stated by `docs/docs/admin/gpu-preemption.md` or by
comments of the controller. They are behaviours of the code as it is:

1. *Pointless evictions.* The fit check is made resource by resource. A pending
   workload that lacks `amd.com/gpu` and a partition gets victims for one of them
   although the other cannot be freed.
2. *Overlapping evaluations.* The lease is neither renewed nor looked at during an
   evaluation, and nothing makes an evaluation end within its 30 seconds. That it
   does is the hypothesis `MaxEvaluation < LeaseDuration` of the run `lease` and
   of the theorem `LeaseExcludes`; the documentation has no such condition, and
   `lease_expiry` shows what happens without it.
3. *Not all, yet not nothing.* The capacity of a set of victims is that of the
   cached list. One of two victims is marked although the other has turned Active
   in the store, so that the demand is not met.
4. *Marks not credited.* `inFlight` is computed from the same list. While the cache
   has yet to receive a mark, another evaluation marks a second victim for the
   demand. A released lease cannot be acquired for 30 seconds, even by the
   replica that released it, which gives the cache time; a release that fails or
   reads an old copy of the Lease does not, because then the replica still holds
   the lease.
5. *Over-preemption.* `inFlight` credits victims that are `Preempting`. A victim
   becomes `Preempted` as soon as its deletion is accepted, while its pods still
   hold their GPUs and the pending workload is still pending.
6. *Ghost demand.* A `PendingGpu` CR is not requeued and no watch reports that its
   owner was deleted, so it goes on attracting victims.
7. *Undeletable workloads* are marked and reverted forever, once per grace period.
8. *With two replicas* and no leader election, `syncOwnedPods` may take a CR out
   of a terminal phase, because the phase is not looked at after its second read.

For 8: the `--leader-elect` flag defaults to false in `cmd/operator/main.go`, but
the manifests pass it and deploy one replica. One replica is therefore the case
most runs are about; two are what the Lease exists for, and what is proved
of the controller is proved for any number.

### Bounds

Matching needs a pending workload and two victims, or two pending workloads and
a victim, hence three workloads; counts that differ (up to 2), so that one victim
may or may not be enough; and ages before, at and beyond the grace period. Two
evaluations show what the second makes of the first. Properties about order that
hold for a single resource only are checked on the CRs that use a single one.
Two replicas are enough for the lease, because its safety is proved for any
number; the durations leave room for a tick on each side. In the controller one
workload demands and one gives; a third is needed only when two victims or a
second candidate matter. A cache may be behind by as many versions as there are
workloads, so that it can lack a write of every CR at once. An update of a CR
that the writer's own cache has not caught up with is a conflict, so the CRs of
one replica have one unseen version each, and the bound takes nothing away; with
two replicas it does, and in `undeletable_retry` there is one workload. All durations are one tick: their order against each
other is free, since any number of steps fits in a tick. One fault at any point,
with everything retried afterwards, covers the handlers' error paths. Owners vanish
only where a run is about it.

### Fairness

`EvaluationLease`: replicas keep asking (each reconcile of an Idle CR does, and
it is requeued every 60 seconds), go on once started, not every write of theirs
is rejected, and time passes. `GpuWorkloadController`: a request that is due does not stay in the work queue
forever (`Due`; one that waits for the TTL is not due); a reconcile goes on;
caches catch up and the informer resyncs, every ten hours by default; time passes.
Reconciles and marks that meet a conflict are retried for ever, by the requeue
and by later evaluations, and are not beaten each time: if a reconcile of a CR
comes to a conditional write again and again, then again and again the write
succeeds, and if marks fail again and again, then marks are also made. The
scraper, which is what beats them, polls at an interval far longer than a
reconcile or the lag of a cache. Nothing is assumed of the cluster or of the
scraper itself. The liveness run has no faults. With one fault, and likewise with
any number of lease calls that fail as long as not all do, the same properties
hold on the same instance; these checks take too long to be kept as runs.

## What is proved

TLAPS checks the following for every value of the constants.

`EvaluationLease_proofs` (any replicas, any durations):

- `LeaseTypeCorrect`: `Spec => []TypeOK`;
- `LeaseExcludes`, `LeaseIsKept`: if `MaxEvaluation < LeaseDuration`, then
  `[]MutualExclusion` and `[]EvaluatorHoldsLease`. Mutual exclusion is not
  inductive: it does not say why a second replica may not acquire. The invariant
  `Inv` adds that an evaluator's lease is the one it wrote, with the age of its
  own clock, that this age is at most `MaxEvaluation`, that an acquirer's copy
  was available to it, and that a releaser's copy names it as the holder. A
  second acquirer's copy would have to equal the stored lease, which is
  unexpired and not its own.

`GpuWorkloadController_proofs` (any workloads, replicas, GPU counts, faults, cache
lag, and **any** decision of the evaluations):

- `ControllerTypeCorrect`, `ControllerStatusWellFormed`,
  `ControllerTerminalMeansOwnerGone`. `StatusWellFormed` speaks of the stored CRs;
  what is inductive is the same statement about every *version* of a CR: stored,
  cached, on its way to a cache, or about to be written by some reconcile. Each of these is well-formed,
  and says Preempted or Deleted only of an owner that is not present. Owners
  never return to "present", so a version stays sound however old it gets, and a
  write of it, conditional or not, is safe. There is one lemma per action; those
  about the pure steps are in `GpuWorkloadStatus_proofs`.

The assumptions are those named in the modules (`DurationAssumption`,
`NoneAssumption`, `ControllerAssumption`, `LeaseAssumption`); TLC evaluates them
on every run.

**Only model-checked**: liveness; the refinement of the life cycle; the matching
algorithm, whose folds over sequences need induction; `GraceRespected` and
`OnlyMarkedOwnersDeleted`, which need an invariant about what the single worker of
one replica has read. `GraceRespected` fails with two replicas: between the list
and the mark of one, the other may restart the idle clock, and the mark looks at
the phase alone. `OnlyMarkedOwnersDeleted` is about the tracked owner; a new object
under its name, which the deletion by name may hit as well, has no property.

## Inventory and plan

Parts of the operator that are not modelled, in the order they are planned.

| part | source | what is to be modelled |
|---|---|---|
| queue configuration sync | `internal/controller/kaiwoqueueconfig_controller.go`, `utils/kueue.go`, `utils/scheduling.go` | create, update, delete passes over flavors, topologies, cluster and local queues, priority classes; a failure or stale read between any two; convergence; the merge of `EnsureKaiwoQueueConfig` |
| local queues of workloads | `pkg/workloads/common/localqueue.go` | its race with the sync |
| KaiwoJob, KaiwoService | `pkg/workloads/common/{reconciler,workload,observability,admission}.go`, `pkg/workloads/{job,service}` | the status machine over download job, storage and workload object; an abstract life cycle it implements |
| duration preemption, termination | `pkg/workloads/common/{preempting,termination,utilization}.go` | Terminating and Terminated against deletion of children, with failures in between |
| metrics watcher | `pkg/utils/monitoring/metrics.go` | the Underutilized condition and its race with the reconcilers |
| Job webhook | `internal/webhook/v1/job_webhook.go` | creation and deletion of the KaiwoJob of a Job |
| discovery | `internal/controller/gpuworkload_resolver.go`, upsert | the owner chain walk with failing reads; concurrent upserts |
| GPU sizing | `pkg/workloads/common/{scheduling,cluster,resources}.go` | pure operators against reference definitions |
| proofs | | one replica: `TerminalIsFinal`, `GraceRespected`, the refinement of the life cycle; invariants of the new components |

Not planned: the generic reconcile pipeline in `internal/controller/utils`, which
no controller uses yet; the other webhooks, which change nothing; naming and
labels (string formatting); the CLI, the TUI and the Python downloader (I/O);
generated code.

## Running

    tlc -config ControllerFaults.cfg GpuPreemptionMC
    tlapm GpuWorkloadController_proofs.tla

The two passing controller runs take two to three minutes, the others less than
one; the longest proof takes six.
