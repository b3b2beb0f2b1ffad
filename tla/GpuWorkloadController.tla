----------------------- MODULE GpuWorkloadController -----------------------
(***************************************************************************)
(* The GPU preemption controller: the reconciler of the GpuWorkload CRs,   *)
(* with the preemption evaluation it runs inside a reconcile, and the      *)
(* metrics scraper, against the API server, the cluster and each other.    *)
(* What an evaluation decides is a parameter.                              *)
(*                                                                         *)
(* Every replica has one worker. A reconcile is a sequence of API calls,   *)
(* one step each, so that the scraper, the cluster, the clock and other    *)
(* replicas act in between. Every read of a CR comes from the replica's    *)
(* cache, which receives the versions of the CRs one by one, in the order  *)
(* they were written. A conditional write succeeds if the copy it was      *)
(* computed from equals the stored CR, which stands for an unchanged       *)
(* resourceVersion: a CR that was changed and changed back might as well   *)
(* have been read later.                                                   *)
(*                                                                         *)
(* For the same reason a read-modify-write whose outcome depends on        *)
(* nothing else it has read, as the scraper's, is one step.                *)
(***************************************************************************)
EXTENDS GpuWorkloadStatus, Sequences

CONSTANTS
    Replicas,       \* operator replicas that run the controller
    Nobody,         \* the empty HolderIdentity of a released lease
    LeaseDuration,  \* PreemptionEvalLeaseDur, in ticks
    OnePod,         \* GPUs of one pod of each workload, what a new CR records
    Total,          \* GPUs of all pods of each workload
    PodStates,      \* the pod views each workload's pods go through
    Vanishing,      \* workloads whose owner others may delete
    Reused,         \* workloads whose owner's name may be used again
    Undeletable,    \* workloads of a kind the operator may not delete
    Decisions(_),   \* what an evaluation may decide, given the CRs it lists: a
                    \* set of sequences of marks, each of a victim and the
                    \* pending workload it is for
    MaxLag,         \* versions that a replica's cache may be behind by
    MaxFaults       \* API errors, lost responses and crashes, altogether

ASSUME ControllerAssumption ==
    /\ Nobody \notin Replicas
    /\ LeaseDuration \in Nat
    /\ OnePod \in [Workloads -> [Resources -> Nat]]
    /\ Total \in [Workloads -> [Resources -> Nat]]
    /\ PodStates \in [Workloads -> SUBSET PodViews]
    /\ Vanishing \subseteq Workloads /\ Reused \subseteq Workloads
    /\ Undeletable \subseteq Workloads
    /\ MaxLag \in Nat \ {0}
    /\ MaxFaults \in Nat

VARIABLES
    gw,      \* the CRs stored by the API server
    owner,   \* each root owner: the tracked object, none, or a new object
             \* under the same name
    pods,    \* what there is to see of each workload's pods
    lease,   \* the evaluation lease: its holder and the age of its RenewTime
    cache,   \* the CRs in each replica's cache, followed by the versions it has
             \* yet to receive, the last being what is stored
    queue,   \* each replica's work queue, delayed requests included
    worker,  \* each replica's reconcile in progress
    plan,    \* the marks each replica's evaluation has still to make
    faults   \* faults so far

vars == <<gw, owner, pods, lease, cache, queue, worker, plan, faults>>

Owners == {"present", "gone", "recreated"}

NoWork == [pc |-> "idle", w |-> None, copy |-> Absent, seen |-> "none",
           next |-> Absent, evals |-> 0, again |-> FALSE]

\* The upsert of a first pod event has created every CR; its first status
\* update may have failed.
Init ==
    /\ \E phase \in [Workloads -> {"New", "PendingOther"}] :
          gw = [w \in Workloads |-> Fresh(phase[w], OnePod[w])]
    /\ owner = [w \in Workloads |-> "present"]
    /\ pods \in [Workloads -> PodViews]
    /\ \A w \in Workloads : pods[w] \in PodStates[w]
    /\ lease = [holder |-> Nobody, age |-> LeaseDuration]
    /\ cache = [r \in Replicas |-> <<gw>>]
    /\ queue = [r \in Replicas |-> Workloads]
    /\ worker = [r \in Replicas |-> NoWork]
    /\ plan = [r \in Replicas |-> <<>>]
    /\ faults = 0

-----------------------------------------------------------------------------
(* What the steps below are made of. *)

\* The CRs as the manager's client of r reads them.
View(r) == cache[r][1]

Work(r, job) == worker' = [worker EXCEPT ![r] = job]

Plan(r, marks) == plan' = [plan EXCEPT ![r] = marks]

\* The write of a CR changes it and sends the new version to every cache. An
\* update that changes nothing is no event.
Write(w, g) ==
    /\ gw' = [gw EXCEPT ![w] = g]
    /\ IF g = gw[w] THEN UNCHANGED cache
       ELSE /\ \A r \in Replicas : Len(cache[r]) <= MaxLag
            /\ cache' = [r \in Replicas |-> Append(cache[r], gw')]

\* The work queues once a reconcile has returned: w is back in r's after
\* RequeueAfter, Requeue or an error.
Returned(r, w, again) ==
    IF again THEN [queue EXCEPT ![r] = @ \cup {w}] ELSE queue

\* The reconcile of r returns.
Return(r, again) ==
    /\ Work(r, NoWork)
    /\ queue' = Returned(r, worker[r].w, again)

\* One fewer evaluation to try in this reconcile; after the last, it returns.
EvaluationOver(r) ==
    IF worker[r].evals > 1
      THEN /\ Work(r, [worker[r] EXCEPT !.pc = "acquire", !.evals = @ - 1])
           /\ UNCHANGED queue
      ELSE Return(r, worker[r].again)

-----------------------------------------------------------------------------
(* Reconcile, up to its first write. *)

\* The worker takes w from the queue; job is what it is going to do with it.
Dequeue(r, w, job) ==
    /\ worker[r].pc = "idle" /\ w \in queue[r]
    /\ queue' = [queue EXCEPT ![r] = @ \ {w}]
    /\ Work(r, job)

\* The CR is not there, or is terminal and retained forever.
ReconcileNothing(r, w) ==
    /\ \/ View(r)[w].phase = "Absent"
       \/ View(r)[w].phase \in TerminalPhases /\ Ttl = 0
    /\ Dequeue(r, w, NoWork)
    /\ UNCHANGED <<gw, owner, pods, lease, cache, plan, faults>>

\* handleTerminal. Before the TTL has elapsed it only requeues itself.
ReconcileTerminal(r, w) ==
    /\ View(r)[w].phase \in TerminalPhases
    /\ TtlElapsed(View(r)[w])
    /\ Dequeue(r, w, [NoWork EXCEPT !.pc = "reap", !.w = w])
    /\ UNCHANGED <<gw, owner, pods, lease, cache, plan, faults>>

\* handlePreempting is entered.
ReconcilePreempting(r, w) ==
    /\ View(r)[w].phase = "Preempting"
    /\ Dequeue(r, w, [NoWork EXCEPT !.pc = "delete", !.w = w,
                                    !.copy = View(r)[w]])
    /\ UNCHANGED <<gw, owner, pods, lease, cache, plan, faults>>

\* Mutant: terminal CRs are not told apart.
ReconcileLostAgain(r, w) ==
    /\ View(r)[w].phase \notin {"Absent", "Preempting"}
    /\ owner[w] # "present"
    /\ Dequeue(r, w, [NoWork EXCEPT !.pc = "outcome", !.w = w,
                                    !.copy = View(r)[w],
                                    !.next = Lost(View(r)[w])])
    /\ UNCHANGED <<gw, owner, pods, lease, cache, plan, faults>>

\* ownerExists is false: no object of that name, or one with another UID.
ReconcileLost(r, w) ==
    /\ View(r)[w].phase \in LivePhases
    /\ owner[w] # "present"
    /\ Dequeue(r, w, [NoWork EXCEPT !.pc = "outcome", !.w = w,
                                    !.copy = View(r)[w],
                                    !.next = Lost(View(r)[w])])
    /\ UNCHANGED <<gw, owner, pods, lease, cache, plan, faults>>

\* The owner exists and its pods are listed. A GPU total that differs from the
\* recorded one is written first.
ReconcileLive(r, w) ==
    LET g    == View(r)[w]
        sync == HasPods(pods[w]) /\ g.gpus # Total[w]
    IN /\ g.phase \in LivePhases
       /\ owner[w] = "present"
       /\ Dequeue(r, w, [NoWork EXCEPT !.pc = IF sync THEN "sync" ELSE "commit",
                                       !.w = w, !.copy = g, !.seen = pods[w],
                                       !.next = Observed(g, pods[w])])
       /\ UNCHANGED <<gw, owner, pods, lease, cache, plan, faults>>

-----------------------------------------------------------------------------
(* The writes of Reconcile and of its handlers. *)

\* The CR has not been written since worker r read its copy from the cache, so
\* that there is nothing newer for the cache to receive either.
Unchanged(r) ==
    LET w == worker[r].w
    IN worker[r].copy = gw[w] /\ View(r)[w] = gw[w]

\* handleTerminal deletes the CR, unconditionally.
Reap(r) ==
    /\ worker[r].pc = "reap"
    /\ Work(r, NoWork)
    /\ Write(worker[r].w, Absent)
    /\ UNCHANGED <<owner, pods, lease, queue, plan, faults>>

\* Mutant: the error of the deletion is ignored.
DeleteOwnerUnchecked(r) ==
    /\ worker[r].pc = "delete"
    /\ \/ UNCHANGED owner
       \/ owner' = [owner EXCEPT ![worker[r].w] = "gone"]
    /\ Work(r, [worker[r] EXCEPT !.pc = "outcome",
                                 !.next = Finished(worker[r].copy)])
    /\ UNCHANGED <<gw, pods, lease, cache, queue, plan, faults>>

\* Mutant: NotFound is an error like others.
DeleteOwnerStrictly(r) ==
    LET w == worker[r].w
    IN /\ worker[r].pc = "delete"
       /\ IF owner[w] = "gone"
            THEN Return(r, TRUE) /\ UNCHANGED owner
            ELSE /\ owner' = [owner EXCEPT ![w] = "gone"]
                 /\ Work(r, [worker[r] EXCEPT
                               !.pc = "outcome",
                               !.next = Finished(worker[r].copy)])
                 /\ UNCHANGED queue
       /\ UNCHANGED <<gw, pods, lease, cache, plan, faults>>

\* handlePreempting deletes the owner by kind and name, whichever object bears
\* it by now. Without permission it is going to revert the CR.
DeleteOwner(r) ==
    LET w == worker[r].w
        g == worker[r].copy
    IN /\ worker[r].pc = "delete"
       /\ IF w \in Undeletable
            THEN /\ UNCHANGED owner
                 /\ Work(r, [worker[r] EXCEPT !.pc = "outcome",
                                              !.next = Reverted(g)])
            ELSE /\ owner' = [owner EXCEPT ![w] = "gone"]
                 /\ Work(r, [worker[r] EXCEPT !.pc = "outcome",
                                              !.next = Finished(g)])
       /\ UNCHANGED <<gw, pods, lease, cache, queue, plan, faults>>

\* The status update that ends in Deleted, Preempted or reverted Idle; each
\* path requeues the CR, and so does a conflict.
CommitOutcome(r) ==
    LET w == worker[r].w
    IN /\ worker[r].pc = "outcome"
       /\ Return(r, TRUE)
       /\ Write(w, IF Unchanged(r) THEN worker[r].next ELSE gw[w])
       /\ UNCHANGED <<owner, pods, lease, plan, faults>>

\* syncOwnedPods updates the spec; a conflict requeues.
SyncSpec(r) ==
    LET w == worker[r].w
    IN /\ worker[r].pc = "sync"
       /\ IF Unchanged(r)
            THEN /\ Write(w, [gw[w] EXCEPT !.gpus = Total[w]])
                 /\ Work(r, [worker[r] EXCEPT !.pc = "reget"])
                 /\ UNCHANGED queue
            ELSE /\ Return(r, TRUE)
                 /\ UNCHANGED <<gw, cache>>
       /\ UNCHANGED <<owner, pods, lease, plan, faults>>

\* syncOwnedPods reads the CR again, whose phase is not looked at again. If it
\* has disappeared, the status update to come fails.
Reget(r) ==
    LET g == View(r)[worker[r].w]
    IN /\ worker[r].pc = "reget"
       /\ IF g.phase = "Absent"
            THEN Return(r, TRUE)
            ELSE /\ Work(r, [worker[r] EXCEPT
                               !.pc = "commit", !.copy = g,
                               !.next = Observed(g, worker[r].seen)])
                 /\ UNCHANGED queue
       /\ UNCHANGED <<gw, owner, pods, lease, cache, plan, faults>>

\* Mutant: only a change of phase leads to an evaluation.
EvaluationsOnChange(from, to) ==
    IF from # to /\ to \in {"Idle", "PendingGpu", "Active"} THEN 1 ELSE 0

\* Mutant: a change of phase is evaluated before and after the event.
EvaluationsTwice(from, to) ==
    (IF from # to /\ to \in {"Idle", "PendingGpu", "Active"} THEN 2 ELSE 0)
      + (IF to = "Idle" THEN 1 ELSE 0)

\* How often Reconcile tries an evaluation after its status update: once for a
\* change to one of three phases, and once for an Idle workload.
Evaluations(from, to) ==
    (IF from # to /\ to \in {"Idle", "PendingGpu", "Active"} THEN 1 ELSE 0)
      + (IF to = "Idle" THEN 1 ELSE 0)

\* Mutant: the update is not conditional on the read.
CommitStatusBlindly(r) ==
    LET w     == worker[r].w
        next  == worker[r].next
        evals == Evaluations(worker[r].copy.phase, next.phase)
    IN /\ worker[r].pc = "commit"
       /\ Write(w, next)
       /\ Work(r, IF evals = 0 THEN NoWork
                  ELSE [NoWork EXCEPT !.pc = "acquire", !.w = w,
                                      !.evals = evals,
                                      !.again = next.phase = "Idle"])
       /\ UNCHANGED <<owner, pods, lease, queue, plan, faults>>

\* The status update of Reconcile. An Idle workload is going to be requeued.
CommitStatus(r) ==
    LET w     == worker[r].w
        next  == worker[r].next
        evals == Evaluations(worker[r].copy.phase, next.phase)
    IN /\ worker[r].pc = "commit"
       /\ Write(w, IF Unchanged(r) THEN next ELSE gw[w])
       /\ IF Unchanged(r) /\ evals > 0
            THEN /\ Work(r, [NoWork EXCEPT !.pc = "acquire", !.w = w,
                                           !.evals = evals,
                                           !.again = next.phase = "Idle"])
                 /\ UNCHANGED queue
            ELSE Return(r, ~Unchanged(r))
       /\ UNCHANGED <<owner, pods, lease, plan, faults>>

-----------------------------------------------------------------------------
(* tryRunPreemptionEvaluation. *)

\* tryAcquireLease. EvaluationLease has its read and its write apart. A lease
\* that is not available makes the evaluation a no-op.
TryAcquire(r) ==
    /\ worker[r].pc = "acquire"
    /\ IF lease.holder = r \/ lease.age >= LeaseDuration
         THEN /\ lease' = [holder |-> r, age |-> 0]
              /\ Work(r, [worker[r] EXCEPT !.pc = "list"])
              /\ UNCHANGED queue
         ELSE /\ EvaluationOver(r)
              /\ UNCHANGED lease
    /\ UNCHANGED <<gw, owner, pods, cache, plan, faults>>

\* All CRs are listed and classified, and the marks to make are determined.
Evaluate(r) ==
    /\ worker[r].pc = "list"
    /\ Work(r, [worker[r] EXCEPT !.pc = "mark"])
    /\ \E marks \in Decisions(View(r)) : Plan(r, marks)
    /\ UNCHANGED <<gw, owner, pods, lease, cache, queue, faults>>

\* Mutant: the mark is not conditional on the read.
MarkVictimBlindly(r) ==
    /\ worker[r].pc = "mark" /\ plan[r] # <<>>
    /\ \E v \in Workloads, p \in Workloads \cup {None} :
          /\ Head(plan[r]).victim = v
          /\ Head(plan[r]).for = p
          /\ View(r)[v].phase # "Absent"
          /\ IF View(r)[v].phase # "Idle" THEN UNCHANGED <<gw, cache>>
             ELSE Write(v, Marked(gw[v], p))
    /\ Plan(r, Tail(plan[r]))
    /\ UNCHANGED <<owner, pods, lease, queue, worker, faults>>

\* Mutant: the owner is deleted at once, before the mark has landed.
MarkVictimLate(r) ==
    /\ worker[r].pc = "mark" /\ plan[r] # <<>>
    /\ \E v \in Workloads, p \in Workloads \cup {None} :
          /\ Head(plan[r]).victim = v
          /\ Head(plan[r]).for = p
          /\ View(r)[v].phase = "Idle" /\ View(r)[v] = gw[v]
          /\ owner' = [owner EXCEPT ![v] = "gone"]
          /\ Write(v, Marked(gw[v], p))
    /\ Plan(r, Tail(plan[r]))
    /\ UNCHANGED <<pods, lease, queue, worker, faults>>

\* The next mark: the victim is read again, skipped if it is not Idle any more,
\* and written if the copy read is current.
MarkVictim(r) ==
    /\ worker[r].pc = "mark" /\ plan[r] # <<>>
    /\ \E v \in Workloads, p \in Workloads \cup {None} :
          /\ Head(plan[r]).victim = v
          /\ Head(plan[r]).for = p
          /\ View(r)[v].phase # "Absent"
          /\ \/ /\ View(r)[v].phase # "Idle"
                /\ UNCHANGED <<gw, cache>>
             \/ /\ View(r)[v].phase = "Idle"
                /\ View(r)[v] = gw[v]
                /\ Write(v, Marked(gw[v], p))
    /\ Plan(r, Tail(plan[r]))
    /\ UNCHANGED <<owner, pods, lease, queue, worker, faults>>

\* An evaluation that fails ends the reconcile, once the lease is released.
Abandon(r) ==
    /\ Work(r, [worker[r] EXCEPT !.pc = "mark", !.evals = 1, !.again = TRUE])
    /\ Plan(r, <<>>)

\* The victim's CR has disappeared, or RetryOnConflict has run out of tries
\* before the cache caught up: the evaluation returns the error and leaves the
\* marks still to make unmade.
MarkFails(r) ==
    /\ worker[r].pc = "mark" /\ plan[r] # <<>>
    /\ LET v == Head(plan[r]).victim
       IN \/ View(r)[v].phase = "Absent"
          \/ View(r)[v].phase = "Idle" /\ View(r)[v] # gw[v]
    /\ Abandon(r)
    /\ UNCHANGED <<gw, owner, pods, lease, cache, queue, faults>>

\* The deferred releaseLease, which leaves another holder's lease alone.
ReleaseLease(r) ==
    /\ worker[r].pc = "mark" /\ plan[r] = <<>>
    /\ lease' = [lease EXCEPT !.holder = IF @ = r THEN Nobody ELSE @]
    /\ EvaluationOver(r)
    /\ UNCHANGED <<gw, owner, pods, cache, plan, faults>>

-----------------------------------------------------------------------------
(* Faults. *)

Fault == faults < MaxFaults /\ faults' = faults + 1

\* An API call of a reconcile fails: the reconcile returns the error. In the
\* evaluation, only after the lease has been released.
ApiError(r) ==
    /\ Fault
    /\ \/ /\ worker[r].pc \in {"reap", "delete", "outcome", "sync", "reget",
                               "commit"}
          /\ Return(r, TRUE)
          /\ UNCHANGED plan
       \/ /\ \/ worker[r].pc = "list"
             \/ worker[r].pc = "mark" /\ plan[r] # <<>>
          /\ Abandon(r)
          /\ UNCHANGED queue
    /\ UNCHANGED <<gw, owner, pods, lease, cache>>

\* A call on the lease fails, or meets a copy in the cache that is out of date:
\* the lease is not acquired, or left to expire.
LeaseError(r) ==
    /\ Fault
    /\ \/ worker[r].pc = "acquire"
       \/ worker[r].pc = "mark" /\ plan[r] = <<>>
    /\ EvaluationOver(r)
    /\ UNCHANGED <<gw, owner, pods, lease, cache, plan>>

\* A status update lands, but its response is lost: the reconcile returns an
\* error where it would have evaluated.
ResponseLost(r) ==
    LET w == worker[r].w
    IN /\ Fault
       /\ worker[r].pc \in {"outcome", "commit"}
       /\ Unchanged(r)
       /\ Return(r, TRUE)
       /\ Write(w, worker[r].next)
       /\ UNCHANGED <<owner, pods, lease, plan>>

\* The process restarts: its cache is filled and every CR is enqueued.
Crash(r) ==
    /\ Fault
    /\ Work(r, NoWork)
    /\ Plan(r, <<>>)
    /\ queue' = [queue EXCEPT ![r] = {w \in Workloads : gw[w].phase # "Absent"}]
    /\ cache' = [cache EXCEPT ![r] = <<gw>>]
    /\ UNCHANGED <<gw, owner, pods, lease>>

-----------------------------------------------------------------------------
(* The scraper, the cluster and the clock. *)

\* The scraper of some replica finds another utilization for those of the pods
\* tracked by a CR that report one. Its update, too, needs a current copy.
Scrape(w) ==
    /\ gw[w].phase \notin TerminalPhases
    /\ gw[w].util # "untracked"
    /\ HasPods(pods[w])
    /\ \E r \in Replicas : View(r)[w] = gw[w]
    /\ \E util \in {"low", "busy"} \ {gw[w].util} :
          Write(w, Sampled(gw[w], util))
    /\ UNCHANGED <<owner, pods, lease, queue, worker, plan, faults>>

\* Pods and Kueue Workloads come, go and change. podToGpuWorkload and
\* workloadToGpuWorkload enqueue the CR if they can resolve the root owner. The
\* removal of a pod resolves to nothing, as the pod itself is looked up first.
PodsChange(w) ==
    /\ \E seen \in (IF owner[w] = "present" THEN PodStates[w] ELSE {"none"})
                    \ {pods[w]} :
          /\ pods' = [pods EXCEPT ![w] = seen]
          /\ \/ /\ owner[w] = "present"
                /\ queue' = [r \in Replicas |-> queue[r] \cup {w}]
             \/ /\ seen = "none"
                /\ UNCHANGED queue
    /\ UNCHANGED <<gw, owner, lease, cache, worker, plan, faults>>

\* Somebody deletes the owner, or it completes and is collected. No watch of the
\* operator reports it.
OwnerVanishes(w) ==
    /\ w \in Vanishing /\ owner[w] = "present"
    /\ owner' = [owner EXCEPT ![w] = "gone"]
    /\ UNCHANGED <<gw, pods, lease, cache, queue, worker, plan, faults>>

\* A new object under the owner's name, with another UID and a CR of its own.
OwnerRecreated(w) ==
    /\ w \in Reused /\ owner[w] = "gone"
    /\ owner' = [owner EXCEPT ![w] = "recreated"]
    /\ UNCHANGED <<gw, pods, lease, cache, queue, worker, plan, faults>>

\* The cache of r receives the next version; the watch event enqueues the CR.
CacheSync(r) ==
    /\ Len(cache[r]) > 1
    /\ cache' = [cache EXCEPT ![r] = Tail(@)]
    /\ queue' = [queue EXCEPT ![r] =
                   @ \cup {w \in Workloads : cache[r][1][w] # cache[r][2][w]}]
    /\ UNCHANGED <<gw, owner, pods, lease, worker, plan, faults>>

\* The informer's periodic resync enqueues every CR.
Resync(r) ==
    /\ queue' = [queue EXCEPT ![r] =
                   @ \cup {w \in Workloads : View(r)[w].phase # "Absent"}]
    /\ UNCHANGED <<gw, owner, pods, lease, cache, worker, plan, faults>>

AgedAll(crs) == [w \in Workloads |-> Aged(crs[w])]

\* One tick of the clock, in every copy of every timestamp.
Tick ==
    /\ gw' = AgedAll(gw)
    /\ cache' = [r \in Replicas |->
                   [i \in DOMAIN cache[r] |-> AgedAll(cache[r][i])]]
    /\ worker' = [r \in Replicas |->
                    [worker[r] EXCEPT !.copy = Aged(@), !.next = Aged(@)]]
    /\ lease' = [lease EXCEPT !.age = IF @ < LeaseDuration THEN @ + 1 ELSE @]
    /\ UNCHANGED <<owner, pods, queue, plan, faults>>

-----------------------------------------------------------------------------
Reconcile(r, w) ==
    \/ ReconcileNothing(r, w) \/ ReconcileTerminal(r, w)
    \/ ReconcilePreempting(r, w)
    \/ ReconcileLost(r, w) \/ ReconcileLive(r, w)

Continue(r) ==
    \/ Reap(r) \/ DeleteOwner(r) \/ CommitOutcome(r)
    \/ SyncSpec(r) \/ Reget(r) \/ CommitStatus(r)
    \/ TryAcquire(r) \/ Evaluate(r) \/ MarkVictim(r) \/ MarkFails(r)
    \/ ReleaseLease(r)

Faulty(r) == ApiError(r) \/ LeaseError(r) \/ ResponseLost(r) \/ Crash(r)

Cluster(w) ==
    Scrape(w) \/ PodsChange(w) \/ OwnerVanishes(w) \/ OwnerRecreated(w)

Next ==
    \/ \E r \in Replicas :
          \/ \E w \in Workloads : Reconcile(r, w)
          \/ Continue(r) \/ Faulty(r) \/ CacheSync(r) \/ Resync(r)
    \/ \E w \in Workloads : Cluster(w)
    \/ Tick

Spec == Init /\ [][Next]_vars

\* The request for w in r's queue is not one that waits for the TTL.
Due(r, w) ==
    /\ w \in queue[r]
    /\ View(r)[w].phase \in TerminalPhases => Ttl = 0 \/ TtlElapsed(View(r)[w])

\* A reconcile of w by r comes to a conditional write.
Attempt(r, w) ==
    worker[r].w = w /\ (SyncSpec(r) \/ CommitOutcome(r) \/ CommitStatus(r))

\* The work queue hands out every request that is due; a reconcile goes on;
\* caches catch up and are resynced; time passes. A write that is tried again
\* and again is not beaten by the scraper, which polls every few seconds, each
\* time. Nothing is assumed of the cluster or of faults.
Fairness ==
    /\ \A r \in Replicas :
          /\ \A w \in Workloads :
                /\ []<>~Due(r, w)
                /\ []<><<Attempt(r, w)>>_vars
                     => []<><<Attempt(r, w) /\ Unchanged(r)>>_vars
          /\ []<><<MarkFails(r)>>_vars => []<><<MarkVictim(r)>>_vars
          /\ WF_vars(Continue(r))
          /\ WF_vars(CacheSync(r))
          /\ WF_vars(Resync(r))
    /\ WF_vars(Tick)

LiveSpec == Spec /\ Fairness

-----------------------------------------------------------------------------
(* Safety. *)

Jobs == [pc : {"idle", "reap", "delete", "outcome", "sync", "reget", "commit",
               "acquire", "list", "mark"},
         w : Workloads \cup {None}, copy : CR, seen : PodViews, next : CR,
         evals : 0..2, again : BOOLEAN]

TypeOK ==
    /\ gw \in [Workloads -> CR]
    /\ owner \in [Workloads -> Owners]
    /\ pods \in [Workloads -> PodViews]
    /\ lease \in [holder : Replicas \cup {Nobody}, age : 0..LeaseDuration]
    /\ cache \in [Replicas -> Seq([Workloads -> CR])]
    /\ queue \in [Replicas -> SUBSET Workloads]
    /\ worker \in [Replicas -> Jobs]
    /\ faults \in 0..MaxFaults

\* Every stored CR is well-formed: no write, whichever version of the CR it was
\* computed from, leaves an idle clock running outside Idle, or a terminal CR
\* without the FinishedAt that handleTerminal needs to remove it.
StatusWellFormed == \A w \in Workloads : WellFormed(gw[w])

\* Preempted and Deleted are only ever recorded of an owner that is gone: no
\* stale read, crash or lost response makes the operator close the CR of a
\* workload that still runs, and so stop tracking it.
TerminalMeansOwnerGone ==
    \A w \in Workloads : gw[w].phase \in TerminalPhases => owner[w] # "present"

\* A workload is marked only if the stored CR shows it idle for its whole grace
\* period at that moment, although the mark checks no more than the phase.
GraceRespected ==
    [][\A w \in Workloads :
         gw[w].phase # "Preempting" /\ gw'[w].phase = "Preempting"
           => /\ gw[w].phase = "Idle"
              /\ gw[w].idleSince # None /\ gw[w].idleSince >= Grace]_vars

\* A terminal CR stays as it is until it is removed.
TerminalIsFinal ==
    [][\A w \in Workloads : gw[w].phase \in TerminalPhases
         => gw'[w].phase \in {gw[w].phase, "Absent"}]_vars

\* The operator deletes a tracked owner only while its CR says so: a step of a
\* worker that removes the owner finds the stored CR Preempting.
OnlyMarkedOwnersDeleted ==
    [][\A w \in Workloads :
         (/\ owner[w] = "present" /\ owner'[w] = "gone"
          /\ <<worker, plan>>' # <<worker, plan>>)
           => gw[w].phase = "Preempting"]_vars

\* A PendingGpu phase that causes preemption means pods that wait for GPUs: the
\* pending workload's owner is not gone for good, with no reconcile that could
\* find out under way or queued.
PressureIsReal ==
    [][\A v, p \in Workloads :
         (gw[v].phase = "Idle" /\ gw'[v].phase = "Preempting"
                              /\ gw'[v].preemptedFor = p)
           => \/ owner[p] = "present"
              \/ \E r \in Replicas : p \in queue[r] \/ worker[r].w = p]_vars

-----------------------------------------------------------------------------
(* Liveness. *)

\* A marked workload does not stay Preempting: handlePreempting is retried
\* until the owner is deleted or the CR reverted.
PreemptingEnds ==
    \A w \in Workloads :
        gw[w].phase = "Preempting" ~> gw[w].phase # "Preempting"

\* The CR of a vanished owner is closed and, its TTL over, removed.
LostOwnerIsCleanedUp ==
    \A w \in Workloads : owner[w] # "present" ~> gw[w].phase = "Absent"

\* A workload the operator may not delete is not marked again and again.
UndeletableIsLeftAlone ==
    \A w \in Undeletable : <>[](gw[w].phase # "Preempting")

-----------------------------------------------------------------------------
\* The controller implements the documented life cycle of a CR.
Lifecycle == INSTANCE GpuWorkloadLifecycle WITH
    phase  <- [w \in Workloads |-> gw[w].phase],
    exists <- [w \in Workloads |-> owner[w] = "present"]

FollowsLifecycle == Lifecycle!Spec

=============================================================================
