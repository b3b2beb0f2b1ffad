-------------------- MODULE GpuWorkloadController_proofs --------------------
(***************************************************************************)
(* Safety of the controller for any number of replicas and workloads, any  *)
(* lag of their caches, and any number of faults.                          *)
(*                                                                         *)
(* What a worker writes was computed from a version of the CR it read from *)
(* its cache earlier. So the invariant speaks of every version that is     *)
(* around: stored, cached, on its way to a cache, or about to be written.  *)
(***************************************************************************)
EXTENDS GpuWorkloadController, GpuWorkloadStatus_proofs, SequenceTheorems

\* A version g of the CR of w that may be stored while the owners are as in o.
Version(o, w, g) ==
    /\ g \in CR
    /\ WellFormed(g)
    /\ g.phase \in TerminalPhases => o[w] # "present"

\* A reconcile in progress that is going to write a version of the CR of the
\* workload it has taken from the queue.
Sound(o, j) ==
    /\ j \in Jobs
    /\ j.pc # "idle" => j.w \in Workloads /\ Version(o, j.w, j.next)

\* A cache holds versions of the CRs, as do the updates it has yet to receive.
Cached(o, c) ==
    /\ c \in Seq([Workloads -> CR])
    /\ c # <<>>
    /\ \A i \in DOMAIN c, w \in Workloads : Version(o, w, c[i][w])

\* The CRs stored in s, and cached in c.
Stored(o, s, c) ==
    /\ s \in [Workloads -> CR]
    /\ \A w \in Workloads : Version(o, w, s[w])
    /\ c \in [Replicas -> Seq([Workloads -> CR])]
    /\ \A r \in Replicas : Cached(o, c[r])

VersionsOK ==
    /\ Stored(owner, gw, cache)
    /\ \A r \in Replicas : Sound(owner, worker[r])

Inv == TypeOK /\ VersionsOK

-----------------------------------------------------------------------------
(* The parts that actions are made of. *)

\* What a replica reads of a CR is a version of it.
LEMMA ViewVersion ==
    ASSUME Inv, NEW r \in Replicas, NEW w \in Workloads
    PROVE  Version(owner, w, View(r)[w])
  <1>1. /\ cache[r] # <<>> /\ cache[r] \in Seq([Workloads -> CR])
        /\ \A i \in DOMAIN cache[r] : Version(owner, w, cache[r][i][w])
    BY DEF Inv, VersionsOK, Stored, Cached
  <1>2. 1 \in DOMAIN cache[r]
    BY <1>1
  <1> QED
    BY <1>1, <1>2 DEF View

\* A cache to which one more update is on its way.
LEMMA AppendCached ==
    ASSUME NEW o, NEW c, Cached(o, c), NEW s \in [Workloads -> CR],
           \A w \in Workloads : Version(o, w, s[w])
    PROVE  Cached(o, Append(c, s))
  <1> DEFINE CRs == [Workloads -> CR]
  <1>1. /\ c \in Seq(CRs) /\ s \in CRs
        /\ \A i \in DOMAIN c, w \in Workloads : Version(o, w, c[i][w])
    BY DEF Cached
  <1> HIDE DEF CRs
  <1>2. /\ Append(c, s) \in Seq(CRs) /\ Append(c, s) # <<>>
        /\ DOMAIN c = 1..Len(c) /\ DOMAIN Append(c, s) = 1..(Len(c) + 1)
        /\ \A i \in 1..Len(c) : Append(c, s)[i] = c[i]
        /\ Append(c, s)[Len(c) + 1] = s
        /\ Len(c) \in Nat
    BY <1>1, AppendProperties
  <1>3. ASSUME NEW i \in DOMAIN Append(c, s)
        PROVE  \/ i \in DOMAIN c /\ Append(c, s)[i] = c[i]
               \/ Append(c, s)[i] = s
    BY <1>2
  <1> QED
    BY <1>1, <1>2, <1>3, Zenon DEF Cached, CRs

\* A cache that has received one of several updates.
LEMMA TailCached ==
    ASSUME NEW o, NEW c, Cached(o, c), Len(c) > 1
    PROVE  Cached(o, Tail(c))
  <1> DEFINE CRs == [Workloads -> CR]
  <1>1. /\ c \in Seq(CRs) /\ c # <<>>
        /\ \A i \in DOMAIN c, w \in Workloads : Version(o, w, c[i][w])
    BY DEF Cached
  <1> HIDE DEF CRs
  <1>2. /\ Tail(c) \in Seq(CRs) /\ Tail(c) # <<>>
        /\ \A i \in DOMAIN Tail(c) : i + 1 \in DOMAIN c /\ Tail(c)[i] = c[i + 1]
    <2>1. /\ Tail(c) \in Seq(CRs) /\ Len(Tail(c)) = Len(c) - 1
          /\ \A i \in 1..Len(Tail(c)) : Tail(c)[i] = c[i + 1]
      BY <1>1, HeadTailProperties
    <2>2. /\ DOMAIN c = 1..Len(c) /\ Len(c) \in Nat
          /\ DOMAIN Tail(c) = 1..Len(Tail(c))
      BY <1>1, <2>1
    <2>3. Tail(c) # <<>>
      <3>1. Len(Tail(c)) # 0
        BY <2>1, <2>2
      <3> QED
        BY <2>1, <3>1, EmptySeq
    <2> QED
      BY <2>1, <2>2, <2>3
  <1>3. \A i \in DOMAIN Tail(c), w \in Workloads : Version(o, w, Tail(c)[i][w])
    BY <1>1, <1>2
  <1> QED
    BY <1>2, <1>3 DEF Cached, CRs

\* An idle worker is sound.
LEMMA NoWorkSound == ASSUME NEW o PROVE Sound(o, NoWork)
  BY AbsentWellFormed DEF NoWork, Sound, Jobs, PodViews

\* Writing a version of a CR keeps the store and the caches.
LEMMA WriteKeeps ==
    ASSUME Inv, NEW w \in Workloads, NEW g, Version(owner, w, g), Write(w, g)
    PROVE  Stored(owner, gw', cache')
  <1>1. Stored(owner, gw, cache) /\ gw \in [Workloads -> CR] /\ g \in CR
    BY DEF Inv, VersionsOK, Stored, Version
  <1>2. gw' = [gw EXCEPT ![w] = g]
    BY DEF Write
  <1>3. gw' \in [Workloads -> CR]
    BY <1>1, <1>2
  <1>4. \A v \in Workloads : gw'[v] = IF v = w THEN g ELSE gw[v]
    BY <1>1, <1>2
  <1>5. \A v \in Workloads : Version(owner, v, gw'[v])
    BY <1>1, <1>4 DEF Stored
  <1>6. CASE g = gw[w]
    BY <1>1, <1>3, <1>5, <1>6 DEF Write, Stored
  <1>7. CASE g # gw[w]
    <2>1. cache' = [r \in Replicas |-> Append(cache[r], gw')]
      BY <1>7 DEF Write
    <2>2. ASSUME NEW r \in Replicas
          PROVE  Cached(owner, Append(cache[r], gw'))
      <3>1. Cached(owner, cache[r])
        BY <1>1 DEF Stored
      <3> QED
        BY <1>3, <1>5, <3>1, AppendCached
    <2>3. cache' \in [Replicas -> Seq([Workloads -> CR])]
      BY <2>1, <2>2 DEF Cached
    <2>4. \A r \in Replicas : Cached(owner, cache'[r])
      BY <2>1, <2>2
    <2> QED
      BY <1>3, <1>5, <2>3, <2>4 DEF Stored
  <1> QED
    BY <1>6, <1>7

\* A worker that takes up a sound reconcile leaves every worker sound.
LEMMA WorkKeeps ==
    ASSUME Inv, NEW r \in Replicas, NEW o, NEW j, Sound(o, j), Work(r, j),
           \A q \in Replicas : Sound(o, worker[q])
    PROVE  /\ worker' \in [Replicas -> Jobs]
           /\ \A q \in Replicas : Sound(o, worker'[q])
  <1>1. worker \in [Replicas -> Jobs] /\ j \in Jobs
    BY DEF Inv, TypeOK, Sound
  <1>2. worker' = [worker EXCEPT ![r] = j]
    BY DEF Work
  <1>3. worker' \in [Replicas -> Jobs]
    BY <1>1, <1>2
  <1>4. \A q \in Replicas : worker'[q] = IF q = r THEN j ELSE worker[q]
    BY <1>1, <1>2
  <1> QED
    BY <1>3, <1>4

\* Owners that disappear invalidate no version.
LEMMA OwnersOnlyGo ==
    ASSUME NEW o, NEW p, \A w \in Workloads : p[w] = "present" => o[w] = "present"
    PROVE  /\ \A w \in Workloads, g \in CR : Version(o, w, g) => Version(p, w, g)
           /\ \A j \in Jobs : Sound(o, j) => Sound(p, j)
           /\ \A s, c : Stored(o, s, c) => Stored(p, s, c)
  <1>1. \A w \in Workloads, g \in CR : Version(o, w, g) => Version(p, w, g)
    BY DEF Version
  <1>2. \A j \in Jobs : j.next \in CR
    BY DEF Jobs
  <1>3. \A c : Cached(o, c) => Cached(p, c)
    <2>1. \A w \in Workloads : \A g : Version(o, w, g) => Version(p, w, g)
      BY DEF Version
    <2> QED
      BY <2>1 DEF Cached
  <1>4. \A s, c : Stored(o, s, c) => Stored(p, s, c)
    <2>1. \A w \in Workloads : \A g : Version(o, w, g) => Version(p, w, g)
      BY DEF Version
    <2> QED
      BY <1>3, <2>1 DEF Stored
  <1>5. \A j \in Jobs : Sound(o, j) => Sound(p, j)
    BY <1>1, <1>2 DEF Sound
  <1> QED
    BY <1>1, <1>4, <1>5

\* The queues after a reconcile has returned.
LEMMA ReturnedType ==
    ASSUME Inv, NEW r \in Replicas, NEW w \in Workloads, NEW again
    PROVE  Returned(r, w, again) \in [Replicas -> SUBSET Workloads]
  BY DEF Inv, TypeOK, Returned

\* A reconcile that returns, or goes on to its next evaluation.
LEMMA ReturnKeeps ==
    ASSUME Inv, NEW r \in Replicas, NEW again, worker[r].pc # "idle",
           Return(r, again)
    PROVE  /\ worker' \in [Replicas -> Jobs]
           /\ \A q \in Replicas : Sound(owner, worker'[q])
           /\ queue' \in [Replicas -> SUBSET Workloads]
  <1>1. worker[r].w \in Workloads
    BY DEF Inv, VersionsOK, Sound
  <1>2. \A q \in Replicas : Sound(owner, worker[q])
    BY DEF Inv, VersionsOK
  <1>3. Work(r, NoWork) /\ queue' = Returned(r, worker[r].w, again)
    BY DEF Return
  <1> QED
    BY <1>1, <1>2, <1>3, WorkKeeps, NoWorkSound, ReturnedType

LEMMA EvaluationOverKeeps ==
    ASSUME Inv, NEW r \in Replicas, worker[r].pc # "idle", EvaluationOver(r)
    PROVE  /\ worker' \in [Replicas -> Jobs]
           /\ \A q \in Replicas : Sound(owner, worker'[q])
           /\ queue' \in [Replicas -> SUBSET Workloads]
  <1>1. CASE worker[r].evals > 1
    <2> DEFINE j == [worker[r] EXCEPT !.pc = "acquire", !.evals = @ - 1]
    <2>1. Sound(owner, worker[r]) /\ worker[r] \in Jobs
      BY DEF Inv, VersionsOK, TypeOK
    <2>2. worker[r].evals - 1 \in 0..2
      BY <1>1, <2>1 DEF Jobs
    <2>3. j \in Jobs /\ j.w = worker[r].w /\ j.next = worker[r].next
      BY <2>1, <2>2 DEF Jobs
    <2>4. Sound(owner, j)
      BY <2>1, <2>3 DEF Sound
    <2>5. Work(r, j) /\ queue' = queue
      BY <1>1 DEF EvaluationOver
    <2>6. \A q \in Replicas : Sound(owner, worker[q])
      BY DEF Inv, VersionsOK
    <2> HIDE DEF j
    <2> QED
      BY <2>4, <2>5, <2>6, WorkKeeps DEF Inv, TypeOK
  <1>2. CASE ~(worker[r].evals > 1)
    BY <1>2, ReturnKeeps DEF EvaluationOver
  <1> QED
    BY <1>1, <1>2

-----------------------------------------------------------------------------
(* Reconcile, up to its first write. *)

LEMMA DequeueKeeps ==
    ASSUME Inv, NEW r \in Replicas, NEW w \in Workloads, NEW j, Sound(owner, j),
           Dequeue(r, w, j),
           UNCHANGED <<gw, owner, pods, lease, cache, plan, faults>>
    PROVE  Inv'
  <1>1. \A q \in Replicas : Sound(owner, worker[q])
    BY DEF Inv, VersionsOK
  <1>2. /\ worker' \in [Replicas -> Jobs]
        /\ \A q \in Replicas : Sound(owner, worker'[q])
    BY <1>1, WorkKeeps DEF Dequeue
  <1>3. queue' \in [Replicas -> SUBSET Workloads]
    BY DEF Dequeue, Inv, TypeOK
  <1> QED
    BY <1>2, <1>3 DEF Inv, TypeOK, VersionsOK

\* Whatever the reconcile finds, it sets out to write a version of the CR.
LEMMA ReconcileKeeps ==
    ASSUME Inv, NEW r \in Replicas, NEW w \in Workloads, Reconcile(r, w)
    PROVE  Inv'
  <1> DEFINE g == View(r)[w]
  <1>1. Version(owner, w, g) /\ g \in CR
    BY ViewVersion DEF Version
  <1>2. Version(owner, w, Absent)
    BY AbsentWellFormed DEF Version, TerminalPhases
  <1>3. NoWork \in Jobs /\ NoWork.next = Absent
    BY NoWorkSound DEF Sound, NoWork
  <1>4. CASE ReconcileNothing(r, w)
    BY <1>4, NoWorkSound, DequeueKeeps DEF ReconcileNothing
  <1>5. CASE ReconcileTerminal(r, w)
    <2>1. Sound(owner, [NoWork EXCEPT !.pc = "reap", !.w = w])
      BY <1>2, <1>3 DEF Sound, Jobs
    <2> QED
      BY <1>5, <2>1, DequeueKeeps DEF ReconcileTerminal
  <1>6. CASE ReconcilePreempting(r, w)
    <2> HIDE DEF g
    <2>1. Sound(owner, [NoWork EXCEPT !.pc = "delete", !.w = w, !.copy = g])
      BY <1>1, <1>2, <1>3 DEF Sound, Jobs
    <2> QED
      BY <1>6, <2>1, DequeueKeeps DEF ReconcilePreempting, g
  <1>7. CASE ReconcileLost(r, w)
    <2>1. Version(owner, w, Lost(g))
      BY <1>1, <1>7, TerminalWellFormed
      DEF ReconcileLost, Lost, Version, TerminalPhases
    <2> HIDE DEF g
    <2>2. Lost(g) \in CR
      BY <2>1 DEF Version
    <2>3. Sound(owner, [NoWork EXCEPT !.pc = "outcome", !.w = w, !.copy = g,
                                      !.next = Lost(g)])
      BY <1>1, <1>3, <2>1, <2>2 DEF Sound, Jobs
    <2> QED
      BY <1>7, <2>3, DequeueKeeps DEF ReconcileLost, g
  <1>8. CASE ReconcileLive(r, w)
    <2> DEFINE pc == IF HasPods(pods[w]) /\ g.gpus # Total[w]
                       THEN "sync" ELSE "commit"
               next == Observed(g, pods[w])
    <2>1. pods[w] \in PodViews
      BY DEF Inv, TypeOK
    <2>2. Version(owner, w, next)
      BY <1>1, <2>1, ObservedType DEF Version
    <2>3. pc \in {"sync", "commit"} /\ next \in CR
      BY <2>2 DEF Version
    <2>4. Dequeue(r, w, [NoWork EXCEPT !.pc = pc, !.w = w, !.copy = g,
                                       !.seen = pods[w], !.next = next])
      BY <1>8 DEF ReconcileLive
    <2> HIDE DEF g, pc, next
    <2>5. Sound(owner, [NoWork EXCEPT !.pc = pc, !.w = w, !.copy = g,
                                      !.seen = pods[w], !.next = next])
      BY <1>1, <1>3, <2>1, <2>2, <2>3 DEF Sound, Jobs
    <2> QED
      BY <1>8, <2>4, <2>5, DequeueKeeps DEF ReconcileLive
  <1> QED
    BY <1>4, <1>5, <1>6, <1>7, <1>8 DEF Reconcile

-----------------------------------------------------------------------------
(* The writes of Reconcile and of its handlers. *)

\* A step that writes a version of one CR, or none, and moves the workers.
LEMMA CommitKeeps ==
    ASSUME Inv,
           Stored(owner, gw', cache'),
           queue' \in [Replicas -> SUBSET Workloads],
           worker' \in [Replicas -> Jobs],
           \A q \in Replicas : Sound(owner, worker'[q]),
           faults' \in 0..MaxFaults,
           UNCHANGED <<owner, pods, lease>>
    PROVE  Inv'
  <1>1. gw' \in [Workloads -> CR] /\ cache' \in [Replicas -> Seq([Workloads -> CR])]
    BY DEF Stored
  <1> QED
    BY <1>1 DEF Inv, TypeOK, VersionsOK

LEMMA ReapKeeps ==
    ASSUME Inv, NEW r \in Replicas, Reap(r)
    PROVE  Inv'
  <1>1. worker[r].w \in Workloads
    BY DEF Inv, VersionsOK, Sound, Reap
  <1>2. Version(owner, worker[r].w, Absent)
    BY AbsentWellFormed DEF Version, TerminalPhases
  <1>3. Write(worker[r].w, Absent) /\ Work(r, NoWork) /\ queue' = queue
    BY DEF Reap
  <1>4. queue \in [Replicas -> SUBSET Workloads] /\ faults \in 0..MaxFaults
    BY DEF Inv, TypeOK
  <1>5. \A q \in Replicas : Sound(owner, worker[q])
    BY DEF Inv, VersionsOK
  <1>6. /\ worker' \in [Replicas -> Jobs]
        /\ \A q \in Replicas : Sound(owner, worker'[q])
    BY <1>3, <1>5, NoWorkSound, WorkKeeps
  <1>7. Stored(owner, gw', cache')
    BY <1>1, <1>2, <1>3, WriteKeeps
  <1> QED
    BY <1>3, <1>4, <1>6, <1>7, CommitKeeps DEF Reap

\* The deletion comes before the status that presumes it: once the worker is
\* going to write Preempted, the owner is gone.
LEMMA DeleteOwnerKeeps ==
    ASSUME Inv, NEW r \in Replicas, DeleteOwner(r)
    PROVE  Inv'
  <1> DEFINE w == worker[r].w
             g == worker[r].copy
  <1>1. worker[r] \in Jobs /\ w \in Workloads /\ g \in CR
    BY DEF Inv, VersionsOK, Sound, DeleteOwner, Jobs
  <1>2. owner \in [Workloads -> Owners]
    BY DEF Inv, TypeOK
  <1>3. /\ owner' \in [Workloads -> Owners]
        /\ \A v \in Workloads : owner'[v] = "present" => owner[v] = "present"
    BY <1>1, <1>2 DEF DeleteOwner, Owners
  <1>4. PICK next :
          /\ Version(owner', w, next)
          /\ Work(r, [worker[r] EXCEPT !.pc = "outcome", !.next = next])
    <2>1. CASE w \in Undeletable
      <3>1. Version(owner', w, Reverted(g))
        BY <1>1, RevertedWellFormed DEF Version, TerminalPhases
      <3> QED
        BY <2>1, <3>1 DEF DeleteOwner
    <2>2. CASE w \notin Undeletable
      <3>1. owner'[w] = "gone"
        BY <1>1, <1>2, <2>2 DEF DeleteOwner
      <3>2. Version(owner', w, Finished(g))
        BY <1>1, <3>1, TerminalWellFormed DEF Version, Finished, TerminalPhases
      <3> QED
        BY <2>2, <3>2 DEF DeleteOwner
    <2> QED
      BY <2>1, <2>2
  <1>5. Sound(owner', [worker[r] EXCEPT !.pc = "outcome", !.next = next])
    <2>1. next \in CR
      BY <1>4 DEF Version
    <2> QED
      BY <1>1, <1>4, <2>1 DEF Sound, Jobs
  <1>6. \A q \in Replicas : Sound(owner', worker[q])
    BY <1>3, OwnersOnlyGo DEF Inv, VersionsOK, TypeOK
  <1>7. /\ worker' \in [Replicas -> Jobs]
        /\ \A q \in Replicas : Sound(owner', worker'[q])
    BY <1>4, <1>5, <1>6, WorkKeeps
  <1>8. Stored(owner', gw, cache)
    BY <1>3, OwnersOnlyGo DEF Inv, VersionsOK
  <1> QED
    BY <1>3, <1>7, <1>8 DEF DeleteOwner, Inv, TypeOK, VersionsOK

LEMMA CommitOutcomeKeeps ==
    ASSUME Inv, NEW r \in Replicas, CommitOutcome(r)
    PROVE  Inv'
  <1> DEFINE w == worker[r].w
             g == IF Unchanged(r) THEN worker[r].next ELSE gw[w]
  <1>1. w \in Workloads /\ Version(owner, w, worker[r].next)
    BY DEF Inv, VersionsOK, Sound, CommitOutcome
  <1>2. Version(owner, w, g)
    BY <1>1 DEF Inv, VersionsOK, Stored
  <1>3. Write(w, g) /\ Return(r, TRUE) /\ worker[r].pc # "idle"
    BY DEF CommitOutcome
  <1>4. faults \in 0..MaxFaults
    BY DEF Inv, TypeOK
  <1> HIDE DEF g
  <1>5. Stored(owner, gw', cache')
    BY <1>1, <1>2, <1>3, WriteKeeps
  <1> QED
    BY <1>3, <1>4, <1>5, ReturnKeeps, CommitKeeps DEF CommitOutcome

LEMMA SyncSpecKeeps ==
    ASSUME Inv, NEW r \in Replicas, SyncSpec(r)
    PROVE  Inv'
  <1> DEFINE w == worker[r].w
             g == [gw[w] EXCEPT !.gpus = Total[w]]
             j == [worker[r] EXCEPT !.pc = "reget"]
  <1>1. /\ worker[r].pc = "sync" /\ worker[r] \in Jobs
        /\ w \in Workloads /\ Sound(owner, worker[r])
    BY DEF Inv, VersionsOK, Sound, SyncSpec
  <1>2. /\ queue \in [Replicas -> SUBSET Workloads]
        /\ gw \in [Workloads -> CR]
        /\ faults \in 0..MaxFaults
    BY DEF Inv, TypeOK
  <1>3. \A q \in Replicas : Sound(owner, worker[q])
    BY DEF Inv, VersionsOK
  <1>4. CASE Unchanged(r)
    <2>1. Version(owner, w, gw[w]) /\ gw[w] \in CR
      BY <1>1 DEF Inv, VersionsOK, Stored, Version
    <2>2. Total[w] \in [Resources -> Nat]
      BY <1>1, ControllerAssumption
    <2>3. /\ g \in CR /\ g.phase = gw[w].phase /\ g.idleSince = gw[w].idleSince
          /\ g.finishedAt = gw[w].finishedAt /\ g.util = gw[w].util
      BY <2>1, <2>2 DEF CR
    <2>4. Version(owner, w, g)
      BY <2>1, <2>3 DEF Version, WellFormed
    <2>5. j \in Jobs /\ j.w = w /\ j.next = worker[r].next
      BY <1>1 DEF Jobs
    <2>6. Sound(owner, j)
      BY <1>1, <2>5 DEF Sound
    <2>7. Write(w, g) /\ Work(r, j) /\ queue' = queue
      BY <1>4 DEF SyncSpec
    <2> HIDE DEF g, j
    <2>8. /\ worker' \in [Replicas -> Jobs]
          /\ \A q \in Replicas : Sound(owner, worker'[q])
      BY <1>3, <2>6, <2>7, WorkKeeps
    <2>9. Stored(owner, gw', cache')
      BY <1>1, <2>4, <2>7, WriteKeeps
    <2> QED
      BY <1>2, <2>7, <2>8, <2>9, CommitKeeps DEF SyncSpec
  <1>5. CASE ~Unchanged(r)
    <2>1. /\ worker' \in [Replicas -> Jobs]
          /\ \A q \in Replicas : Sound(owner, worker'[q])
          /\ queue' \in [Replicas -> SUBSET Workloads]
      BY <1>1, <1>5, ReturnKeeps DEF SyncSpec
    <2>2. UNCHANGED <<gw, owner, pods, lease, cache, faults>>
      BY <1>5 DEF SyncSpec
    <2> QED
      BY <1>2, <2>1, <2>2, CommitKeeps DEF Inv, VersionsOK
  <1> QED
    BY <1>4, <1>5

\* The phase is not looked at again after the second read, so an observation of
\* pods may be applied to a CR that has become terminal; it stays a version.
LEMMA RegetKeeps ==
    ASSUME Inv, NEW r \in Replicas, Reget(r)
    PROVE  Inv'
  <1> DEFINE w    == worker[r].w
             g    == View(r)[w]
             next == Observed(g, worker[r].seen)
             j    == [worker[r] EXCEPT !.pc = "commit", !.copy = g, !.next = next]
  <1>1. worker[r].pc = "reget" /\ worker[r] \in Jobs /\ w \in Workloads
    BY DEF Inv, VersionsOK, Sound, Reget
  <1>2. \A q \in Replicas : Sound(owner, worker[q])
    BY DEF Inv, VersionsOK
  <1>3. Version(owner, w, g) /\ g \in CR /\ worker[r].seen \in PodViews
    BY <1>1, ViewVersion DEF Version, Jobs
  <1>4. Version(owner, w, next) /\ next \in CR
    BY <1>3, ObservedType DEF Version
  <1>5. CASE g.phase = "Absent"
    <2>1. /\ worker' \in [Replicas -> Jobs]
          /\ \A q \in Replicas : Sound(owner, worker'[q])
          /\ queue' \in [Replicas -> SUBSET Workloads]
      BY <1>1, <1>5, ReturnKeeps DEF Reget
    <2> QED
      BY <2>1, CommitKeeps DEF Reget, Inv, TypeOK, VersionsOK
  <1>6. CASE g.phase # "Absent"
    <2>1. Work(r, j) /\ queue' = queue
      BY <1>6 DEF Reget
    <2> HIDE DEF g, next
    <2>2. Sound(owner, j)
      BY <1>1, <1>3, <1>4 DEF Sound, Jobs
    <2> HIDE DEF j
    <2>3. /\ worker' \in [Replicas -> Jobs]
          /\ \A q \in Replicas : Sound(owner, worker'[q])
      BY <1>2, <2>1, <2>2, WorkKeeps
    <2> QED
      BY <2>1, <2>3, CommitKeeps DEF Reget, Inv, TypeOK, VersionsOK
  <1> QED
    BY <1>5, <1>6

LEMMA CommitStatusKeeps ==
    ASSUME Inv, NEW r \in Replicas, CommitStatus(r)
    PROVE  Inv'
  <1> DEFINE w     == worker[r].w
             next  == worker[r].next
             evals == Evaluations(worker[r].copy.phase, next.phase)
             again == next.phase = "Idle"
             j     == [NoWork EXCEPT !.pc = "acquire", !.w = w,
                                     !.evals = evals, !.again = again]
             g     == IF Unchanged(r) THEN next ELSE gw[w]
  <1>1. w \in Workloads /\ Version(owner, w, next) /\ Version(owner, w, gw[w])
    BY DEF Inv, VersionsOK, Stored, Sound, CommitStatus
  <1>2. queue \in [Replicas -> SUBSET Workloads] /\ faults \in 0..MaxFaults
    BY DEF Inv, TypeOK
  <1>3. \A q \in Replicas : Sound(owner, worker[q])
    BY DEF Inv, VersionsOK
  <1>4. /\ Write(w, g) /\ worker[r].pc # "idle"
        /\ \/ Work(r, j) /\ queue' = queue
           \/ Return(r, ~Unchanged(r))
    BY DEF CommitStatus
  <1>5. Sound(owner, j)
    <2>1. evals \in 0..2 /\ again \in BOOLEAN
      BY DEF Evaluations
    <2>2. Version(owner, w, Absent) /\ NoWork \in Jobs /\ NoWork.next = Absent
      BY AbsentWellFormed, NoWorkSound DEF Version, TerminalPhases, Sound, NoWork
    <2> HIDE DEF evals, again
    <2> QED
      BY <1>1, <2>1, <2>2 DEF Sound, Jobs
  <1>6. Version(owner, w, g)
    BY <1>1
  <1> HIDE DEF next, evals, again, j, g
  <1>7. /\ worker' \in [Replicas -> Jobs]
        /\ \A q \in Replicas : Sound(owner, worker'[q])
        /\ queue' \in [Replicas -> SUBSET Workloads]
    BY <1>2, <1>3, <1>4, <1>5, WorkKeeps, ReturnKeeps
  <1>8. Stored(owner, gw', cache')
    BY <1>1, <1>4, <1>6, WriteKeeps
  <1> QED
    BY <1>2, <1>7, <1>8, CommitKeeps DEF CommitStatus

-----------------------------------------------------------------------------
(* The evaluation. Nothing is used of the plan: the mark reads the CR again. *)

\* A step that moves one worker and the lease, and writes no CR.
LEMMA LeaseKeeps ==
    ASSUME Inv,
           lease' \in [holder : Replicas \cup {Nobody}, age : 0..LeaseDuration],
           queue' \in [Replicas -> SUBSET Workloads],
           worker' \in [Replicas -> Jobs],
           \A q \in Replicas : Sound(owner, worker'[q]),
           faults' \in 0..MaxFaults,
           UNCHANGED <<gw, owner, pods, cache>>
    PROVE  Inv'
  BY DEF Inv, TypeOK, VersionsOK

\* A worker that goes on with its job in the evaluation stays sound.
LEMMA GoOnKeeps ==
    ASSUME Inv, NEW r \in Replicas, NEW j, Work(r, j), j \in Jobs,
           worker[r].pc # "idle",
           j.w = worker[r].w, j.next = worker[r].next
    PROVE  /\ worker' \in [Replicas -> Jobs]
           /\ \A q \in Replicas : Sound(owner, worker'[q])
  <1>1. \A q \in Replicas : Sound(owner, worker[q])
    BY DEF Inv, VersionsOK
  <1>2. Sound(owner, j)
    BY <1>1 DEF Sound
  <1> QED
    BY <1>1, <1>2, WorkKeeps

LEMMA TryAcquireKeeps ==
    ASSUME Inv, NEW r \in Replicas, TryAcquire(r)
    PROVE  Inv'
  <1> DEFINE j == [worker[r] EXCEPT !.pc = "list"]
  <1>1. worker[r].pc = "acquire" /\ worker[r] \in Jobs
    BY DEF Inv, TypeOK, TryAcquire
  <1>2. /\ queue \in [Replicas -> SUBSET Workloads]
        /\ lease \in [holder : Replicas \cup {Nobody}, age : 0..LeaseDuration]
        /\ faults \in 0..MaxFaults
    BY DEF Inv, TypeOK
  <1>3. CASE lease.holder = r \/ lease.age >= LeaseDuration
    <2>1. j \in Jobs /\ j.w = worker[r].w /\ j.next = worker[r].next
      BY <1>1 DEF Jobs
    <2>2. Work(r, j) /\ queue' = queue /\ lease' = [holder |-> r, age |-> 0]
      BY <1>3 DEF TryAcquire
    <2> HIDE DEF j
    <2>3. /\ worker' \in [Replicas -> Jobs]
          /\ \A q \in Replicas : Sound(owner, worker'[q])
      BY <1>1, <2>1, <2>2, GoOnKeeps
    <2>4. lease' \in [holder : Replicas \cup {Nobody}, age : 0..LeaseDuration]
      BY <2>2, ControllerAssumption
    <2> QED
      BY <1>2, <2>2, <2>3, <2>4, LeaseKeeps DEF TryAcquire
  <1>4. CASE ~(lease.holder = r \/ lease.age >= LeaseDuration)
    <2>1. EvaluationOver(r) /\ lease' = lease
      BY <1>4 DEF TryAcquire
    <2> QED
      BY <1>1, <1>2, <2>1, EvaluationOverKeeps, LeaseKeeps DEF TryAcquire
  <1> QED
    BY <1>3, <1>4

LEMMA EvaluateKeeps ==
    ASSUME Inv, NEW r \in Replicas, Evaluate(r)
    PROVE  Inv'
  <1> DEFINE j == [worker[r] EXCEPT !.pc = "mark"]
  <1>1. worker[r].pc = "list" /\ worker[r] \in Jobs /\ Work(r, j)
    BY DEF Inv, TypeOK, Evaluate
  <1>2. j \in Jobs /\ j.w = worker[r].w /\ j.next = worker[r].next
    BY <1>1 DEF Jobs
  <1> HIDE DEF j
  <1>3. /\ worker' \in [Replicas -> Jobs]
        /\ \A q \in Replicas : Sound(owner, worker'[q])
    BY <1>1, <1>2, GoOnKeeps
  <1> QED
    BY <1>3, LeaseKeeps DEF Evaluate, Inv, TypeOK

LEMMA MarkVictimKeeps ==
    ASSUME Inv, NEW r \in Replicas, MarkVictim(r)
    PROVE  Inv'
  <1>1. PICK v \in Workloads, p \in Workloads \cup {None} :
          UNCHANGED <<gw, cache>> \/ Write(v, Marked(gw[v], p))
    BY Zenon DEF MarkVictim
  <1>2. Version(owner, v, Marked(gw[v], p))
    BY MarkedWellFormed DEF Inv, TypeOK, Version, TerminalPhases
  <1>3. Stored(owner, gw', cache')
    <2>1. CASE UNCHANGED <<gw, cache>>
      BY <2>1 DEF Inv, VersionsOK
    <2>2. CASE Write(v, Marked(gw[v], p))
      BY <1>2, <2>2, WriteKeeps
    <2> QED
      BY <1>1, <2>1, <2>2
  <1> QED
    BY <1>3, CommitKeeps DEF MarkVictim, Inv, TypeOK, VersionsOK

LEMMA AbandonKeeps ==
    ASSUME Inv, NEW r \in Replicas, worker[r].pc # "idle", Abandon(r),
           faults' \in 0..MaxFaults,
           UNCHANGED <<gw, owner, pods, lease, cache, queue>>
    PROVE  Inv'
  <1> DEFINE evals == 1
             again == TRUE
             j == [worker[r] EXCEPT !.pc = "mark", !.evals = evals,
                                    !.again = again]
  <1>1. /\ worker[r] \in Jobs /\ Work(r, j)
        /\ evals \in 0..2 /\ again \in BOOLEAN
    BY DEF Inv, TypeOK, Abandon
  <1> HIDE DEF evals, again
  <1>2. j \in Jobs /\ j.w = worker[r].w /\ j.next = worker[r].next
    BY <1>1, Zenon DEF Jobs
  <1> HIDE DEF j
  <1>3. /\ worker' \in [Replicas -> Jobs]
        /\ \A q \in Replicas : Sound(owner, worker'[q])
    BY <1>1, <1>2, GoOnKeeps
  <1> QED
    BY <1>3, LeaseKeeps DEF Inv, TypeOK

LEMMA ReleaseLeaseKeeps ==
    ASSUME Inv, NEW r \in Replicas, ReleaseLease(r)
    PROVE  Inv'
  <1>1. worker[r].pc # "idle" /\ EvaluationOver(r)
    BY DEF ReleaseLease
  <1>2. lease' \in [holder : Replicas \cup {Nobody}, age : 0..LeaseDuration]
    BY DEF ReleaseLease, Inv, TypeOK
  <1> QED
    BY <1>1, <1>2, EvaluationOverKeeps, LeaseKeeps
    DEF ReleaseLease, Inv, TypeOK

-----------------------------------------------------------------------------
(* Faults, the scraper, the cluster and the clock. *)

\* One replica's cache changes.
LEMMA CacheChanges ==
    ASSUME Inv, NEW r \in Replicas, NEW c, Cached(owner, c)
    PROVE  Stored(owner, gw, [cache EXCEPT ![r] = c])
  <1>1. Stored(owner, gw, cache) /\ cache \in [Replicas -> Seq([Workloads -> CR])]
    BY DEF Inv, VersionsOK, Stored
  <1>2. c \in Seq([Workloads -> CR])
    BY DEF Cached
  <1>3. [cache EXCEPT ![r] = c] \in [Replicas -> Seq([Workloads -> CR])]
    BY <1>1, <1>2
  <1>4. \A q \in Replicas :
          [cache EXCEPT ![r] = c][q] = IF q = r THEN c ELSE cache[q]
    BY <1>1
  <1> QED
    BY <1>1, <1>3, <1>4 DEF Stored

LEMMA FaultyKeeps ==
    ASSUME Inv, NEW r \in Replicas, Faulty(r)
    PROVE  Inv'
  <1>1. faults' \in 0..MaxFaults
    <2>1. Fault
      BY Zenon DEF Faulty, ApiError, LeaseError, ResponseLost, Crash
    <2>2. faults \in 0..MaxFaults
      BY DEF Inv, TypeOK
    <2> QED
      BY <2>1, <2>2, ControllerAssumption DEF Fault
  <1>2. /\ queue \in [Replicas -> SUBSET Workloads]
        /\ \A q \in Replicas : Sound(owner, worker[q])
    BY DEF Inv, TypeOK, VersionsOK
  <1>3. CASE ApiError(r)
    <2>1. CASE Return(r, TRUE) /\ worker[r].pc # "idle"
      BY <1>1, <1>3, <2>1, ReturnKeeps, LeaseKeeps, Zenon
      DEF ApiError, Inv, TypeOK
    <2>2. CASE Abandon(r) /\ UNCHANGED queue /\ worker[r].pc # "idle"
      BY <1>1, <1>3, <2>2, AbandonKeeps DEF ApiError
    <2> QED
      BY <1>3, <2>1, <2>2, Zenon DEF ApiError
  <1>4. CASE LeaseError(r)
    <2>1. worker[r].pc # "idle" /\ EvaluationOver(r)
      BY <1>4 DEF LeaseError
    <2> QED
      BY <1>1, <1>4, <2>1, EvaluationOverKeeps, LeaseKeeps
      DEF LeaseError, Inv, TypeOK
  <1>5. CASE ResponseLost(r)
    <2> DEFINE w == worker[r].w
    <2>1. w \in Workloads /\ Version(owner, w, worker[r].next)
      BY <1>5 DEF Inv, VersionsOK, Sound, ResponseLost
    <2>2. Write(w, worker[r].next) /\ Return(r, TRUE) /\ worker[r].pc # "idle"
      BY <1>5, Zenon DEF ResponseLost
    <2>3. Stored(owner, gw', cache')
      BY <2>1, <2>2, WriteKeeps
    <2> QED
      BY <1>1, <1>5, <2>2, <2>3, ReturnKeeps, CommitKeeps DEF ResponseLost
  <1>6. CASE Crash(r)
    <2>1. /\ worker' \in [Replicas -> Jobs]
          /\ \A q \in Replicas : Sound(owner, worker'[q])
      BY <1>2, <1>6, NoWorkSound, WorkKeeps DEF Crash
    <2>2. queue' \in [Replicas -> SUBSET Workloads]
      BY <1>2, <1>6 DEF Crash
    <2>3. Stored(owner, gw', cache')
      <3>1. Cached(owner, <<gw>>)
        BY DEF Inv, VersionsOK, Stored, Cached
      <3>2. gw' = gw /\ cache' = [cache EXCEPT ![r] = <<gw>>]
        BY <1>6 DEF Crash
      <3> QED
        BY <3>1, <3>2, CacheChanges
    <2> QED
      BY <1>1, <1>6, <2>1, <2>2, <2>3, CommitKeeps DEF Crash
  <1> QED
    BY <1>3, <1>4, <1>5, <1>6 DEF Faulty

LEMMA ClusterKeeps ==
    ASSUME Inv, NEW w \in Workloads, Cluster(w)
    PROVE  Inv'
  <1>1. CASE Scrape(w)
    <2>1. PICK util \in {"low", "busy"} : Write(w, Sampled(gw[w], util))
      BY <1>1 DEF Scrape
    <2>2. Version(owner, w, gw[w]) /\ gw[w].phase \notin TerminalPhases
      BY <1>1 DEF Scrape, Inv, VersionsOK, Stored
    <2>3. Version(owner, w, Sampled(gw[w], util))
      BY <2>2, SampledWellFormed DEF Version, Utils
    <2>4. Stored(owner, gw', cache')
      BY <2>1, <2>3, WriteKeeps
    <2> QED
      BY <1>1, <2>4, CommitKeeps DEF Scrape, Inv, TypeOK, VersionsOK
  <1>2. CASE PodsChange(w)
    <2>1. PICK seen \in PodViews : pods' = [pods EXCEPT ![w] = seen]
      BY <1>2, ControllerAssumption, Zenon DEF PodsChange, PodViews
    <2>2. pods' \in [Workloads -> PodViews]
      BY <2>1 DEF Inv, TypeOK
    <2>3. queue' \in [Replicas -> SUBSET Workloads]
      <3>1. \/ queue' = [r \in Replicas |-> queue[r] \cup {w}]
            \/ queue' = queue
        BY <1>2, Zenon DEF PodsChange
      <3> QED
        BY <3>1 DEF Inv, TypeOK
    <2> QED
      BY <1>2, <2>2, <2>3 DEF PodsChange, Inv, TypeOK, VersionsOK
  <1>3. CASE OwnerVanishes(w) \/ OwnerRecreated(w)
    <2>1. /\ owner' \in [Workloads -> Owners]
          /\ \A v \in Workloads : owner'[v] = "present" => owner[v] = "present"
      <3>1. PICK o \in {"gone", "recreated"} : owner' = [owner EXCEPT ![w] = o]
        BY <1>3, Zenon DEF OwnerVanishes, OwnerRecreated
      <3>2. owner \in [Workloads -> Owners]
        BY DEF Inv, TypeOK
      <3> QED
        BY <3>1, <3>2 DEF Owners
    <2>2. Stored(owner', gw, cache)
      BY <2>1, OwnersOnlyGo DEF Inv, VersionsOK
    <2>3. \A q \in Replicas : Sound(owner', worker[q])
      BY <2>1, OwnersOnlyGo DEF Inv, VersionsOK, TypeOK
    <2> QED
      BY <1>3, <2>1, <2>2, <2>3
      DEF OwnerVanishes, OwnerRecreated, Inv, TypeOK, VersionsOK
  <1> QED
    BY <1>1, <1>2, <1>3 DEF Cluster

LEMMA CacheKeeps ==
    ASSUME Inv, NEW r \in Replicas, CacheSync(r) \/ Resync(r)
    PROVE  Inv'
  <1>1. CASE CacheSync(r)
    <2>1. queue' \in [Replicas -> SUBSET Workloads]
      BY <1>1 DEF CacheSync, Inv, TypeOK
    <2>2. Cached(owner, Tail(cache[r]))
      BY <1>1, TailCached DEF CacheSync, Inv, VersionsOK, Stored
    <2>3. cache' = [cache EXCEPT ![r] = Tail(cache[r])] /\ gw' = gw
      BY <1>1 DEF CacheSync
    <2>4. Stored(owner, gw', cache')
      BY <2>2, <2>3, CacheChanges
    <2> QED
      BY <1>1, <2>1, <2>4, CommitKeeps DEF CacheSync, Inv, TypeOK, VersionsOK
  <1>2. CASE Resync(r)
    <2>1. queue' \in [Replicas -> SUBSET Workloads]
      BY <1>2 DEF Resync, Inv, TypeOK
    <2> QED
      BY <1>2, <2>1 DEF Resync, Inv, TypeOK, VersionsOK
  <1> QED
    BY <1>1, <1>2

LEMMA TickKeeps ==
    ASSUME Inv, Tick
    PROVE  Inv'
  <1>1. \A w, g : Version(owner, w, g) => Version(owner, w, Aged(g))
    BY AgedWellFormed DEF Version
  <1>2. \A crs : (\A w \in Workloads : Version(owner, w, crs[w]))
                 => /\ AgedAll(crs) \in [Workloads -> CR]
                    /\ \A w \in Workloads : Version(owner, w, AgedAll(crs)[w])
    <2>1. \A crs, w : Version(owner, w, crs[w])
                         => /\ Version(owner, w, Aged(crs[w]))
                            /\ Aged(crs[w]) \in CR
      BY <1>1 DEF Version
    <2> QED
      BY <2>1 DEF AgedAll
  <1>3. Stored(owner, gw', cache')
    <2> DEFINE older(c) == [i \in DOMAIN c |-> AgedAll(c[i])]
    <2>1. ASSUME NEW c, Cached(owner, c)
          PROVE  Cached(owner, older(c))
      <3>1. /\ c \in Seq([Workloads -> CR]) /\ c # <<>>
            /\ \A i \in DOMAIN c, w \in Workloads : Version(owner, w, c[i][w])
        BY <2>1 DEF Cached
      <3>2. \A i \in DOMAIN c :
              /\ AgedAll(c[i]) \in [Workloads -> CR]
              /\ \A w \in Workloads : Version(owner, w, AgedAll(c[i])[w])
        BY <1>2, <3>1
      <3>3. older(c) \in Seq([Workloads -> CR]) /\ older(c) # <<>>
        BY <3>1, <3>2
      <3>4. \A i \in DOMAIN older(c) : i \in DOMAIN c /\ older(c)[i] = AgedAll(c[i])
        OBVIOUS
      <3> HIDE DEF older
      <3> QED
        BY <3>2, <3>3, <3>4 DEF Cached
    <2>2. cache' = [r \in Replicas |-> older(cache[r])] /\ gw' = AgedAll(gw)
      BY DEF Tick
    <2>3. /\ \A w \in Workloads : Version(owner, w, gw[w])
          /\ \A r \in Replicas : Cached(owner, cache[r])
      BY DEF Inv, VersionsOK, Stored
    <2> HIDE DEF older
    <2>4. \A r \in Replicas : /\ Cached(owner, older(cache[r]))
                              /\ older(cache[r]) \in Seq([Workloads -> CR])
      BY <2>1, <2>3 DEF Cached
    <2>5. /\ gw' \in [Workloads -> CR]
          /\ \A w \in Workloads : Version(owner, w, gw'[w])
      BY <1>2, <2>2, <2>3
    <2> QED
      BY <2>2, <2>4, <2>5 DEF Stored
  <1>4. /\ worker' \in [Replicas -> Jobs]
        /\ \A r \in Replicas : Sound(owner, worker'[r])
    <2> DEFINE older(j) == [j EXCEPT !.copy = Aged(j.copy), !.next = Aged(j.next)]
    <2>1. worker' = [r \in Replicas |-> older(worker[r])]
      BY DEF Tick
    <2>2. ASSUME NEW j, Sound(owner, j)
          PROVE  Sound(owner, older(j))
      <3>1. Aged(j.copy) \in CR /\ Aged(j.next) \in CR
        BY <2>2, AgedWellFormed DEF Sound, Jobs
      <3>2. /\ older(j) \in Jobs
            /\ older(j).pc = j.pc /\ older(j).w = j.w
            /\ older(j).next = Aged(j.next)
        BY <2>2, <3>1 DEF Sound, Jobs
      <3> QED
        BY <1>1, <2>2, <3>2 DEF Sound
    <2>3. \A r \in Replicas : Sound(owner, older(worker[r]))
      BY <2>2 DEF Inv, VersionsOK
    <2> HIDE DEF older
    <2> QED
      BY <2>1, <2>3 DEF Sound
  <1>5. lease' \in [holder : Replicas \cup {Nobody}, age : 0..LeaseDuration]
    <2> DEFINE age == IF lease.age < LeaseDuration
                        THEN lease.age + 1 ELSE lease.age
    <2>1. lease \in [holder : Replicas \cup {Nobody}, age : 0..LeaseDuration]
      BY DEF Inv, TypeOK
    <2>2. age \in 0..LeaseDuration
      BY <2>1, ControllerAssumption
    <2>3. lease' = [lease EXCEPT !.age = age]
      BY <2>1 DEF Tick
    <2> HIDE DEF age
    <2> QED
      BY <2>1, <2>2, <2>3
  <1> QED
    BY <1>3, <1>4, <1>5, Zenon DEF Tick, Inv, TypeOK, VersionsOK, Stored

-----------------------------------------------------------------------------
\* Initially every CR is fresh and every worker idle.
LEMMA InitInv == Init => Inv
  <1> SUFFICES ASSUME Init PROVE Inv
    OBVIOUS
  <1>1. /\ gw \in [Workloads -> CR]
        /\ \A w \in Workloads : Version(owner, w, gw[w])
    <2>1. PICK phase \in [Workloads -> {"New", "PendingOther"}] :
             gw = [w \in Workloads |-> Fresh(phase[w], OnePod[w])]
      BY DEF Init
    <2>2. \A w \in Workloads : /\ phase[w] \in Phases
                               /\ phase[w] \notin TerminalPhases
                               /\ OnePod[w] \in [Resources -> Nat]
      BY ControllerAssumption DEF Phases, LivePhases, TerminalPhases
    <2>3. \A w \in Workloads : Version(owner, w, Fresh(phase[w], OnePod[w]))
      BY <2>2, FreshType DEF Version, WellFormed, Fresh
    <2> QED
      BY <2>1, <2>3 DEF Version
  <1>2. Stored(owner, gw, cache)
    <2>1. Cached(owner, <<gw>>)
      BY <1>1 DEF Cached
    <2>2. cache = [r \in Replicas |-> <<gw>>]
      BY DEF Init
    <2>3. cache \in [Replicas -> Seq([Workloads -> CR])]
      BY <2>1, <2>2 DEF Cached
    <2> QED
      BY <1>1, <2>1, <2>2, <2>3 DEF Stored
  <1>3. /\ worker \in [Replicas -> Jobs]
        /\ \A r \in Replicas : Sound(owner, worker[r])
    <2>1. worker = [r \in Replicas |-> NoWork]
      BY DEF Init
    <2>2. NoWork \in Jobs
      BY NoWorkSound DEF Sound
    <2> QED
      BY <2>1, <2>2, NoWorkSound
  <1>4. /\ owner \in [Workloads -> Owners]
        /\ pods \in [Workloads -> PodViews]
        /\ lease \in [holder : Replicas \cup {Nobody}, age : 0..LeaseDuration]
        /\ queue \in [Replicas -> SUBSET Workloads]
        /\ faults \in 0..MaxFaults
    BY ControllerAssumption DEF Init, Owners
  <1> QED
    BY <1>2, <1>3, <1>4 DEF Inv, TypeOK, VersionsOK, Stored

LEMMA InvStep ==
    ASSUME Inv, [Next]_vars
    PROVE  Inv'
  <1>1. ASSUME NEW r \in Replicas, Continue(r) PROVE Inv'
    <2>1. CASE MarkFails(r)
      BY <2>1, AbandonKeeps DEF MarkFails, Inv, TypeOK
    <2> QED
      BY <1>1, <2>1, ReapKeeps, DeleteOwnerKeeps, CommitOutcomeKeeps,
         SyncSpecKeeps, RegetKeeps, CommitStatusKeeps, TryAcquireKeeps,
         EvaluateKeeps, MarkVictimKeeps, ReleaseLeaseKeeps, Zenon
      DEF Continue
  <1>2. CASE UNCHANGED vars
    BY <1>2 DEF vars, Inv, TypeOK, VersionsOK
  <1> QED
    BY <1>1, <1>2, ReconcileKeeps, FaultyKeeps, CacheKeeps, ClusterKeeps,
       TickKeeps, Zenon DEF Next

LEMMA InvHolds == Spec => []Inv
  BY InitInv, InvStep, PTL DEF Spec

\* The state of the controller keeps its types through every interleaving of
\* reconciles, scrapes, cache updates, faults and changes of the cluster.
THEOREM ControllerTypeCorrect == Spec => []TypeOK
  <1>1. Inv => TypeOK
    BY DEF Inv
  <1> QED
    BY <1>1, InvHolds, PTL

\* Every status that is ever stored has the timestamps its phase calls for.
THEOREM ControllerStatusWellFormed == Spec => []StatusWellFormed
  <1>1. Inv => StatusWellFormed
    BY DEF Inv, VersionsOK, Stored, Version, StatusWellFormed
  <1> QED
    BY <1>1, InvHolds, PTL

\* A CR is closed only when its root owner is gone, whatever any replica has
\* read, and whenever.
THEOREM ControllerTerminalMeansOwnerGone == Spec => []TerminalMeansOwnerGone
  <1>1. Inv => TerminalMeansOwnerGone
    BY DEF Inv, VersionsOK, Stored, Version, TerminalMeansOwnerGone
  <1> QED
    BY <1>1, InvHolds, PTL

=============================================================================
