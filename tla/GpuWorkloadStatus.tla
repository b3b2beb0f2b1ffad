------------------------- MODULE GpuWorkloadStatus -------------------------
(***************************************************************************)
(* The GpuWorkload custom resource (CR) and the pure steps of its          *)
(* reconciler: how one observation of the cluster, one mark of the         *)
(* evaluator or one passage of time changes a stored CR.                   *)
(*                                                                         *)
(* A timestamp of the status is kept as its age, the time elapsed since    *)
(* it, because the code only ever compares time.Since(t) with a duration.  *)
(* Ages saturate at MaxAge, which no duration exceeds.                     *)
(***************************************************************************)
EXTENDS Integers, FiniteSets

CONSTANTS
    Workloads,   \* the tracked root owners, and the names of their CRs
    Resources,   \* GPU resource names, such as amd.com/gpu
    None,        \* the nil timestamp and the empty PreemptedFor
    Grace,       \* grace period, in ticks
    Ttl,         \* TTLAfterFinished, in ticks; 0 retains the CR forever
    MaxAge       \* where ages saturate

ASSUME DurationAssumption ==
    /\ Grace \in Nat /\ Ttl \in Nat /\ MaxAge \in Nat
    /\ Grace <= MaxAge /\ Ttl <= MaxAge

ASSUME NoneAssumption == None \notin Workloads /\ None \notin Nat

Ages == 0..MaxAge

\* "New" is the empty phase of a CR whose first status update has not landed,
\* and "Absent" is no CR at all.
LivePhases == {"New", "PendingOther", "PendingGpu", "Active", "Idle"}
TerminalPhases == {"Preempted", "Deleted"}
Phases == LivePhases \cup {"Preempting"} \cup TerminalPhases \cup {"Absent"}

\* What the tracked pods' samples aggregate to, against the threshold; a CR
\* that tracks pods without samples counts as "low".
Utils == {"untracked", "low", "busy"}

CR == [phase        : Phases,
       idleSince    : Ages \cup {None},
       finishedAt   : Ages \cup {None},
       preemptedFor : Workloads \cup {None},
       util         : Utils,
       gpus         : [Resources -> Nat]]

NoGpus == [res \in Resources |-> 0]

Fresh(phase, gpus) ==
    [phase |-> phase, idleSince |-> None, finishedAt |-> None,
     preemptedFor |-> None, util |-> "untracked", gpus |-> gpus]

Absent == Fresh("Absent", NoGpus)

\* The timestamps of a CR suit its phase: the idle clock runs only in Idle, and
\* a terminal CR has the FinishedAt without which handleTerminal would keep it
\* forever, and tracks no pods for the scraper to update.
WellFormed(g) ==
    /\ g.idleSince # None => g.phase = "Idle"
    /\ g.phase \in TerminalPhases => g.finishedAt # None /\ g.util = "untracked"

(***************************************************************************)
(* What a reconcile sees of a workload's pods: none, none but a Kueue      *)
(* Workload that waits for GPU quota, some pod unschedulable for lack of   *)
(* GPUs, none of that but none running either, or some pod running.        *)
(***************************************************************************)
PodViews == {"none", "quota", "pendingGpu", "pendingOther", "running"}

HasPods(seen) == seen \notin {"none", "quota"}

computePhase(g, seen) ==
    CASE ~HasPods(seen) /\ g.phase = "New" -> "PendingOther"
      [] seen = "none"  /\ g.phase # "New" -> g.phase
      [] seen = "quota" /\ g.phase # "New" -> "PendingGpu"
      [] seen = "pendingGpu"               -> "PendingGpu"
      [] seen = "pendingOther"             -> "PendingOther"
      [] seen = "running"                  ->
            IF g.util = "busy" THEN "Active" ELSE "Idle"

\* TrackedPods rebuilt from the owned pods, with the samples kept.
Retracked(util, seen) ==
    IF ~HasPods(seen) THEN "untracked"
    ELSE IF util = "untracked" THEN "low" ELSE util

\* The status a reconcile writes for a CR whose owner exists.
Observed(g, seen) ==
    LET tracked == [g EXCEPT !.util = Retracked(g.util, seen)]
        phase   == computePhase(tracked, seen)
    IN [tracked EXCEPT
          !.phase = phase,
          !.idleSince = IF phase # "Idle" THEN None
                        ELSE IF @ = None THEN 0 ELSE @]

\* Mutant: FinishedAt is not recorded.
TerminalUnstamped(g, phase) ==
    [g EXCEPT !.phase = phase, !.idleSince = None, !.util = "untracked"]

\* Both terminal statuses drop the idle clock and the tracked pods.
Terminal(g, phase) ==
    [g EXCEPT !.phase = phase, !.finishedAt = 0,
              !.idleSince = None, !.util = "untracked"]

\* The root owner is gone.
Lost(g) == Terminal(g, "Deleted")

\* The operator deleted the root owner, or found it gone while deleting it.
Finished(g) == Terminal(g, "Preempted")

\* RBAC forbids the deletion; IdleSince is not restored.
Reverted(g) == [g EXCEPT !.phase = "Idle", !.preemptedFor = None]

\* Mutant: the idle clock is not cleared.
MarkedIdleClock(g, for) ==
    [g EXCEPT !.phase = "Preempting",
              !.preemptedFor = IF for = None THEN @ ELSE for]

\* The evaluator's mark. An Always-policy mark, made for nobody, leaves
\* PreemptedFor as it is.
Marked(g, for) ==
    [g EXCEPT !.phase = "Preempting", !.idleSince = None,
              !.preemptedFor = IF for = None THEN @ ELSE for]

\* The scraper's sample of a tracked pod.
Sampled(g, util) == [g EXCEPT !.util = util]

\* handleTerminal deletes the CR.
TtlElapsed(g) == Ttl # 0 /\ g.finishedAt # None /\ g.finishedAt >= Ttl

Older(age) == IF age = None \/ age = MaxAge THEN age ELSE age + 1

\* One tick of the clock, as seen in any copy of the CR.
Aged(g) ==
    [g EXCEPT !.idleSince = Older(@), !.finishedAt = Older(@)]

=============================================================================
