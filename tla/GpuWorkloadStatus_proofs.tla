---------------------- MODULE GpuWorkloadStatus_proofs ----------------------
(***************************************************************************)
(* What each pure step of the reconciler returns: a CR again, with the     *)
(* timestamps its phase calls for.                                         *)
(***************************************************************************)
EXTENDS GpuWorkloadStatus, TLAPS

\* Each constructor of a CR gives a CR.
LEMMA FreshType ==
    ASSUME NEW phase \in Phases, NEW gpus \in [Resources -> Nat]
    PROVE  Fresh(phase, gpus) \in CR
  BY DEF Fresh, CR, Utils

\* The CR that stands for no CR is well-formed, and in no terminal phase.
LEMMA AbsentWellFormed ==
    /\ Absent \in CR
    /\ Absent.phase = "Absent"
    /\ WellFormed(Absent)
  <1>1. NoGpus \in [Resources -> Nat]
    BY DEF NoGpus
  <1>2. Absent \in CR
    BY <1>1, FreshType DEF Absent, Phases
  <1> QED
    BY <1>2 DEF Absent, Fresh, WellFormed, TerminalPhases

\* A phase is computed for every view of the pods, and it is terminal or
\* Preempting only if the CR's phase was and there is nothing to see.
LEMMA ComputedPhase ==
    ASSUME NEW g \in CR, NEW seen \in PodViews
    PROVE  /\ computePhase(g, seen) \in Phases
           /\ computePhase(g, seen) \notin LivePhases
                => computePhase(g, seen) = g.phase /\ seen = "none"
  BY DEF computePhase, HasPods, PodViews, CR, Phases, LivePhases

\* A reconcile's observation keeps a CR well-formed. If the phase it results
\* in is terminal, the CR's phase was.
LEMMA ObservedType ==
    ASSUME NEW g \in CR, NEW seen \in PodViews
    PROVE  /\ Observed(g, seen) \in CR
           /\ WellFormed(g) => WellFormed(Observed(g, seen))
           /\ Observed(g, seen).phase \in TerminalPhases
                => g.phase \in TerminalPhases
  <1> DEFINE tracked == [g EXCEPT !.util = Retracked(g.util, seen)]
             phase   == computePhase(tracked, seen)
             since   == IF phase # "Idle" THEN None
                        ELSE IF g.idleSince = None THEN 0 ELSE g.idleSince
  <1>1. /\ tracked \in CR
        /\ tracked.phase = g.phase /\ tracked.idleSince = g.idleSince
        /\ tracked.finishedAt = g.finishedAt
        /\ seen = "none" => tracked.util = "untracked"
    BY DEF Retracked, HasPods, CR, Utils
  <1>2. /\ phase \in Phases
        /\ phase \notin LivePhases => phase = tracked.phase /\ seen = "none"
    BY <1>1, ComputedPhase
  <1>3. Observed(g, seen) = [tracked EXCEPT !.phase = phase, !.idleSince = since]
    BY <1>1 DEF Observed
  <1> HIDE DEF tracked, phase
  <1>4. since \in Ages \cup {None}
    BY DurationAssumption DEF Ages, CR
  <1>5. Observed(g, seen) \in CR
    BY <1>1, <1>2, <1>3, <1>4 DEF CR
  <1>6. /\ Observed(g, seen).phase = phase
        /\ Observed(g, seen).idleSince = since
        /\ Observed(g, seen).finishedAt = tracked.finishedAt
        /\ Observed(g, seen).util = tracked.util
    BY <1>1, <1>3 DEF CR
  <1>7. phase \in TerminalPhases => g.phase = phase /\ seen = "none"
    BY <1>1, <1>2 DEF TerminalPhases, LivePhases
  <1> QED
    BY <1>1, <1>5, <1>6, <1>7 DEF WellFormed

\* Both terminal statuses are well-formed.
LEMMA TerminalWellFormed ==
    ASSUME NEW g \in CR, NEW phase \in TerminalPhases
    PROVE  /\ Terminal(g, phase) \in CR
           /\ Terminal(g, phase).phase = phase
           /\ WellFormed(Terminal(g, phase))
  <1>1. 0 \in Ages /\ 0 # None
    BY DurationAssumption, NoneAssumption DEF Ages
  <1>2. phase \in Phases /\ phase # "Idle"
    BY DEF TerminalPhases, Phases
  <1> QED
    BY <1>1, <1>2 DEF Terminal, CR, WellFormed, Utils

\* A CR that is reverted to Idle is well-formed.
LEMMA RevertedWellFormed ==
    ASSUME NEW g \in CR
    PROVE  /\ Reverted(g) \in CR
           /\ Reverted(g).phase = "Idle"
           /\ WellFormed(Reverted(g))
  BY DEF Reverted, CR, WellFormed, TerminalPhases, Phases, LivePhases

\* A mark stops the idle clock.
LEMMA MarkedWellFormed ==
    ASSUME NEW g \in CR, NEW for \in Workloads \cup {None}
    PROVE  /\ Marked(g, for) \in CR
           /\ Marked(g, for).phase = "Preempting"
           /\ WellFormed(Marked(g, for))
  BY DEF Marked, CR, WellFormed, TerminalPhases, Phases

\* A sample of a CR that is not terminal leaves the rest as it is.
LEMMA SampledWellFormed ==
    ASSUME NEW g \in CR, NEW util \in Utils, g.phase \notin TerminalPhases
    PROVE  /\ Sampled(g, util) \in CR
           /\ Sampled(g, util).phase = g.phase
           /\ WellFormed(g) => WellFormed(Sampled(g, util))
  BY DEF Sampled, CR, WellFormed

\* Time starts and stops no clock.
LEMMA AgedWellFormed ==
    ASSUME NEW g \in CR
    PROVE  /\ Aged(g) \in CR
           /\ Aged(g).phase = g.phase
           /\ WellFormed(g) => WellFormed(Aged(g))
  <1>1. \A age \in Ages \cup {None} :
           /\ Older(age) \in Ages \cup {None}
           /\ Older(age) = None <=> age = None
    BY DurationAssumption, NoneAssumption DEF Older, Ages
  <1>2. /\ g.idleSince \in Ages \cup {None}
        /\ g.finishedAt \in Ages \cup {None}
    BY DEF CR
  <1>3. Aged(g) = [g EXCEPT !.idleSince = Older(g.idleSince),
                            !.finishedAt = Older(g.finishedAt)]
    BY DEF Aged, CR
  <1> HIDE DEF Aged
  <1>4. Aged(g) \in CR
    BY <1>1, <1>2, <1>3 DEF CR
  <1>5. /\ Aged(g).phase = g.phase /\ Aged(g).util = g.util
        /\ Aged(g).idleSince = Older(g.idleSince)
        /\ Aged(g).finishedAt = Older(g.finishedAt)
    BY <1>3 DEF CR
  <1> QED
    BY <1>1, <1>2, <1>4, <1>5 DEF WellFormed

=============================================================================
