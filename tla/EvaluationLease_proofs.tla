----------------------- MODULE EvaluationLease_proofs -----------------------
(***************************************************************************)
(* For any number of replicas and any lease duration, the lease lets one   *)
(* replica evaluate at a time, provided no evaluation outlasts it.         *)
(***************************************************************************)
EXTENDS EvaluationLease, TLAPS

\* What protects an evaluator from the others: it wrote the lease and its clock
\* and the lease's have run together since; another replica about to write
\* has read a lease that was free for it and is not the evaluator's; and one
\* about to release has read a lease of its own.
Inv ==
    /\ TypeOK
    /\ \A r \in Replicas :
          /\ step[r] \in {"acquiring", "evaluating"} => since[r] <= MaxEvaluation
          /\ step[r] = "acquiring" => Available(r, copy[r])
          /\ step[r] = "evaluating" => lease = Stored(r, since[r])
          /\ step[r] = "releasing" => copy[r].holder = r

\* A tick changes nothing but the age of a lease, and never lowers it.
LEMMA AgingType ==
    ASSUME NEW l \in Lease
    PROVE  /\ AgedLease(l) \in Lease
           /\ AgedLease(l).exists = l.exists
           /\ AgedLease(l).holder = l.holder
           /\ AgedLease(l).age >= l.age
  BY LeaseAssumption DEF AgedLease, Aging, Lease, LeaseAges, MaxLeaseAge

\* Every step preserves the types of the lease and of the replicas' state.
LEMMA TypeStep ==
    ASSUME TypeOK, [Next]_vars
    PROVE  TypeOK'
  <1> USE DEF TypeOK, Steps, Goto
  <1>1. ASSUME NEW r \in Replicas, ReadForAcquire(r) PROVE TypeOK'
    BY <1>1, LeaseAssumption DEF ReadForAcquire, LeaseAges, MaxLeaseAge
  <1>2. ASSUME NEW r \in Replicas, Acquire(r) PROVE TypeOK'
    BY <1>2 DEF Acquire, Stored, Lease
  <1>3. ASSUME NEW r \in Replicas, AcquireFails(r) PROVE TypeOK'
    BY <1>3 DEF AcquireFails
  <1>4. ASSUME NEW r \in Replicas, ReadForRelease(r) PROVE TypeOK'
    BY <1>4 DEF ReadForRelease
  <1>5. ASSUME NEW r \in Replicas, Release(r) PROVE TypeOK'
    BY <1>5 DEF Release, Stored, Lease
  <1>6. ASSUME NEW r \in Replicas, ReleaseFails(r) PROVE TypeOK'
    BY <1>6 DEF ReleaseFails
  <1>7. ASSUME NEW r \in Replicas, Crash(r) PROVE TypeOK'
    BY <1>7 DEF Crash
  <1>8. CASE Tick
    <2>1. \A a \in LeaseAges : Aging(a) \in LeaseAges
      BY LeaseAssumption DEF Aging, LeaseAges, MaxLeaseAge
    <2> QED
      BY <1>8, <2>1, AgingType DEF Tick
  <1>9. CASE UNCHANGED vars
    BY <1>9 DEF vars
  <1> QED
    BY <1>1, <1>2, <1>3, <1>4, <1>5, <1>6, <1>7, <1>8, <1>9 DEF Next

\* TypeOK of the lease, whatever the durations.
THEOREM LeaseTypeCorrect == Spec => []TypeOK
  <1>1. Init => TypeOK
    BY LeaseAssumption
    DEF Init, TypeOK, NoLease, Lease, LeaseAges, MaxLeaseAge, Steps
  <1>2. TypeOK /\ [Next]_vars => TypeOK'
    BY TypeStep
  <1> QED
    BY <1>1, <1>2, PTL DEF Spec

-----------------------------------------------------------------------------
\* The inductive step. Only Acquire can put a second replica into an
\* evaluation, only Acquire and Release write the lease, and only Tick moves
\* the clocks.
LEMMA InvStep ==
    ASSUME MaxEvaluation < LeaseDuration, Inv, [Next]_vars
    PROVE  Inv'
  <1>0. TypeOK /\ TypeOK'
    BY TypeStep DEF Inv
  <1> USE <1>0 DEF Inv, TypeOK, Steps, Goto
  <1>1. ASSUME NEW r \in Replicas, ReadForAcquire(r) PROVE Inv'
    BY <1>1, LeaseAssumption DEF ReadForAcquire, Available
  <1>2. ASSUME NEW r \in Replicas, Acquire(r) PROVE Inv'
    <2>1. Available(r, lease)
      BY <1>2 DEF Acquire
    <2>2. \A q \in Replicas \ {r} : step[q] # "evaluating"
      BY <2>1, LeaseAssumption DEF Available, Stored, LeaseAges
    <2> QED
      BY <1>2, <2>2 DEF Acquire, Available
  <1>3. ASSUME NEW r \in Replicas, AcquireFails(r) PROVE Inv'
    BY <1>3 DEF AcquireFails, Available
  <1>4. ASSUME NEW r \in Replicas, ReadForRelease(r) PROVE Inv'
    BY <1>4 DEF ReadForRelease, Available
  <1>5. ASSUME NEW r \in Replicas, Release(r) PROVE Inv'
    <2>1. \A q \in Replicas : step[q] # "evaluating"
      BY <1>5 DEF Release, Stored
    <2> QED
      BY <1>5, <2>1 DEF Release, Available
  <1>6. ASSUME NEW r \in Replicas, ReleaseFails(r) PROVE Inv'
    BY <1>6 DEF ReleaseFails, Available
  <1>7. ASSUME NEW r \in Replicas, Crash(r) PROVE Inv'
    BY <1>7 DEF Crash, Available
  <1>8. CASE Tick
    <2> SUFFICES ASSUME NEW r \in Replicas
                 PROVE /\ step[r] \in {"acquiring", "evaluating"}
                            => since'[r] <= MaxEvaluation
                       /\ step[r] = "acquiring" => Available(r, copy'[r])
                       /\ step[r] = "evaluating" => lease' = Stored(r, since'[r])
                       /\ step[r] = "releasing" => copy'[r].holder = r
      BY <1>8 DEF Tick, Available
    <2>1. step[r] \in {"acquiring", "evaluating"} => since'[r] = since[r] + 1
      BY <1>8, LeaseAssumption DEF Tick, Aging, MaxLeaseAge, LeaseAges
    <2>2. step[r] \in {"acquiring", "evaluating"} => since'[r] <= MaxEvaluation
      BY <1>8, <2>1, LeaseAssumption DEF Tick, LeaseAges
    <2>3. /\ copy'[r].exists = copy[r].exists
          /\ copy'[r].holder = copy[r].holder
          /\ copy'[r].age >= copy[r].age
      BY <1>8, AgingType DEF Tick
    <2>4. step[r] = "acquiring" => Available(r, copy'[r])
      BY <2>3, LeaseAssumption DEF Available, Lease, LeaseAges
    <2>5. step[r] = "evaluating" => lease' = Stored(r, since'[r])
      <3> SUFFICES ASSUME step[r] = "evaluating"
                   PROVE  lease' = Stored(r, Aging(since[r]))
        BY <1>8 DEF Tick
      <3>1. lease = Stored(r, since[r])
        OBVIOUS
      <3>2. lease' = [lease EXCEPT !.age = Aging(lease.age)]
        BY <1>8, <3>1 DEF Tick, AgedLease, Stored
      <3> QED
        BY ONLY <3>1, <3>2 DEF Stored
    <2> QED
      BY <2>2, <2>3, <2>4, <2>5
  <1>9. CASE UNCHANGED vars
    BY <1>9 DEF vars, Available
  <1> QED
    BY <1>1, <1>2, <1>3, <1>4, <1>5, <1>6, <1>7, <1>8, <1>9 DEF Next

\* The inductive invariant holds if evaluations are shorter than the lease.
LEMMA InvHolds ==
    ASSUME MaxEvaluation < LeaseDuration
    PROVE  Spec => []Inv
  <1>1. Init => Inv
    BY LeaseAssumption
    DEF Init, Inv, TypeOK, NoLease, Lease, LeaseAges, MaxLeaseAge, Steps
  <1>2. Inv /\ [Next]_vars => Inv'
    BY InvStep
  <1> QED
    BY <1>1, <1>2, PTL DEF Spec

\* The lease of tryRunPreemptionEvaluation excludes any two replicas from
\* evaluating at once, if evaluations are shorter than the lease.
THEOREM LeaseExcludes ==
    ASSUME MaxEvaluation < LeaseDuration
    PROVE  Spec => []MutualExclusion
  <1>1. Inv => MutualExclusion
    BY DEF Inv, MutualExclusion, Stored
  <1> QED
    BY <1>1, InvHolds, PTL

\* Under the same condition no write of another replica, however old the read
\* it is based on, takes the lease from the replica that evaluates.
THEOREM LeaseIsKept ==
    ASSUME MaxEvaluation < LeaseDuration
    PROVE  Spec => []EvaluatorHoldsLease
  <1>1. Inv => EvaluatorHoldsLease
    BY LeaseAssumption DEF Inv, TypeOK, EvaluatorHoldsLease, Stored, LeaseAges
  <1> QED
    BY <1>1, InvHolds, PTL

=============================================================================
