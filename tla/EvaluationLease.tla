-------------------------- MODULE EvaluationLease --------------------------
(***************************************************************************)
(* The Lease that guards the preemption evaluation. Every operator replica *)
(* acquires it with a read and a conditional write, evaluates, and         *)
(* releases it with another read and conditional write. Between any two of *)
(* these calls other replicas act and time passes.                         *)
(*                                                                         *)
(* A conditional write succeeds only if the object's resourceVersion is    *)
(* the one that was read. Here that is: the copy read equals the stored    *)
(* lease. If the lease has changed and changed back in between, the copy   *)
(* is what a later read would have returned, so nothing is lost.           *)
(***************************************************************************)
EXTENDS Integers

CONSTANTS
    Replicas,       \* operator replicas, by holderID (host name and pid)
    Nobody,         \* the empty HolderIdentity that a release writes
    LeaseDuration,  \* PreemptionEvalLeaseDur, in ticks
    MaxEvaluation   \* longest time from reading the lease to the evaluation's
                    \* end, in ticks; the code does not bound it

ASSUME LeaseAssumption ==
    /\ Nobody \notin Replicas
    /\ LeaseDuration \in Nat \ {0}
    /\ MaxEvaluation \in Nat

VARIABLES
    lease,  \* the stored Lease: whether it exists, its holder and the age of
            \* its RenewTime
    step,   \* where each replica is in tryRunPreemptionEvaluation
    copy,   \* the lease as each replica last read it
    since   \* age of each replica's own "now", the RenewTime it writes

vars == <<lease, step, copy, since>>

\* Ages saturate above every duration they are compared with.
MaxLeaseAge == LeaseDuration + MaxEvaluation
LeaseAges == 0..MaxLeaseAge

Lease == [exists : BOOLEAN, holder : Replicas \cup {Nobody}, age : LeaseAges]

NoLease == [exists |-> FALSE, holder |-> Nobody, age |-> 0]

Steps == {"idle", "acquiring", "evaluating", "releasing"}

Init ==
    /\ lease = NoLease
    /\ step = [r \in Replicas |-> "idle"]
    /\ copy = [r \in Replicas |-> NoLease]
    /\ since = [r \in Replicas |-> 0]

Goto(r, s) == step' = [step EXCEPT ![r] = s]

Stored(holder, age) == [exists |-> TRUE, holder |-> holder, age |-> age]

\* Mutant: an old lease does not expire.
AvailableForever(r, l) == ~l.exists \/ l.holder = r

\* A lease held by another replica, or released by any, counts until its
\* RenewTime is LeaseDuration old.
Available(r, l) == ~l.exists \/ l.holder = r \/ l.age >= LeaseDuration

\* tryAcquireLease reads the lease and finds it missing, expired or its own. An
\* unavailable lease makes it return false with nothing changed.
ReadForAcquire(r) ==
    /\ step[r] = "idle"
    /\ Available(r, lease)
    /\ copy' = [copy EXCEPT ![r] = lease]
    /\ since' = [since EXCEPT ![r] = 0]
    /\ Goto(r, "acquiring")
    /\ UNCHANGED lease

\* Mutant: the write is not conditional on the read.
AcquireBlindly(r) ==
    /\ step[r] = "acquiring"
    /\ lease' = Stored(r, since[r])
    /\ Goto(r, "evaluating")
    /\ UNCHANGED <<copy, since>>

\* Mutant: RenewTime holds the time of expiry.
AcquireUntil(r) ==
    /\ step[r] = "acquiring"
    /\ copy[r] = lease
    /\ lease' = Stored(r, since[r] - LeaseDuration)
    /\ Goto(r, "evaluating")
    /\ UNCHANGED <<copy, since>>

\* The Create or Update lands: no other replica has written in between.
Acquire(r) ==
    /\ step[r] = "acquiring"
    /\ copy[r] = lease
    /\ lease' = Stored(r, since[r])
    /\ Goto(r, "evaluating")
    /\ UNCHANGED <<copy, since>>

\* AlreadyExists, Conflict or any other error: tryAcquireLease returns false.
AcquireFails(r) ==
    /\ step[r] = "acquiring"
    /\ Goto(r, "idle")
    /\ UNCHANGED <<lease, copy, since>>

\* The evaluation is over, with or without an error, and the deferred
\* releaseLease reads the lease. It gives up if the lease is somebody else's.
ReadForRelease(r) ==
    /\ step[r] = "evaluating"
    /\ copy' = [copy EXCEPT ![r] = lease]
    /\ Goto(r, IF lease.holder = r THEN "releasing" ELSE "idle")
    /\ UNCHANGED <<lease, since>>

\* Mutant: the holder is cleared whoever it is by now.
ReleaseBlindly(r) ==
    /\ step[r] = "releasing"
    /\ lease' = Stored(Nobody, lease.age)
    /\ Goto(r, "idle")
    /\ UNCHANGED <<copy, since>>

\* The holder is cleared; RenewTime stays.
Release(r) ==
    /\ step[r] = "releasing"
    /\ copy[r] = lease
    /\ lease' = Stored(Nobody, lease.age)
    /\ Goto(r, "idle")
    /\ UNCHANGED <<copy, since>>

\* The read or the write of releaseLease fails: the lease is left to expire.
ReleaseFails(r) ==
    /\ step[r] \in {"evaluating", "releasing"}
    /\ Goto(r, "idle")
    /\ UNCHANGED <<lease, copy, since>>

\* The process dies and comes back with the same identity, at any point.
Crash(r) ==
    /\ step[r] # "idle"
    /\ Goto(r, "idle")
    /\ UNCHANGED <<lease, copy, since>>

Aging(age) == IF age = MaxLeaseAge THEN age ELSE age + 1

AgedLease(l) == IF l.exists THEN [l EXCEPT !.age = Aging(@)] ELSE l

\* One tick of the clock, as long as nobody exceeds MaxEvaluation.
Tick ==
    /\ \A r \in Replicas :
          step[r] \in {"acquiring", "evaluating"} => since[r] < MaxEvaluation
    /\ lease' = AgedLease(lease)
    /\ copy' = [r \in Replicas |-> AgedLease(copy[r])]
    /\ since' = [r \in Replicas |-> Aging(since[r])]
    /\ UNCHANGED step

Next ==
    \/ \E r \in Replicas :
          \/ ReadForAcquire(r) \/ Acquire(r) \/ AcquireFails(r)
          \/ ReadForRelease(r) \/ Release(r) \/ ReleaseFails(r)
          \/ Crash(r)
    \/ Tick

Spec == Init /\ [][Next]_vars

\* Replicas keep asking for evaluations (every reconcile of an Idle workload
\* does) and do not stop in the middle of one; the API server does not reject
\* every conditional write forever; time passes.
Fairness ==
    /\ \A r \in Replicas :
          /\ WF_vars(ReadForAcquire(r))
          /\ WF_vars(Acquire(r) \/ AcquireFails(r))
          /\ SF_vars(Acquire(r))
          /\ WF_vars(ReadForRelease(r))
          /\ WF_vars(Release(r) \/ ReleaseFails(r))
    /\ WF_vars(Tick)

LiveSpec == Spec /\ Fairness

-----------------------------------------------------------------------------
TypeOK ==
    /\ lease \in Lease
    /\ step \in [Replicas -> Steps]
    /\ copy \in [Replicas -> Lease]
    /\ since \in [Replicas -> LeaseAges]

\* tryRunPreemptionEvaluation runs in at most one replica at a time.
MutualExclusion ==
    \A r, q \in Replicas :
        step[r] = "evaluating" /\ step[q] = "evaluating" => r = q

\* A replica that evaluates still holds the lease: no release of another
\* replica, delayed since an earlier evaluation, has cleared the holder under
\* it, and no acquisition based on an outdated read has replaced it.
EvaluatorHoldsLease ==
    \A r \in Replicas : step[r] = "evaluating" =>
        lease.exists /\ lease.holder = r /\ lease.age < LeaseDuration

\* However replicas crash, fail to release or lose races for the lease, some
\* replica evaluates again and again.
EvaluationsKeepHappening == []<>(\E r \in Replicas : step[r] = "evaluating")

=============================================================================
