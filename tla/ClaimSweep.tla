----------------------------- MODULE ClaimSweep ----------------------------
(***************************************************************************)
(* The ownership claims together with the scheduled job that ends them:     *)
(* ownershipClaimSweep (apps/workers/src/jobs/ownership-claim-sweep.ts) run  *)
(* by the Scheduler of every worker process.                                *)
(*                                                                         *)
(* The job expires the claims whose window is over, reads those that are    *)
(* about to end and warns their partners one by one.  An error ends the run *)
(* and is recorded by the scheduler like a success.                         *)
(***************************************************************************)
EXTENDS PartnerClaims, Scheduler

VARIABLES
    warned,     \* the claims with a warning in the outbox
    sweeping    \* each worker's run of the job: its next statement and what it has read

vars == <<claimsVars, schedulerVars, warned, sweeping>>

NoSweep == [pc |-> "expire", toWarn |-> {}]

Init ==
    /\ ClaimsInit
    /\ SchedulerInit
    /\ warned = {}
    /\ sweeping = [w \in Workers |-> NoSweep]

InJob(w) == \E j \in Jobs : Running(w, j)
At(w, pc) == InJob(w) /\ sweeping[w].pc = pc

Expire(w) ==
    /\ At(w, "expire")
    /\ SweepExpired
    /\ sweeping' = [sweeping EXCEPT ![w].pc = "select"]
    /\ UNCHANGED <<schedulerVars, warned>>

\* The claims warnExpiringOwnershipClaims selects.
Expiring == {i \in ClaimIds : claims[i].status = "active" /\ claims[i].window = "closing"}

Select(w) ==
    /\ At(w, "select")
    /\ sweeping' = [sweeping EXCEPT ![w] = [pc |-> "warn", toWarn |-> Expiring]]
    /\ UNCHANGED <<claimsVars, schedulerVars, warned>>

\* Faulty variant: the dedup key is made from the person, not from the claim.
WarnPersonOnce(i) ==
    warned' = IF \E k \in warned : claims[k].person = claims[i].person
              THEN warned ELSE warned \union {i}

\* enqueueNotification: the dedup key of the claim refuses a second warning about it, and
\* the loop goes on.
Warn(i) == warned' = warned \union {i}

WarnOne(w) ==
    /\ At(w, "warn")
    /\ \E i \in sweeping[w].toWarn :
        /\ Warn(i)
        /\ sweeping' = [sweeping EXCEPT ![w].toWarn = @ \ {i}]
    /\ UNCHANGED <<claimsVars, schedulerVars>>

\* The run returns, or throws at any statement.
Return(w) ==
    /\ At(w, "warn") /\ sweeping[w].toWarn = {}
    /\ JobReturns(w)
    /\ sweeping' = [sweeping EXCEPT ![w] = NoSweep]
    /\ UNCHANGED <<claimsVars, warned>>

Throw(w) ==
    /\ JobThrows(w)
    /\ sweeping' = [sweeping EXCEPT ![w] = NoSweep]
    /\ UNCHANGED <<claimsVars, warned>>

JobStep(w) == Expire(w) \/ Select(w) \/ WarnOne(w) \/ Return(w)

\* A worker that dies loses its run.
Rest == [w \in Workers |-> IF worker'[w].pc = "run" THEN sweeping[w] ELSE NoSweep]

SchedulerStep(w) ==
    TickStep(w) /\ sweeping' = Rest /\ UNCHANGED <<claimsVars, warned>>

EnvironmentStep ==
    SchedulerEnvironment /\ sweeping' = Rest /\ UNCHANGED <<claimsVars, warned>>

ClaimsStep == ApiStep /\ UNCHANGED <<schedulerVars, warned, sweeping>>

Next ==
    \/ ClaimsStep \/ EnvironmentStep
    \/ \E w \in Workers : SchedulerStep(w) \/ JobStep(w) \/ Throw(w)

Spec == Init /\ [][Next]_vars

\* Workers go on, intervals run out, and the pooler closes a server connection that is
\* left with a lock some day (its server lifetime).
Recycled(c) == Recycle(c) /\ sweeping' = Rest /\ UNCHANGED <<claimsVars, warned>>
Elapsed(j) == Elapse(j) /\ sweeping' = Rest /\ UNCHANGED <<claimsVars, warned>>

FairSpec ==
    /\ Spec
    /\ \A w \in Workers : WF_vars(SchedulerStep(w)) /\ WF_vars(JobStep(w))
    /\ \A c \in Connections : WF_vars(Recycled(c))
    /\ \A j \in Jobs : WF_vars(Elapsed(j))

-----------------------------------------------------------------------------
(* Properties                                                              *)

TypeOK ==
    /\ ClaimsTypeOK /\ SchedulerTypeOK
    /\ warned \subseteq ClaimIds
    /\ sweeping \in [Workers ->
            [pc : {"expire", "select", "warn"}, toWarn : SUBSET ClaimIds]]

\* A partner whose claim is about to end hears of it, unless the claim ends first: also
\* when an earlier claim on the same person was warned about, when the run that selected
\* the claim throws or dies, and when a dead run has left the lock of the job behind.
ExpiryIsWarned ==
    \A i \in ClaimIds :
        (i \in Expiring) ~> (i \in warned \/ i \notin Expiring)

\* A claim whose window is over does not block its candidate for ever: in the end the
\* sweep or an early release frees the person, whatever lock a dead run has left behind.
LapsedIsFreed ==
    \A i \in ClaimIds :
        (claims[i].window = "lapsed") ~> (claims[i].status \in {"expired", "released"})

=============================================================================
