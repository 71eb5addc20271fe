----------------------------- MODULE Employment -----------------------------
(***************************************************************************)
(* The two ends of one employment and the Workday events they raise: the   *)
(* onboarding case up to day zero, the offboarding cases with their        *)
(* clearance gates, and the drain of workday_sync_outbox                   *)
(* (apps/api/src/trpc/router.ts, apps/api/src/lib/offboarding-case.ts,     *)
(* apps/workers/src/lib/workday-simulation-drain.ts).                      *)
(*                                                                         *)
(* A mutation is one READ COMMITTED transaction on ctx.db, a Begin (its    *)
(* reads, without a lock, and its checks) and a Commit* (its writes).      *)
(* ctx.sql is another connection: what is written there is committed at    *)
(* once.  So a Workday event stands as soon as it is enqueued, while the   *)
(* move of the case that raised it holds the case row and commits later,   *)
(* or never; and an offboarding case stands before its checklist does.     *)
(*                                                                         *)
(* The onboarding case is there already (OfferLifecycle opens it).  Dates, *)
(* reasons, payloads, the exit interview and the tasks that gate nothing   *)
(* are left out; a refused mutation changes nothing.                       *)
(***************************************************************************)
EXTENDS Integers, FiniteSets

CONSTANTS
    Sessions,   \* mutations of HR under way at a time
    Targets,    \* statuses HR moves the onboarding case to
    MaxCases,   \* bound: offboarding cases of the person
    MaxRequests,\* bound: mutations of a case that get past their checks
    MaxFaults   \* bound: failures of statements, requests and passes

ASSUME EmploymentAssumption ==
    /\ MaxCases \in Nat \ {0}
    /\ MaxRequests \in Nat /\ MaxFaults \in Nat

VARIABLES
    onboarding, \* the onboarding_cases row: status, and whether it has a worker id
    cases,      \* cases[k]: the offboarding_cases rows, with their settlement
    tasks,      \* tasks[k][t]: the tasks of the checklist: missing, open or completed
    outbox,     \* outbox[e]: the workday_sync_outbox rows, by business key
    drain,      \* the pass of the drain: the rows it holds, and one to be written back
    tx,         \* tx[s]: the mutations under way, where each is, and what it has read
    requests,   \* mutations of a case so far
    revoked,    \* history: cases whose access revocation has been completed
    approved,   \* history: cases whose settlement has been approved
    stale,      \* history: a mutation has written on a stale read
    faults      \* failures so far

caseVars == <<onboarding, cases, tasks>>
historyVars == <<revoked, approved, stale>>
vars == <<caseVars, outbox, drain, tx, requests, historyVars, faults>>

Cases == 1 .. MaxCases

\* The checklist, in the order it is created, as far as gates read it.
Checklist == <<"asset_return", "access_revocation">>
Tasks == {"asset_return", "access_revocation"}

\* dayZeroHireBusinessKey and terminateBusinessKey.
Hire == <<"day_zero_hire", 0>>
Terminate(k) == <<"terminate", k>>
Events == {Hire} \union {Terminate(k) : k \in Cases}

NoCase == [status |-> "none", settlement |-> "none"]
NoTx == [pc |-> "idle", req |-> [op |-> "none"], saw |-> <<>>]

Init ==
    /\ onboarding = [status |-> "pre_boarding", linked |-> FALSE]
    /\ cases = [k \in Cases |-> NoCase]
    /\ tasks = [k \in Cases |-> [t \in Tasks |-> "missing"]]
    /\ outbox = [e \in Events |-> "none"]
    /\ drain = [rows |-> {}, link |-> FALSE]
    /\ tx = [s \in Sessions |-> NoTx]
    /\ requests = 0
    /\ revoked = {}
    /\ approved = {}
    /\ stale = FALSE
    /\ faults = 0

Opened == {k \in Cases : cases[k].status # "none"}
Live == {k \in Opened : cases[k].status # "cancelled"}
Done(k, t) == tasks[k][t] = "completed"

Fault == faults < MaxFaults /\ faults' = faults + 1

-----------------------------------------------------------------------------
(* Mutations: what they ask, read and check                                *)

OnboardingMoves == [op : {"onboard"}, to : Targets]
CaseMoves == [op : {"advance"}, k : Opened,
              to : {"notice_period", "clearance", "completed", "cancelled"}]
Settlements == [op : {"settle"}, k : Opened, to : {"pending", "calculated", "approved", "paid"}]
Requests == OnboardingMoves \union CaseMoves \union Settlements \union {[op |-> "initiate"]}

\* ALLOWED_CASE_TRANSITIONS.
OnboardingSteps ==
    {<<"pre_boarding", "day_zero">>, <<"pre_boarding", "cancelled">>,
     <<"day_zero", "in_progress">>, <<"day_zero", "cancelled">>,
     <<"in_progress", "completed">>, <<"in_progress", "cancelled">>}

\* Faulty variant: a completed departure may still be withdrawn.
CaseStepsWithdrawn ==
    {<<"initiated", "notice_period">>, <<"initiated", "cancelled">>,
     <<"notice_period", "clearance">>, <<"notice_period", "cancelled">>,
     <<"clearance", "completed">>, <<"clearance", "cancelled">>,
     <<"completed", "cancelled">>}

\* ALLOWED_OFFBOARDING_TRANSITIONS.
CaseSteps ==
    {<<"initiated", "notice_period">>, <<"initiated", "cancelled">>,
     <<"notice_period", "clearance">>, <<"notice_period", "cancelled">>,
     <<"clearance", "completed">>, <<"clearance", "cancelled">>}

\* ALLOWED_SETTLEMENT_TRANSITIONS, from a row that is made on the first touch.
Settlement(k) == IF cases[k].settlement = "none" THEN "pending" ELSE cases[k].settlement
SettlementSteps ==
    {<<"pending", "calculated">>, <<"calculated", "approved">>, <<"approved", "paid">>}

\* Faulty variant: any settlement that has been worked on will do.
ClearedOnPaper(k) ==
    /\ Done(k, "access_revocation") /\ Done(k, "asset_return")
    /\ cases[k].settlement \notin {"none", "pending"}

\* advanceOffboardingCase: the gates of the move to 'completed'.
Cleared(k) ==
    /\ Done(k, "access_revocation") /\ Done(k, "asset_return")
    /\ cases[k].settlement \in {"approved", "paid"}

\* What the SELECTs of a mutation return.
Reads(req) ==
    CASE req.op = "onboard" -> <<onboarding.status>>
      [] req.op = "advance" -> <<cases[req.k].status, req.to = "completed" => Cleared(req.k)>>
      [] req.op = "settle" -> <<cases[req.k].settlement,
                                req.to = "approved" => Done(req.k, "access_revocation")>>
      [] req.op = "initiate" -> <<Live>>

Passes(req) ==
    CASE req.op = "onboard" -> <<onboarding.status, req.to>> \in OnboardingSteps
      [] req.op = "advance" ->
            /\ <<cases[req.k].status, req.to>> \in CaseSteps
            /\ req.to = "completed" => Cleared(req.k)
      [] req.op = "settle" ->
            /\ <<Settlement(req.k), req.to>> \in SettlementSteps
                \/ (req.to = Settlement(req.k) /\ req.to # "paid")
            /\ (req.to = "approved" /\ Settlement(req.k) # "approved")
                => Done(req.k, "access_revocation")
      [] req.op = "initiate" -> Live = {} /\ Opened # Cases

At(s, pc, op) == tx[s].pc = pc /\ tx[s].req.op = op

\* The case rows that a transaction has written and not yet committed.
HoldsOnboarding(s) == At(s, "enqueued", "onboard")
Holds(s, k) == At(s, "enqueued", "advance") /\ tx[s].req.k = k
OnboardingFree == \A s \in Sessions : ~HoldsOnboarding(s)
Free(k) == \A s \in Sessions : ~Holds(s, k)

Begin(s) ==
    /\ tx[s] = NoTx
    /\ \E req \in Requests :
        /\ Passes(req)
        /\ req.op # "initiate" => requests < MaxRequests
        /\ requests' = IF req.op = "initiate" THEN requests ELSE requests + 1
        /\ tx' = [tx EXCEPT ![s] = [pc |-> "begun", req |-> req, saw |-> Reads(req)]]
    /\ UNCHANGED <<caseVars, outbox, drain, historyVars, faults>>

\* Refused by a constraint, or given up before anything is written.
Abort(s) ==
    /\ tx[s].pc = "begun"
    /\ tx' = [tx EXCEPT ![s] = NoTx]
    /\ UNCHANGED <<requests, caseVars, outbox, drain, historyVars, faults>>

\* Rolled back, but what was written on ctx.sql stands: the event, or the case.
RequestDies(s) ==
    /\ tx[s].pc \in {"enqueued", "checklist"}
    /\ Fault
    /\ tx' = [tx EXCEPT ![s] = NoTx]
    /\ UNCHANGED <<requests, caseVars, outbox, drain, historyVars>>

Ends(s) == tx' = [tx EXCEPT ![s] = NoTx]
WritesOnRead(s) == stale' = (stale \/ Reads(tx[s].req) # tx[s].saw)

-----------------------------------------------------------------------------
(* Events, on the connection of their own                                  *)

\* INSERT under the unique business key; a second one is 'already queued'.
Enqueue(e) == outbox' = [outbox EXCEPT ![e] = IF @ = "none" THEN "pending" ELSE @]

\* updateOnboardingCase to day_zero: the UPDATE, then enqueueDayZeroWorkdayHire.
EnqueueHire(s) ==
    /\ At(s, "begun", "onboard") /\ tx[s].req.to = "day_zero"
    /\ OnboardingFree
    /\ \/ Enqueue(Hire) /\ UNCHANGED faults
       \/ Fault /\ UNCHANGED outbox
    /\ WritesOnRead(s)
    /\ tx' = [tx EXCEPT ![s].pc = "enqueued"]
    /\ UNCHANGED <<requests, caseVars, drain, revoked, approved>>

\* uniq_offboarding_cases_active_per_candidate, which a row that is written must pass.
Admits(k) == Live \subseteq {k}

\* advanceOffboardingCase to completed: the UPDATE, then enqueueTerminateWorkday.
EnqueueTerminate(s) ==
    /\ At(s, "begun", "advance") /\ tx[s].req.to = "completed"
    /\ LET k == tx[s].req.k
       IN /\ Free(k) /\ Admits(k)
          /\ \/ Enqueue(Terminate(k)) /\ UNCHANGED faults
             \/ Fault /\ UNCHANGED outbox
    /\ WritesOnRead(s)
    /\ tx' = [tx EXCEPT ![s].pc = "enqueued"]
    /\ UNCHANGED <<requests, caseVars, drain, revoked, approved>>

-----------------------------------------------------------------------------
(* Moves of the cases                                                      *)

\* By id, whatever the status is by now; the hire event has gone before.
CommitOnboard(s) ==
    /\ \/ HoldsOnboarding(s) /\ UNCHANGED stale
       \/ /\ At(s, "begun", "onboard") /\ tx[s].req.to # "day_zero"
          /\ OnboardingFree
          /\ WritesOnRead(s)
    /\ onboarding' = [onboarding EXCEPT !.status = tx[s].req.to]
    /\ Ends(s)
    /\ UNCHANGED <<requests, cases, tasks, outbox, drain, revoked, approved, faults>>

CommitAdvance(s) ==
    LET req == tx[s].req
    IN  /\ \/ At(s, "enqueued", "advance") /\ UNCHANGED stale
           \/ /\ At(s, "begun", "advance") /\ req.to # "completed"
              /\ Free(req.k)
              /\ req.to # "cancelled" => Admits(req.k)
              /\ WritesOnRead(s)
        /\ cases' = [cases EXCEPT ![req.k].status = req.to]
        /\ Ends(s)
        /\ UNCHANGED <<requests, onboarding, tasks, outbox, drain, revoked, approved, faults>>

\* createOffboardingCase: the row, which the index admits only if no other is live.
InsertCase(s) ==
    /\ At(s, "begun", "initiate")
    /\ Live = {} /\ Opened # Cases /\ \A k \in Cases : Free(k)
    /\ LET k == Cardinality(Opened) + 1
       IN /\ cases' = [cases EXCEPT ![k] = [NoCase EXCEPT !.status = "initiated"]]
          /\ tx' = [tx EXCEPT ![s] = [pc |-> "checklist", req |-> @.req, saw |-> <<k>>]]
    /\ UNCHANGED <<requests, onboarding, tasks, outbox, drain, historyVars, faults>>

\* The first n tasks of the checklist.
FirstTasks(n) ==
    [t \in Tasks |-> IF \E m \in 1 .. n : Checklist[m] = t THEN "open" ELSE "missing"]

\* The tasks one by one; a failure leaves those before it, and the case without the rest.
CreateTasks(s) ==
    /\ At(s, "checklist", "initiate")
    /\ \E n \in 0 .. 2 :
        /\ tasks' = [tasks EXCEPT ![tx[s].saw[1]] = FirstTasks(n)]
        /\ IF n = 2 THEN UNCHANGED faults ELSE Fault
    /\ Ends(s)
    /\ UNCHANGED <<requests, onboarding, cases, outbox, drain, historyVars>>

-----------------------------------------------------------------------------
(* Clearance: tasks and settlement                                         *)

\* updateOffboardingTaskStatus, by id, in a case of any status; recordAssetReturn and
\* updateAssetReturn when they find everything returned.
SetTask(k, t, to) ==
    /\ tasks[k][t] # "missing"
    /\ tasks' = [tasks EXCEPT ![k][t] = to]
    /\ revoked' = IF t = "access_revocation" /\ to = "completed" THEN revoked \union {k}
                  ELSE revoked
    /\ UNCHANGED <<requests, onboarding, cases, outbox, drain, tx, approved, stale, faults>>

\* updateFinalSettlement: the walk.  The row of a case that somebody else has made since
\* is a unique violation.
CommitSettle(s) ==
    /\ At(s, "begun", "settle")
    /\ LET req == tx[s].req
           was == IF tx[s].saw[1] = "none" THEN "pending" ELSE tx[s].saw[1]
       IN /\ tx[s].saw[1] = "none" => cases[req.k].settlement = "none"
          /\ cases' = [cases EXCEPT ![req.k].settlement =
                IF req.to = was /\ @ # "none" THEN @ ELSE req.to]
          /\ approved' = IF req.to = "approved" /\ was # "approved"
                         THEN approved \union {req.k} ELSE approved
    /\ WritesOnRead(s)
    /\ Ends(s)
    /\ UNCHANGED <<requests, onboarding, tasks, outbox, drain, revoked, faults>>

-----------------------------------------------------------------------------
(* drainWorkdayOutboxOnce                                                  *)

Claim ==
    /\ drain.rows = {} /\ ~drain.link
    /\ LET rows == {e \in Events : outbox[e] = "pending"}
       IN /\ rows # {}
          /\ outbox' = [e \in Events |-> IF e \in rows THEN "processing" ELSE outbox[e]]
          /\ drain' = [drain EXCEPT !.rows = rows]
    /\ UNCHANGED <<requests, caseVars, tx, historyVars, faults>>

\* One row; a hire is written back to its case next.
Simulate ==
    /\ ~drain.link
    /\ \E e \in drain.rows :
        /\ outbox' = [outbox EXCEPT ![e] = "simulated"]
        /\ drain' = [rows |-> drain.rows \ {e}, link |-> e = Hire]
    /\ UNCHANGED <<requests, caseVars, tx, historyVars, faults>>

\* The catch block of a row; there is no retry.
SimulateFails ==
    /\ ~drain.link
    /\ Fault
    /\ \E e \in drain.rows :
        /\ outbox' = [outbox EXCEPT ![e] = "failed"]
        /\ drain' = [drain EXCEPT !.rows = @ \ {e}]
    /\ UNCHANGED <<requests, caseVars, tx, historyVars>>

\* Faulty variant: only a case that is still at day zero is linked.
LinksAtDayZero(case) == [case EXCEPT !.linked = @ \/ case.status = "day_zero"]

\* writeBackWorkerIdForCase: an id that is there already stays.
Links(case) == [case EXCEPT !.linked = TRUE]

\* The UPDATE waits for a transaction that holds the row.
WriteBack ==
    /\ drain.link
    /\ OnboardingFree
    /\ onboarding' = Links(onboarding)
    /\ drain' = [drain EXCEPT !.link = FALSE]
    /\ UNCHANGED <<requests, cases, tasks, outbox, tx, historyVars, faults>>

WriteBackFails ==
    /\ drain.link
    /\ Fault
    /\ drain' = [drain EXCEPT !.link = FALSE]
    /\ UNCHANGED <<requests, caseVars, outbox, tx, historyVars>>

\* The process dies: the rows it holds stay 'processing', and nobody sweeps them.
WorkerDies ==
    /\ drain.rows # {} \/ drain.link
    /\ Fault
    /\ drain' = [rows |-> {}, link |-> FALSE]
    /\ UNCHANGED <<requests, caseVars, outbox, tx, historyVars>>

-----------------------------------------------------------------------------
Finish(s) == CommitOnboard(s) \/ CommitAdvance(s)

Mutation(s) ==
    \/ Begin(s) \/ Abort(s) \/ RequestDies(s)
    \/ EnqueueHire(s) \/ EnqueueTerminate(s) \/ Finish(s)
    \/ InsertCase(s) \/ CreateTasks(s) \/ CommitSettle(s)

Drain == Claim \/ Simulate \/ WriteBack

Next ==
    \/ \E s \in Sessions : Mutation(s)
    \/ \E k \in Cases, t \in Tasks, to \in {"open", "completed"} : SetTask(k, t, to)
    \/ Drain \/ SimulateFails \/ WriteBackFails \/ WorkerDies

Spec == Init /\ [][Next]_vars

\* The loop of the drain runs on, and a request that has enqueued its event commits.
FairSpec ==
    /\ Spec
    /\ WF_vars(Drain)
    /\ \A s \in Sessions : WF_vars(tx[s].pc = "enqueued" /\ Finish(s))

-----------------------------------------------------------------------------
(* Properties                                                              *)

TypeOK ==
    /\ onboarding \in [status : {"pre_boarding", "day_zero", "in_progress", "completed",
                                 "cancelled"}, linked : BOOLEAN]
    /\ cases \in [Cases -> [status : {"none", "initiated", "notice_period", "clearance",
                                      "completed", "cancelled"},
                            settlement : {"none", "pending", "calculated", "approved",
                                          "paid"}]]
    /\ tasks \in [Cases -> [Tasks -> {"missing", "open", "completed"}]]
    /\ outbox \in [Events -> {"none", "pending", "processing", "simulated", "failed"}]
    /\ drain \in [rows : SUBSET Events, link : BOOLEAN]
    /\ requests \in 0 .. MaxRequests
    /\ revoked \subseteq Cases /\ approved \subseteq Cases
    /\ faults \in 0 .. MaxFaults

\* However mutations overlap and fail, nobody is reported to Workday as terminated before
\* access has been revoked and the settlement approved; and as long as nobody writes on a
\* stale read the settlement still is approved or paid (the gates of
\* advanceOffboardingCase and updateFinalSettlement).
TerminatedWasCleared ==
    \A k \in Cases : outbox[Terminate(k)] # "none" =>
        /\ k \in revoked /\ k \in approved
        /\ ~stale => cases[k].settlement \in {"approved", "paid"}

\* As long as nothing fails and nobody writes on a stale read, a person reported as
\* terminated has a completed case, or one whose completion is about to commit: no
\* terminated employee goes on with a cancelled or open departure.
TerminationStands ==
    (~stale /\ faults = 0) =>
        \A k \in Cases : outbox[Terminate(k)] # "none" =>
            cases[k].status = "completed" \/ ~Free(k)

\* As long as nothing fails, a case that has reached day zero has its worker id or is on
\* the way to it: the hire event is queued, in the pass, or about to be written back.  It
\* may be enqueued, and simulated, before the case gets there, and the case may be moved on.
HireIsUnderWay ==
    (onboarding.status \in {"day_zero", "in_progress", "completed"} /\ faults = 0) =>
        \/ onboarding.linked
        \/ outbox[Hire] = "pending" \/ Hire \in drain.rows \/ drain.link

\* A case that reaches day zero gets its worker id in the end, whatever becomes of it in
\* the meantime, unless a statement or a pass has failed (nothing is retried).
HiredIsLinked ==
    (onboarding.status = "day_zero") ~> (onboarding.linked \/ faults > 0)

=============================================================================
