----------------------------- MODULE Interviews -----------------------------
(***************************************************************************)
(* The interview rounds of one application, and its walk along the stages. *)
(*                                                                         *)
(* Recruiters book, rebook, cancel, complete and no-show the rounds of a   *)
(* plan, panelists fill in their scorecards, the candidate confirms by     *)
(* link or in the portal, and the application is moved from stage to stage *)
(* by a booking, a completed round, a recruiter's move or its undo         *)
(* (apps/api/src/trpc/router.ts, apps/api/src/routes/interviews.ts).       *)
(*                                                                         *)
(* A mutation is one READ COMMITTED transaction: Begin is its reads, which *)
(* take no lock, and its checks on them; Commit* is its writes, by id.     *)
(* Others may commit in between, so each transaction keeps what it read,   *)
(* and a commit on something that has changed since is a stale one.  Roles *)
(* and e-mails are left out, and so is what a refused mutation does:       *)
(* nothing.                                                                *)
(***************************************************************************)
EXTENDS Naturals, Sequences

CONSTANTS
    Sessions,       \* requests of staff, panelists and candidate under way at a time
    Panelists,      \* memberships that may sit on a panel
    Panels,         \* the panels staff choose
    Rounds,         \* rounds of the interview plan
    HrRounds,       \* rounds whose scorecard template is 'hr'
    Targets,        \* stages recruiters move the application to
    MaxInterviews,  \* bound: interviews booked
    MaxRequests     \* bound: requests that get past their checks

ASSUME InterviewsAssumption ==
    /\ HrRounds \subseteq Rounds
    /\ Panels \subseteq SUBSET Panelists \ {{}}
    /\ MaxInterviews \in Nat
    /\ MaxRequests \in Nat

VARIABLES
    iv,         \* iv[i]: the interviews rows, in the order booked
    booked,     \* number of interviews
    card,       \* card[i][p]: interview_feedback of panelist p: none, draft, submitted
    stage,      \* applications.current_stage
    last,       \* the latest application_state_transitions row
    proceed,    \* the HR round assessment recommends 'proceed'
    tx,         \* tx[s]: the transaction under way, and what it has read
    requests,   \* requests so far
    forced,     \* history: interviews completed with 'force'
    stale       \* history: a transaction has written on a stale read

roundVars == <<iv, booked, card, forced>>
stageVars == <<stage, last>>
vars == <<roundVars, stageVars, proceed, tx, requests, stale>>

Interviews == 1 .. MaxInterviews
Booked == 1 .. booked

\* application_stage: the values this part of the pipeline can meet, in enum order.
Pipeline == <<"shortlisted", "tech_interview", "hr_round", "offer_drafted",
              "recruiter_rejected">>
Stages == {Pipeline[n] : n \in 1 .. Len(Pipeline)}

ASSUME TargetsAssumption == Targets \subseteq Stages

\* STAGE_ORDER_INDEX.
Order(st) == CHOOSE n \in 1 .. Len(Pipeline) : Pipeline[n] = st

\* interviewStageContext: the stage a round belongs to, and the one after it.
BelongsTo(r) == IF r \in HrRounds THEN "hr_round" ELSE "tech_interview"
NextStage(r) == IF r \in HrRounds THEN "offer_drafted" ELSE "hr_round"

NoInterview == [round |-> "none", status |-> "none", panel |-> {}, confirmed |-> FALSE]
NoTx == [req |-> [op |-> "idle"], saw |-> <<>>]

\* The application has been shortlisted, and its plan defined.
Init ==
    /\ iv = [i \in Interviews |-> NoInterview]
    /\ booked = 0
    /\ card = [i \in Interviews |-> [p \in Panelists |-> "none"]]
    /\ stage = "shortlisted"
    /\ last = [from |-> "none", to |-> "shortlisted"]
    /\ proceed = FALSE
    /\ tx = [s \in Sessions |-> NoTx]
    /\ requests = 0
    /\ forced = {}
    /\ stale = FALSE

\* The rows the partial unique index admits once per round: not cancelled.
Live(r) == {i \in Booked : iv[i].round = r /\ iv[i].status # "cancelled"}

AllSubmitted(i) ==
    iv[i].panel # {} /\ \A p \in iv[i].panel : card[i][p] = "submitted"

-----------------------------------------------------------------------------
(* Requests, what they read and what they check                            *)

Bookings == [op : {"schedule", "reschedule"}, round : Rounds, panel : Panels]
RoundRequests == [op : {"cancel", "no_show", "complete", "force", "advance", "confirm"},
                  i : Booked]
CardRequests == [op : {"save", "submit", "reopen"}, i : Booked, p : Panelists]
StageRequests == [op : {"move"}, to : Targets] \union [op : {"revert"}]
Requests == Bookings \union RoundRequests \union CardRequests \union StageRequests

\* What the SELECTs of a request return.
Reads(req) ==
    CASE req.op \in {"schedule", "reschedule"} -> [stage |-> stage, live |-> Live(req.round)]
      [] req.op \in {"cancel", "no_show", "confirm"} -> [status |-> iv[req.i].status]
      [] req.op \in {"complete", "force"} -> [status |-> iv[req.i].status, cards |-> card[req.i]]
      [] req.op \in {"save", "submit"} -> [card |-> card[req.i][req.p]]
      [] req.op = "reopen" -> [status |-> iv[req.i].status, card |-> card[req.i][req.p]]
      [] req.op = "advance" -> [status |-> iv[req.i].status, stage |-> stage, proceed |-> proceed]
      [] req.op = "move" -> [stage |-> stage, proceed |-> proceed]
      [] req.op = "revert" -> [last |-> last]

\* transitionApplicationStage: the HROPS-01 gate out of the HR round.
HrGate(to) == (stage = "hr_round" /\ to = "offer_drafted") => proceed

\* completeInterview without 'force'.
MayComplete(i) == iv[i].status = "scheduled" /\ AllSubmitted(i)

\* Faulty variant: a completed interview may still have its scorecards reopened.
MayReopenLate(i, p) == card[i][p] = "submitted"

\* reopenInterviewFeedback.
MayReopen(i, p) == iv[i].status # "completed" /\ card[i][p] = "submitted"

\* The conditions under which a request goes on to write.
Passes(req) ==
    CASE req.op = "schedule" -> booked < MaxInterviews /\ Live(req.round) = {}
      [] req.op = "reschedule" -> booked < MaxInterviews
      [] req.op \in {"cancel", "confirm"} -> iv[req.i].status # "cancelled"
      [] req.op = "no_show" -> iv[req.i].status = "scheduled"
      [] req.op = "complete" -> MayComplete(req.i)
      [] req.op = "force" -> iv[req.i].status = "scheduled" /\ ~AllSubmitted(req.i)
      [] req.op \in {"save", "submit"} ->
            req.p \in iv[req.i].panel /\ card[req.i][req.p] # "submitted"
      [] req.op = "reopen" -> MayReopen(req.i, req.p)
      [] req.op = "advance" ->
            /\ iv[req.i].status = "completed"
            /\ stage = BelongsTo(iv[req.i].round)
            /\ HrGate(NextStage(iv[req.i].round))
      [] req.op = "move" -> stage # req.to /\ HrGate(req.to)
      [] req.op = "revert" -> last.from # "none"

Idle(s) == tx[s] = NoTx
At(s, ops) == tx[s].req.op \in ops

Begin(s) ==
    /\ Idle(s)
    /\ requests < MaxRequests
    /\ requests' = requests + 1
    /\ \E req \in Requests :
        /\ Passes(req)
        /\ tx' = [tx EXCEPT ![s] = [req |-> req, saw |-> Reads(req)]]
    /\ UNCHANGED <<roundVars, stageVars, proceed, stale>>

\* The end of a transaction that has written.
Finish(s) ==
    /\ stale' = (stale \/ Reads(tx[s].req) # tx[s].saw)
    /\ tx' = [tx EXCEPT ![s] = NoTx]
    /\ UNCHANGED requests

\* It fails, or is refused by a constraint, and is rolled back.
Abort(s) ==
    /\ ~Idle(s)
    /\ tx' = [tx EXCEPT ![s] = NoTx]
    /\ UNCHANGED <<roundVars, stageVars, proceed, requests, stale>>

\* A transition row and the new stage, by the application's id.
Transition(from, to) ==
    /\ last' = [from |-> from, to |-> to]
    /\ stage' = to

-----------------------------------------------------------------------------
(* Rounds                                                                  *)

\* Faulty variant: the unique index is on the scheduled rows only.
AdmitsScheduled(rows) ==
    \A i, j \in Interviews :
        rows[i].round = rows[j].round /\ i # j =>
            "scheduled" # rows[i].status \/ "scheduled" # rows[j].status

\* uniq_interviews_application_round_active, which every write of a row must pass.
Admits(rows) ==
    \A i, j \in Interviews :
        rows[i].round = rows[j].round /\ i # j =>
            {"none", "cancelled"} \intersect {rows[i].status, rows[j].status} # {}

\* syncStageForRound: forward only, from the stage read at the start.
SyncStage(was, r) ==
    IF Order(BelongsTo(r)) <= Order(was) THEN UNCHANGED stageVars
    ELSE Transition(was, BelongsTo(r))

\* rescheduleInterview cancels the round's live row first; then doScheduleRound.
CommitBooking(s) ==
    /\ At(s, {"schedule", "reschedule"})
    /\ booked < MaxInterviews
    /\ LET req == tx[s].req
           old == IF req.op = "reschedule" THEN tx[s].saw.live ELSE {}
           rows == [i \in Interviews |->
                        IF i \in old THEN [iv[i] EXCEPT !.status = "cancelled"] ELSE iv[i]]
       IN /\ iv' = [rows EXCEPT ![booked + 1] =
                [round |-> req.round, status |-> "scheduled", panel |-> req.panel,
                 confirmed |-> FALSE]]
          /\ Admits(iv')
          /\ booked' = booked + 1
          /\ SyncStage(tx[s].saw.stage, req.round)
    /\ Finish(s)
    /\ UNCHANGED <<card, forced, proceed>>

\* By id, whatever the status is by now: the index may still refuse it.
SetStatus(i, status) ==
    /\ iv' = [iv EXCEPT ![i].status = status]
    /\ Admits(iv')

CommitCancel(s) ==
    /\ At(s, {"cancel"})
    /\ SetStatus(tx[s].req.i, "cancelled")
    /\ Finish(s)
    /\ UNCHANGED <<booked, card, forced, stageVars, proceed>>

CommitNoShow(s) ==
    /\ At(s, {"no_show"})
    /\ SetStatus(tx[s].req.i, "no_show")
    /\ Finish(s)
    /\ UNCHANGED <<booked, card, forced, stageVars, proceed>>

CommitComplete(s) ==
    /\ At(s, {"complete", "force"})
    /\ SetStatus(tx[s].req.i, "completed")
    /\ forced' = IF At(s, {"force"}) THEN forced \union {tx[s].req.i} ELSE forced
    /\ Finish(s)
    /\ UNCHANGED <<booked, card, stageVars, proceed>>

\* The candidate's link, one UPDATE on the pool: unconfirmed and not cancelled.
ConfirmByLink(i) ==
    /\ iv[i].status # "cancelled"
    /\ ~iv[i].confirmed
    /\ iv' = [iv EXCEPT ![i].confirmed = TRUE]
    /\ UNCHANGED <<booked, card, forced, stageVars, proceed, tx, requests, stale>>

\* candidateConfirmInterview: the UPDATE asks only that it is unconfirmed.
CommitConfirm(s) ==
    /\ At(s, {"confirm"})
    /\ iv' = [iv EXCEPT ![tx[s].req.i].confirmed = TRUE]
    /\ Finish(s)
    /\ UNCHANGED <<booked, card, forced, stageVars, proceed>>

-----------------------------------------------------------------------------
(* Scorecards                                                              *)

\* INSERT under the unique (interview, panelist), or UPDATE of the row that was read.
CommitSave(s) ==
    /\ At(s, {"save", "submit"})
    /\ LET req == tx[s].req
       IN /\ tx[s].saw.card = "none" => card[req.i][req.p] = "none"
          /\ card' = [card EXCEPT ![req.i][req.p] =
                IF req.op = "submit" THEN "submitted" ELSE "draft"]
    /\ Finish(s)
    /\ UNCHANGED <<iv, booked, forced, stageVars, proceed>>

CommitReopen(s) ==
    /\ At(s, {"reopen"})
    /\ card' = [card EXCEPT ![tx[s].req.i][tx[s].req.p] = "draft"]
    /\ Finish(s)
    /\ UNCHANGED <<iv, booked, forced, stageVars, proceed>>

-----------------------------------------------------------------------------
(* Stages                                                                  *)

\* saveHrRoundAssessment (see OfferLifecycle), as far as the gate is concerned.
Assess ==
    /\ proceed' = ~proceed
    /\ UNCHANGED <<roundVars, stageVars, tx, requests, stale>>

\* advanceApplicationAfterInterview.
CommitAdvance(s) ==
    /\ At(s, {"advance"})
    /\ Transition(tx[s].saw.stage, NextStage(iv[tx[s].req.i].round))
    /\ Finish(s)
    /\ UNCHANGED <<roundVars, proceed>>

\* advanceApplication and rejectApplication.
CommitMove(s) ==
    /\ At(s, {"move"})
    /\ Transition(tx[s].saw.stage, tx[s].req.to)
    /\ Finish(s)
    /\ UNCHANGED <<roundVars, proceed>>

\* Faulty variant: the undo is recorded as the original move once more.
RevertedAgain(row) == [from |-> row.from, to |-> row.from]

\* The transition that undoes a transition.
Reverted(row) == [from |-> row.to, to |-> row.from]

\* revertApplicationStage, of the latest transition.
CommitRevert(s) ==
    /\ At(s, {"revert"})
    /\ LET row == Reverted(tx[s].saw.last) IN Transition(row.from, row.to)
    /\ Finish(s)
    /\ UNCHANGED <<roundVars, proceed>>

-----------------------------------------------------------------------------
Next ==
    \/ \E s \in Sessions :
        \/ Begin(s) \/ Abort(s)
        \/ CommitBooking(s) \/ CommitCancel(s) \/ CommitNoShow(s) \/ CommitComplete(s)
        \/ CommitConfirm(s) \/ CommitSave(s) \/ CommitReopen(s)
        \/ CommitAdvance(s) \/ CommitMove(s) \/ CommitRevert(s)
    \/ \E i \in Booked : ConfirmByLink(i)
    \/ Assess

Spec == Init /\ [][Next]_vars

-----------------------------------------------------------------------------
(* Properties                                                              *)

TypeOK ==
    /\ iv \in [Interviews ->
            [round : Rounds \union {"none"},
             status : {"none", "scheduled", "completed", "no_show", "cancelled"},
             panel : SUBSET Panelists, confirmed : BOOLEAN]]
    /\ booked \in 0 .. MaxInterviews
    /\ card \in [Interviews -> [Panelists -> {"none", "draft", "submitted"}]]
    /\ stage \in Stages
    /\ last \in [from : Stages \union {"none"}, to : Stages]
    /\ proceed \in BOOLEAN
    /\ DOMAIN tx = Sessions
    /\ \A s \in Sessions : Idle(s) \/ tx[s].req \in Requests
    /\ requests \in 0 .. MaxRequests
    /\ forced \subseteq Interviews
    /\ stale \in BOOLEAN

\* However bookings, rebookings and cancellations overlap, a round of the plan has at
\* most one interview that is not cancelled (the pre-check of doScheduleRound is only a
\* courtesy; rescheduleInterview cancels by the id it read).
OneLiveRound ==
    \A i, j \in Booked :
        /\ iv[i].round = iv[j].round
        /\ iv[i].status # "cancelled"
        /\ iv[j].status # "cancelled"
        => i = j

\* As long as nobody writes on a stale read, an interview that was completed without
\* 'force' has the submitted scorecard of every panelist: no draft save, reopening or
\* resubmission takes the basis of the decision away afterwards.
DecisionBasis ==
    ~stale => \A i \in Booked \ forced : iv[i].status = "completed" => AllSubmitted(i)

\* As long as nobody writes on a stale read, the transition log is a chain: every row,
\* also those of bookings and undos, starts from the stage the application was at.
LogIsChain ==
    [][(<<stage, last>>' # <<stage, last>> /\ ~stale') => last'.from = stage]_vars

\* As long as nobody writes on a stale read, booking a round never moves the application
\* back, and leaves a rejected one rejected (syncStageForRound).
BookingNeverMovesBack ==
    [][(booked' # booked /\ ~stale') => Order(stage') >= Order(stage)]_vars

=============================================================================
