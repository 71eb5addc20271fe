------------------------------ MODULE AgentRuns ------------------------------
(***************************************************************************)
(* Messaging agents: the run drain, the approval gate and its resolutions. *)
(*                                                                         *)
(* The stage_stale scan enqueues one agent_run_outbox row per (agent,      *)
(* application).  The drain (apps/workers/src/lib/agent-run-drain.ts)      *)
(* claims a row, opens or resumes a run and walks the two actions of a     *)
(* curated Follow-Up agent, draft_message (gated by an approval rule) and  *)
(* send_message.  An action is executed first and gated afterwards.  At    *)
(* the gate the run is paused; a recruiter's mutation                      *)
(* (apps/api/src/trpc/router.ts, approveApproval and its siblings) or the  *)
(* TTL scan (apps/workers/src/jobs/sla-imminent-scan.ts) resolves it and   *)
(* puts outbox rows back into rotation, and the next pass resumes the run  *)
(* from its recorded actions.                                              *)
(*                                                                         *)
(* One drain process (batch of one), any number of recruiters, one TTL     *)
(* scan.  A recruiter's mutation is one transaction and one action; the    *)
(* drain and the scan run statement by statement, so each of their         *)
(* statements is an action.  A run, its two run_actions and its approval   *)
(* request are one record: a single drain creates at most one of each.     *)
(***************************************************************************)
EXTENDS Naturals, Sequences, FiniteSets

CONSTANTS
    Agents,         \* automation agents (versions)
    Rows,           \* outbox rows: one per (agent, application), ever
    AgentOf,        \* the agent a row is for
    Mode,           \* approval_mode of the rule on the agent's draft
    MaxFaults       \* bound: process crashes and thrown errors in a behaviour

Modes == {"auto", "human_required", "human_optional"}

ASSUME AgentAssumption ==
    /\ AgentOf \in [Rows -> Agents]
    /\ Mode \in [Agents -> Modes]
    /\ MaxFaults \in Nat

VARIABLES
    outbox,     \* outbox[r]: status of the agent_run_outbox row
    runs,       \* sequence of agent_runs in triggered_at order
    drain,      \* the drain's program counter and local variables
    ttlTodo,    \* runs whose request the TTL scan has read and not handled
    faults,     \* crashes and thrown errors so far
    moved       \* history: rows taken out of their pause by a decision on another run

vars == <<outbox, runs, drain, ttlTodo, faults, moved>>

RunIds == 1 .. Len(runs)

OutboxStatus == {"absent", "pending", "processing", "awaiting_approval",
                 "completed", "failed"}
RunStatus == {"running", "awaiting_approval", "completed", "failed", "rejected"}
ActionStatus == {"none", "running", "awaiting_approval", "completed", "failed"}
Bodies == {"none", "proposed", "edited"}
ApprovalStatus == {"none", "pending", "approved", "auto_approved", "rejected"}

\* draft, send: status of the run_action; body: output of the draft;
\* sent: body of the message enqueued to the candidate.
\* History: signed, the body let through.
NewRun(r) ==
    [row |-> r, status |-> "running", draft |-> "none", send |-> "none",
     body |-> "none", approval |-> "none", ttl |-> "none", sent |-> "none",
     signed |-> "none"]

Idle == [pc |-> "idle"]

Init ==
    /\ outbox = [r \in Rows |-> "absent"]
    /\ runs = <<>>
    /\ drain = Idle
    /\ ttlTodo = {}
    /\ faults = 0
    /\ moved = {}

-----------------------------------------------------------------------------
(* stage_stale scan                                                        *)

\* INSERT ... SELECT ... WHERE NOT EXISTS a row for the same pair.
StaleScan(r) ==
    /\ outbox[r] = "absent"
    /\ outbox' = [outbox EXCEPT ![r] = "pending"]
    /\ UNCHANGED <<runs, drain, ttlTodo, faults, moved>>

-----------------------------------------------------------------------------
(* The drain: claim, resume probe, duplicate guard                         *)

Goto(step) == drain' = [drain EXCEPT !.pc = step]

\* Whatever puts a row back to 'pending' clears its locked_until as well.
Claim(r) ==
    /\ drain = Idle
    /\ outbox[r] = "pending"
    /\ outbox' = [outbox EXCEPT ![r] = "processing"]
    /\ drain' = [pc |-> "probe", row |-> r, run |-> 0,
                 draft |-> "none", send |-> "none", body |-> "none"]
    /\ UNCHANGED <<runs, ttlTodo, faults, moved>>

InProgress(r) ==
    {k \in RunIds : runs[k].row = r /\ runs[k].status \in {"running", "awaiting_approval"}}

\* Faulty variant: no resume probe, every pass opens a run.
ProbeSkipped ==
    /\ drain.pc = "probe"
    /\ Goto("insert")
    /\ UNCHANGED <<outbox, runs, ttlTodo, faults, moved>>

\* SELECT the latest in-progress run of the same agent and trigger context.
\* The run id reaches the catch block only through notifyRunCreated, later.
Probe ==
    /\ drain.pc = "probe"
    /\ IF InProgress(drain.row) = {}
       THEN Goto("insert")
       ELSE \E k \in InProgress(drain.row) :
              /\ \A j \in InProgress(drain.row) : j <= k
              /\ drain' = [drain EXCEPT !.run = k,
                    !.pc = IF runs[k].status = "awaiting_approval"
                           THEN "guard" ELSE "resume"]
    /\ UNCHANGED <<outbox, runs, ttlTodo, faults, moved>>

\* Poisoned-resume guard: is the paused run's request still pending?
Guard ==
    /\ drain.pc = "guard"
    /\ Goto(IF runs[drain.run].approval = "pending" THEN "skip" ELSE "resume")
    /\ UNCHANGED <<outbox, runs, ttlTodo, faults, moved>>

\* The row is closed as a duplicate; run and request are left alone.
SkipDuplicate ==
    /\ drain.pc = "skip"
    /\ outbox' = [outbox EXCEPT ![drain.row] = "completed"]
    /\ drain' = Idle
    /\ UNCHANGED <<runs, ttlTodo, faults, moved>>

Resume ==
    /\ drain.pc = "resume"
    /\ runs' = [runs EXCEPT ![drain.run].status = "running"]
    /\ Goto("load")
    /\ UNCHANGED <<outbox, ttlTodo, faults, moved>>

InsertRun ==
    /\ drain.pc = "insert"
    /\ runs' = Append(runs, NewRun(drain.row))
    /\ drain' = [drain EXCEPT !.pc = "load", !.run = Len(runs) + 1]
    /\ UNCHANGED <<outbox, ttlTodo, faults, moved>>

-----------------------------------------------------------------------------
(* The drain: the action loop                                              *)

\* The resume map: run_actions are read once, before the loop.
Load ==
    /\ drain.pc = "load"
    /\ drain' = [drain EXCEPT !.pc = "draft",
                    !.draft = runs[drain.run].draft,
                    !.send = runs[drain.run].send,
                    !.body = runs[drain.run].body]
    /\ UNCHANGED <<outbox, runs, ttlTodo, faults, moved>>

\* What the loop does with an action, from the status the map holds for it:
\* carry a completed one forward, throw on a failed or paused one, run any other.
Dispatch(seen, next) ==
    CASE seen = "completed" -> next
      [] seen \in {"failed", "awaiting_approval"} -> "throw"
      [] OTHER -> "start"

\* Insert or flip the draft's run_action to 'running'.
StartDraft ==
    /\ drain.pc = "draft"
    /\ Dispatch(drain.draft, "send") = "start"
    /\ runs' = [runs EXCEPT ![drain.run].draft = "running"]
    /\ Goto("drafting")
    /\ UNCHANGED <<outbox, ttlTodo, faults, moved>>

SkipDraft ==
    /\ drain.pc = "draft"
    /\ Dispatch(drain.draft, "send") # "start"
    /\ Goto(Dispatch(drain.draft, "send"))
    /\ UNCHANGED <<outbox, runs, ttlTodo, faults, moved>>

\* gateOpen: draft_message asks for approval, a rule that is not 'auto' opens.
Gated(r) == Mode[AgentOf[r]] # "auto"

\* Faulty variant: the gate closes the outbox row.
PauseClosesRow ==
    /\ drain.pc = "drafting"
    /\ Gated(drain.row)
    /\ runs' = [runs EXCEPT ![drain.run] = [@ EXCEPT
                    !.draft = "awaiting_approval", !.body = "proposed",
                    !.status = "awaiting_approval", !.approval = "pending"]]
    /\ outbox' = [outbox EXCEPT ![drain.row] = "completed"]
    /\ drain' = Idle
    /\ UNCHANGED <<ttlTodo, faults, moved>>

\* An open gate inserts the request and pauses run_action, run and outbox row
\* in one transaction.
PauseForApproval ==
    /\ drain.pc = "drafting"
    /\ Gated(drain.row)
    /\ runs' = [runs EXCEPT ![drain.run] = [@ EXCEPT
                    !.draft = "awaiting_approval", !.body = "proposed",
                    !.status = "awaiting_approval", !.approval = "pending"]]
    /\ outbox' = [outbox EXCEPT ![drain.row] = "awaiting_approval"]
    /\ drain' = Idle
    /\ UNCHANGED <<ttlTodo, faults, moved>>

CompleteDraft ==
    /\ drain.pc = "drafting"
    /\ ~Gated(drain.row)
    /\ runs' = [runs EXCEPT ![drain.run] = [@ EXCEPT !.draft = "completed",
                    !.body = "proposed"]]
    /\ drain' = [drain EXCEPT !.pc = "send", !.body = "proposed"]
    /\ UNCHANGED <<outbox, ttlTodo, faults, moved>>

\* A pass that dies after the send leaves its row 'processing' or 'failed', so
\* with one drain the ELSE branch is the loop's caution, never its path.
StartSend ==
    /\ drain.pc = "send"
    /\ IF Dispatch(drain.send, "finish") = "start"
       THEN runs' = [runs EXCEPT ![drain.run].send = "running"] /\ Goto("sending")
       ELSE Goto(Dispatch(drain.send, "finish")) /\ UNCHANGED runs
    /\ UNCHANGED <<outbox, ttlTodo, faults, moved>>

\* send_message enqueues the draft of previousActionOutputs.  Its dedup key
\* is the run_action, so a message already enqueued is kept.
EnqueueMessage ==
    /\ drain.pc = "sending"
    /\ drain.body # "none"
    /\ runs' = [runs EXCEPT ![drain.run].sent = IF @ = "none" THEN drain.body ELSE @]
    /\ Goto("sent")
    /\ UNCHANGED <<outbox, ttlTodo, faults, moved>>

CompleteSend ==
    /\ drain.pc = "sent"
    /\ runs' = [runs EXCEPT ![drain.run].send = "completed"]
    /\ Goto("finish")
    /\ UNCHANGED <<outbox, ttlTodo, faults, moved>>

FinishRun ==
    /\ drain.pc = "finish"
    /\ runs' = [runs EXCEPT ![drain.run].status = "completed"]
    /\ Goto("close")
    /\ UNCHANGED <<outbox, ttlTodo, faults, moved>>

CloseOutbox ==
    /\ drain.pc = "close"
    /\ outbox' = [outbox EXCEPT ![drain.row] = "completed"]
    /\ drain' = Idle
    /\ UNCHANGED <<runs, ttlTodo, faults, moved>>

-----------------------------------------------------------------------------
(* The drain: errors and crashes                                           *)

\* Steps inside the try block, where a statement or the executor may throw.
Trying == {"probe", "guard", "skip", "resume", "insert", "load", "draft",
           "drafting", "send", "sending", "sent", "finish", "close"}

\* notifyRunCreated has told the catch block which run it is.
RunNotified(pc) == pc \notin {"probe", "guard", "skip", "resume", "insert"}

StepThrows ==
    /\ drain.pc \in Trying
    /\ faults < MaxFaults
    /\ faults' = faults + 1
    /\ drain' = [drain EXCEPT !.pc = "throw",
                    !.run = IF RunNotified(drain.pc) THEN @ ELSE 0]
    /\ UNCHANGED <<outbox, runs, ttlTodo, moved>>

\* The catch block: outbox row first, then the run.
FailOutbox ==
    /\ drain.pc = "throw"
    /\ outbox' = [outbox EXCEPT ![drain.row] = "failed"]
    /\ IF drain.run = 0 THEN drain' = Idle ELSE Goto("failrun")
    /\ UNCHANGED <<runs, ttlTodo, faults, moved>>

FailRun ==
    /\ drain.pc = "failrun"
    /\ runs' = [runs EXCEPT ![drain.run].status = "failed"]
    /\ drain' = Idle
    /\ UNCHANGED <<outbox, ttlTodo, faults, moved>>

\* The worker process dies, with the drain and the TTL scan, or an UPDATE of
\* the drain's catch block throws out of the pass.  Nothing ever re-queues an
\* agent_run_outbox row left 'processing'.
Crash ==
    /\ drain # Idle
    /\ faults < MaxFaults
    /\ faults' = faults + 1
    /\ drain' = Idle
    /\ ttlTodo' \in {ttlTodo, {}}
    /\ UNCHANGED <<outbox, runs, moved>>

-----------------------------------------------------------------------------
(* Recruiter mutations: FOR UPDATE on the request, one transaction each    *)

\* All rows of the agent that are paused, not only the resolved run's.
MovePaused(k, to) ==
    LET paused == {r \in Rows : /\ AgentOf[r] = AgentOf[runs[k].row]
                                /\ outbox[r] = "awaiting_approval"}
    IN  /\ outbox' = [r \in Rows |-> IF r \in paused THEN to ELSE outbox[r]]
        /\ moved' = moved \union (paused \ {runs[k].row})

\* Faulty variant: the outbox row is not put back.
ApproveStaysPaused(k) ==
    /\ runs[k].approval = "pending"
    /\ runs' = [runs EXCEPT ![k] = [@ EXCEPT
                    !.approval = "approved", !.draft = "completed",
                    !.status = "running", !.signed = runs[k].body]]
    /\ UNCHANGED <<outbox, drain, ttlTodo, faults, moved>>

Approve(k) ==
    /\ runs[k].approval = "pending"
    /\ runs' = [runs EXCEPT ![k] = [@ EXCEPT
                    !.approval = "approved", !.draft = "completed",
                    !.status = "running", !.signed = runs[k].body]]
    /\ MovePaused(k, "pending")
    /\ UNCHANGED <<drain, ttlTodo, faults>>

\* Faulty variant: the edit is recorded on the request only.
ApproveEditLost(k) ==
    /\ runs[k].approval = "pending"
    /\ runs' = [runs EXCEPT ![k] = [@ EXCEPT
                    !.approval = "approved", !.draft = "completed",
                    !.status = "running", !.signed = "edited"]]
    /\ MovePaused(k, "pending")
    /\ UNCHANGED <<drain, ttlTodo, faults>>

\* The edited payload replaces the recorded output of the draft.
ApproveWithEdit(k) ==
    /\ runs[k].approval = "pending"
    /\ runs' = [runs EXCEPT ![k] = [@ EXCEPT
                    !.approval = "approved", !.draft = "completed",
                    !.status = "running", !.body = "edited", !.signed = "edited"]]
    /\ MovePaused(k, "pending")
    /\ UNCHANGED <<drain, ttlTodo, faults>>

\* Faulty variant: the row goes back to the queue.
RejectRequeues(k) ==
    /\ runs[k].approval = "pending"
    /\ runs' = [runs EXCEPT ![k] = [@ EXCEPT
                    !.approval = "rejected", !.draft = "failed", !.status = "rejected"]]
    /\ MovePaused(k, "pending")
    /\ UNCHANGED <<drain, ttlTodo, faults>>

Reject(k) ==
    /\ runs[k].approval = "pending"
    /\ runs' = [runs EXCEPT ![k] = [@ EXCEPT
                    !.approval = "rejected", !.draft = "failed", !.status = "rejected"]]
    /\ MovePaused(k, "failed")
    /\ UNCHANGED <<drain, ttlTodo, faults>>

\* ttl_at := now + 24h; the request stays pending.
Snooze(k) ==
    /\ runs[k].approval = "pending"
    /\ runs' = [runs EXCEPT ![k].ttl = "set"]
    /\ UNCHANGED <<outbox, drain, ttlTodo, faults, moved>>

-----------------------------------------------------------------------------
(* TTL scan                                                                *)

TtlExpires(k) ==
    /\ runs[k].ttl = "set"
    /\ runs' = [runs EXCEPT ![k].ttl = "expired"]
    /\ UNCHANGED <<outbox, drain, ttlTodo, faults, moved>>

Expired == {k \in RunIds : runs[k].approval = "pending" /\ runs[k].ttl = "expired"}

\* SELECT ... without a row lock; the rows are handled later, one by one.
TtlRead ==
    /\ ttlTodo = {}
    /\ Expired # {}
    /\ ttlTodo' = Expired
    /\ UNCHANGED <<outbox, runs, drain, faults, moved>>

\* human_optional: the writes of approveApproval, keyed by id only.
AutoApprove(k) ==
    /\ k \in ttlTodo
    /\ Mode[AgentOf[runs[k].row]] = "human_optional"
    /\ runs' = [runs EXCEPT ![k] = [@ EXCEPT
                    !.approval = "auto_approved", !.draft = "completed",
                    !.status = "running", !.signed = runs[k].body]]
    /\ MovePaused(k, "pending")
    /\ ttlTodo' = ttlTodo \ {k}
    /\ UNCHANGED <<drain, faults>>

\* Any other mode: the TTL was a snooze.
ClearSnooze(k) ==
    /\ k \in ttlTodo
    /\ Mode[AgentOf[runs[k].row]] # "human_optional"
    /\ runs' = [runs EXCEPT ![k].ttl = "none"]
    /\ ttlTodo' = ttlTodo \ {k}
    /\ UNCHANGED <<outbox, drain, faults, moved>>

\* The writes for one request fail: logged, and read again by the next scan.
TtlRowFails(k) ==
    /\ k \in ttlTodo
    /\ faults < MaxFaults
    /\ faults' = faults + 1
    /\ ttlTodo' = ttlTodo \ {k}
    /\ UNCHANGED <<outbox, runs, drain, moved>>

-----------------------------------------------------------------------------
DrainStep ==
    \/ \E r \in Rows : Claim(r)
    \/ Probe \/ Guard \/ SkipDuplicate \/ Resume \/ InsertRun \/ Load
    \/ StartDraft \/ SkipDraft \/ PauseForApproval \/ CompleteDraft
    \/ StartSend \/ EnqueueMessage \/ CompleteSend
    \/ FinishRun \/ CloseOutbox \/ FailOutbox \/ FailRun

TtlStep ==
    \/ TtlRead
    \/ \E k \in RunIds : AutoApprove(k) \/ ClearSnooze(k)

Recruiter ==
    \E k \in RunIds : Approve(k) \/ ApproveWithEdit(k) \/ Reject(k) \/ Snooze(k)

Next ==
    \/ \E r \in Rows : StaleScan(r)
    \/ DrainStep
    \/ TtlStep
    \/ Recruiter
    \/ \E k \in RunIds : TtlExpires(k) \/ TtlRowFails(k)
    \/ StepThrows
    \/ Crash

Spec == Init /\ [][Next]_vars

\* The drain and the scan tick; recruiters owe nobody a decision, and no
\* error or crash has to happen.
FairSpec == Spec /\ WF_vars(DrainStep) /\ WF_vars(TtlStep)

-----------------------------------------------------------------------------
(* Properties                                                              *)

RunRecord ==
    [row : Rows, status : RunStatus, draft : ActionStatus, send : ActionStatus,
     body : Bodies, approval : ApprovalStatus,
     ttl : {"none", "set", "expired"}, sent : Bodies,
     signed : Bodies]

DrainRecord ==
    [pc : Trying \union {"throw", "failrun"}, row : Rows, run : 0 .. Len(runs),
     draft : ActionStatus, send : ActionStatus, body : Bodies]

TypeOK ==
    /\ outbox \in [Rows -> OutboxStatus]
    /\ runs \in Seq(RunRecord)
    /\ drain \in {Idle} \union DrainRecord
    /\ ttlTodo \in SUBSET RunIds
    /\ faults \in 0 .. MaxFaults
    /\ moved \in SUBSET Rows

\* What is sent is the draft as it was let through: a resume never sends a
\* body older than the recruiter's edit.
SentAsApproved ==
    \A k \in RunIds :
        runs[k].sent # "none" /\ Gated(runs[k].row) => runs[k].sent = runs[k].signed

\* At most one run per outbox row is in progress.
OneRunInProgress == \A r \in Rows : Cardinality(InProgress(r)) <= 1

\* A rejected follow-up is over: the drain opens no new run for its row, unless a decision
\* on another run of the agent took the row out of its pause (router.ts, rejectApproval;
\* the UPDATE of the outbox goes by agent).
RejectionIsTerminal ==
    \A j, k \in RunIds :
        j < k /\ runs[j].row = runs[k].row /\ runs[j].row \notin moved
            => runs[j].approval # "rejected"

\* A pending request belongs to a paused run whose outbox row waits for it, whatever
\* happens to the other runs, unless another run's decision took the row out of its pause.
PendingIsPaused ==
    \A k \in RunIds :
        runs[k].approval = "pending" /\ runs[k].row \notin moved
            => /\ runs[k].status = "awaiting_approval"
               /\ outbox[runs[k].row] = "awaiting_approval"

\* Until a fault, an approved run that goes on is queued or in the drain's hands: no
\* interleaving of passes and decisions strands it, but another run's decision on its row.
ApprovedIsQueued ==
    faults = 0 =>
        \A k \in RunIds :
            ( /\ runs[k].approval = "approved" /\ runs[k].row \notin moved
              /\ runs[k].status \notin {"completed", "failed"} )
                => \/ outbox[runs[k].row] = "pending"
                   \/ drain # Idle /\ drain.row = runs[k].row

\* An approved follow-up is carried to its end, unless another run's decision took its row
\* out of its pause, to be closed as a duplicate or failed.
ApprovedRunsFinish ==
    \A r \in Rows :
        (\E k \in RunIds : runs[k].row = r /\ runs[k].approval = "approved")
            ~> \/ r \in moved
               \/ \A k \in RunIds : runs[k].row = r => runs[k].status \in {"completed", "failed"}
=============================================================================
