----------------------------- MODULE Requisition -----------------------------
(***************************************************************************)
(* The life of one requisition: draft, approval, posting, hold.            *)
(*                                                                         *)
(* A hiring manager writes or generates the job description of a draft and *)
(* submits it; the submission scans it for coded language and raises an    *)
(* approval request; an HR head approves it, sends it back or rejects it;  *)
(* an approved requisition is posted, put on hold and resumed              *)
(* (apps/api/src/trpc/router.ts, the requisition procedures).              *)
(*                                                                         *)
(* A mutation is one READ COMMITTED transaction.  Its checks are reads that *)
(* take no lock, and its writes are held from the first of them to the     *)
(* commit, so a mutation is a Begin, which reads, and a Commit, which      *)
(* writes all there is to write.  What a Begin has read may be stale at    *)
(* the Commit.  A mutation whose UPDATE repeats its check is one action.   *)
(* A refused mutation changes nothing and is left out.                     *)
(***************************************************************************)
EXTENDS Integers

CONSTANTS
    Users,          \* sessions of hiring managers, recruiters and HR heads
    MaxRevisions,   \* bound: versions of the job description
    MaxRequests,    \* bound: approval requests
    MaxHolds        \* bound: times put on hold

ASSUME RequisitionAssumption ==
    /\ MaxRevisions \in Nat
    /\ MaxRequests \in Nat
    /\ MaxHolds \in Nat

VARIABLES
    status,     \* requisitions.status
    posted,     \* requisitions.posted_at is set
    jd,         \* the jd_versions row: its revision, and whether it uses coded terms
    requests,   \* requests[i]: the approval_requests rows, in the order raised
    raised,     \* number of requests
    tx,         \* the open transaction of each user, with what it has read
    holds,      \* holds so far
    verdicts,   \* history: the approval_decisions rows, as <<request, verdict>>
    scanned,    \* history: the job description of the last submission
    overlapped  \* history: two transactions have been open at once

rowVars == <<status, posted, jd, requests, raised>>
historyVars == <<verdicts, scanned, overlapped>>
vars == <<rowVars, tx, holds, historyVars>>

Revisions == 0 .. MaxRevisions
RequestIds == 1 .. MaxRequests

NoTx == [pc |-> "idle", request |-> 0, verdict |-> "none", was |-> "none"]
NoRequest == [status |-> "none", rev |-> 0]

\* insertRequisitionDraftChain: a placeholder for a job description.
Init ==
    /\ status = "draft"
    /\ posted = FALSE
    /\ jd = [rev |-> 0, coded |-> FALSE]
    /\ requests = [i \in RequestIds |-> NoRequest]
    /\ raised = 0
    /\ tx = [u \in Users |-> NoTx]
    /\ holds = 0
    /\ verdicts = {}
    /\ scanned = [rev |-> 0, coded |-> FALSE]
    /\ overlapped = FALSE

Pending(i) == requests[i].status = "pending"
NoPending == \A i \in RequestIds : ~Pending(i)

Idle(u) == tx[u].pc = "idle"
At(u, pc) == tx[u].pc = pc
End(u) == tx' = [tx EXCEPT ![u] = NoTx]

\* A transaction is opened, maybe beside another.
Open(u, pc, request, verdict, was) ==
    /\ Idle(u)
    /\ tx' = [tx EXCEPT ![u] =
            [pc |-> pc, request |-> request, verdict |-> verdict, was |-> was]]
    /\ overlapped' = (overlapped \/ \E v \in Users \ {u} : ~Idle(v))
    /\ UNCHANGED <<rowVars, holds, verdicts, scanned>>

-----------------------------------------------------------------------------
(* The draft: updateRequisitionDraft and generateJdDraft                   *)

BeginEdit(u) == status = "draft" /\ Open(u, "edit", 0, "none", "none")
BeginGenerate(u) == status = "draft" /\ Open(u, "generate", 0, "none", "none")

WriteJd(u, coded) ==
    /\ jd.rev < MaxRevisions
    /\ jd' = [rev |-> jd.rev + 1, coded |-> coded]
    /\ End(u)
    /\ UNCHANGED <<status, posted, requests, raised, holds, historyVars>>

\* What the manager writes, and what the model writes after a long call.
CommitEdit(u) == At(u, "edit") /\ \E coded \in BOOLEAN : WriteJd(u, coded)
CommitGenerate(u) == At(u, "generate") /\ \E coded \in BOOLEAN : WriteJd(u, coded)

-----------------------------------------------------------------------------
(* submitRequisitionForApproval                                            *)

\* Faulty variant: the bias gate is left out.
PassesGateAlways == TRUE

\* scanBlocksSubmit, under the 'block' enforcement.
PassesGate == ~jd.coded

\* A draft with a job description that passes the gate.
BeginSubmit(u) ==
    /\ status = "draft"
    /\ jd.rev > 0
    /\ PassesGate
    /\ Idle(u)
    /\ tx' = [tx EXCEPT ![u] = [NoTx EXCEPT !.pc = "submit"]]
    /\ scanned' = jd
    /\ overlapped' = (overlapped \/ \E v \in Users \ {u} : ~Idle(v))
    /\ UNCHANGED <<rowVars, holds, verdicts>>

\* The request, unless one is pending, and then the status, whatever it is by now.
CommitSubmit(u) ==
    /\ At(u, "submit")
    /\ IF NoPending
       THEN /\ raised < MaxRequests
            /\ raised' = raised + 1
            /\ requests' = [requests EXCEPT ![raised + 1] =
                    [status |-> "pending", rev |-> jd.rev]]
            /\ status' = "pending_approval"
       ELSE UNCHANGED <<raised, requests, status>>
    /\ End(u)
    /\ UNCHANGED <<posted, jd, holds, historyVars>>

-----------------------------------------------------------------------------
(* decideRequisitionApproval                                               *)

Verdicts == {"approve", "send_back", "reject"}

\* Faulty variant: sending back leaves the request open for the next submission.
RequestAfterKept(verdict) ==
    CASE verdict = "approve" -> "approved"
      [] verdict = "send_back" -> "pending"
      [] verdict = "reject" -> "rejected"

\* DECISION_TO_REQUEST_STATUS.
RequestAfter(verdict) ==
    CASE verdict = "approve" -> "approved"
      [] verdict = "send_back" -> "cancelled"
      [] verdict = "reject" -> "rejected"

\* Faulty variant: a requisition that is sent back is treated as approved.
StatusAfterSwapped(verdict) ==
    CASE verdict = "approve" -> "approved"
      [] verdict = "send_back" -> "approved"
      [] verdict = "reject" -> "cancelled"

\* DECISION_TO_REQUISITION_STATUS.
StatusAfter(verdict) ==
    CASE verdict = "approve" -> "approved"
      [] verdict = "send_back" -> "draft"
      [] verdict = "reject" -> "cancelled"

\* The request is pending and the requisition awaits approval.
BeginDecide(u, i, verdict) ==
    /\ Pending(i)
    /\ status = "pending_approval"
    /\ Open(u, "decide", i, verdict, "none")

\* The decision row, the request by its id and the requisition by its id.
CommitDecide(u) ==
    /\ At(u, "decide")
    /\ LET i == tx[u].request
           verdict == tx[u].verdict
       IN /\ verdicts' = verdicts \union {<<i, verdict>>}
          /\ requests' = [requests EXCEPT ![i].status = RequestAfter(verdict)]
          /\ status' = StatusAfter(verdict)
    /\ End(u)
    /\ UNCHANGED <<posted, jd, raised, holds, scanned, overlapped>>

-----------------------------------------------------------------------------
(* postRequisition and setRequisitionHold                                  *)

\* UPDATE ... WHERE status = 'approved'.
Post(u) ==
    /\ Idle(u)
    /\ status = "approved"
    /\ status' = "posted"
    /\ posted' = TRUE
    /\ UNCHANGED <<jd, requests, raised, tx, holds, historyVars>>

\* UPDATE ... WHERE status IN ('approved','posted').
Hold(u) ==
    /\ Idle(u)
    /\ status \in {"approved", "posted"}
    /\ holds < MaxHolds
    /\ holds' = holds + 1
    /\ status' = "on_hold"
    /\ UNCHANGED <<posted, jd, requests, raised, tx, historyVars>>

\* Faulty variant: resuming forgets that the requisition was live.
ResumesToApproved == "approved"

\* Back to where it was held: posted_at tells whether it was live.
ResumesTo == IF posted THEN "posted" ELSE "approved"

BeginResume(u) == status = "on_hold" /\ Open(u, "resume", 0, "none", ResumesTo)

\* UPDATE ... WHERE status = 'on_hold', to what was read.
CommitResume(u) ==
    /\ At(u, "resume")
    /\ status' = IF status = "on_hold" THEN tx[u].was ELSE status
    /\ End(u)
    /\ UNCHANGED <<posted, jd, requests, raised, holds, historyVars>>

\* The transaction fails and is rolled back.
Abort(u) ==
    /\ ~Idle(u)
    /\ End(u)
    /\ UNCHANGED <<rowVars, holds, historyVars>>

-----------------------------------------------------------------------------
Next ==
    \E u \in Users :
        \/ BeginEdit(u) \/ CommitEdit(u) \/ BeginGenerate(u) \/ CommitGenerate(u)
        \/ BeginSubmit(u) \/ CommitSubmit(u) \/ CommitDecide(u)
        \/ \E i \in RequestIds, verdict \in Verdicts : BeginDecide(u, i, verdict)
        \/ Post(u) \/ Hold(u) \/ BeginResume(u) \/ CommitResume(u) \/ Abort(u)

Spec == Init /\ [][Next]_vars

-----------------------------------------------------------------------------
(* Properties                                                              *)

Statuses == {"draft", "pending_approval", "approved", "posted", "on_hold", "cancelled"}

RequestRows == [status : {"none", "pending", "approved", "cancelled", "rejected"},
                rev : Revisions]

Txs ==
    [pc : {"idle", "edit", "generate", "submit"},
     request : {0}, verdict : {"none"}, was : {"none"}]
    \union [pc : {"decide"}, request : RequestIds, verdict : Verdicts, was : {"none"}]
    \union [pc : {"resume"}, request : {0}, verdict : {"none"}, was : {"approved", "posted"}]

TypeOK ==
    /\ status \in Statuses
    /\ posted \in BOOLEAN
    /\ jd \in [rev : Revisions, coded : BOOLEAN]
    /\ requests \in [RequestIds -> RequestRows]
    /\ raised \in 0 .. MaxRequests
    /\ tx \in [Users -> Txs]
    /\ holds \in 0 .. MaxHolds
    /\ verdicts \subseteq RequestIds \X Verdicts
    /\ scanned \in [rev : Revisions, coded : BOOLEAN]
    /\ overlapped \in BOOLEAN

Live == status \in {"approved", "posted", "on_hold"}

\* A requisition can only be live after an HR head has approved one of its requests,
\* however the mutations of several users interleave.
LiveWasApproved == Live => \E i \in RequestIds : <<i, "approve">> \in verdicts

\* As long as no two mutations overlap, the approval queue and the requisition agree:
\* it awaits approval exactly when a request is pending, and that is the last one.
QueueMatchesStatus ==
    ~overlapped =>
        \A i \in RequestIds : Pending(i) <=> (status = "pending_approval" /\ i = raised)

\* As long as no two mutations overlap, what is approved and posted is the very job
\* description that passed the bias gate and that the last request was raised for.
LiveAsScanned ==
    (~overlapped /\ Live) =>
        /\ jd = scanned /\ ~jd.coded
        /\ requests[raised] = [status |-> "approved", rev |-> jd.rev]

\* As long as no two mutations overlap, a requisition that was posted is live or held
\* and never falls back to approval (resume reads posted_at).
PostedStaysPosted ==
    (~overlapped /\ posted) => status \in {"posted", "on_hold"}

=============================================================================
