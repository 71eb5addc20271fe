-------------------------- MODULE AgentRuns_proofs --------------------------
(***************************************************************************)
(* What holds of runs and approvals, for any number of agents, rows,       *)
(* recruiters and faults.                                                  *)
(*                                                                         *)
(* A step is the drain's (DrainStep) or one of those around it (Around).   *)
(* ApprovalInv ties what the drain has loaded of a gated run to what was   *)
(* decided about it.  How many runs a row has: with no rule that           *)
(* auto-approves, one in progress (LoneInv); and one at all until a        *)
(* decision on another run of the agent moves the row (OwnInv).            *)
(***************************************************************************)
EXTENDS AgentRuns, FiniteSetTheorems, TLAPS

-----------------------------------------------------------------------------
(* Typing                                                                  *)

\* What the drain has in hand is the run of the row it has claimed.
Holding == {"guard", "skip", "resume", "load", "draft", "drafting", "send", "sending",
            "sent", "finish", "close", "failrun"}
Held ==
    /\ drain.pc \in Holding => drain.run # 0
    /\ drain # Idle /\ drain.run # 0 => runs[drain.run].row = drain.row

TypeInv == TypeOK /\ Held

\* A step that opens no run and moves no row keeps types if the drain's locals
\* and the run it writes are typed.
RunWritten(k) ==
    /\ Len(runs') = Len(runs)
    /\ runs'[k] \in RunRecord /\ runs'[k].row = runs[k].row
    /\ \A j \in RunIds \ {k} : runs'[j] = runs[j]

\* The drain with a run in hand, at another place of its pass.
Moved(pc) ==
    /\ drain' \in DrainRecord /\ drain'.pc = pc
    /\ drain'.row = drain.row /\ drain'.run = drain.run

\* The fields of the drain's locals and of a run.
LEMMA Fields ==
  ASSUME TypeOK
  PROVE  /\ \A k \in RunIds : runs[k] \in RunRecord
         /\ drain.pc # "idle" => drain \in DrainRecord /\ drain # Idle
         /\ drain = Idle => drain.pc = "idle"
BY DEF TypeOK, RunIds, DrainRecord, Trying, Idle

\* A move within a pass keeps the locals.
LEMMA GotoMoves ==
  ASSUME TypeOK, drain.pc # "idle", NEW pc \in Trying \union {"throw", "failrun"}, Goto(pc)
  PROVE  Moved(pc)
BY Fields DEF Goto, Moved, DrainRecord

\* A run at the gate.
LEMMA PausedTyped ==
  ASSUME NEW x \in RunRecord
  PROVE  [x EXCEPT !.draft = "awaiting_approval", !.body = "proposed",
                   !.status = "awaiting_approval", !.approval = "pending"] \in RunRecord
<1>1. [x EXCEPT !.draft = "awaiting_approval", !.body = "proposed"] \in RunRecord
  BY DEF RunRecord, ActionStatus, Bodies
<1>2. \A y \in RunRecord :
          [y EXCEPT !.status = "awaiting_approval", !.approval = "pending"] \in RunRecord
  BY DEF RunRecord, RunStatus, ApprovalStatus
<1>. DEFINE y == [x EXCEPT !.draft = "awaiting_approval", !.body = "proposed"]
<1>3. [x EXCEPT !.draft = "awaiting_approval", !.body = "proposed",
                !.status = "awaiting_approval", !.approval = "pending"]
        = [y EXCEPT !.status = "awaiting_approval", !.approval = "pending"]
  BY DEF RunRecord
<1>. QED  BY <1>1, <1>2, <1>3

\* A move with the runs as they are.
LEMMA MoveTyped ==
  ASSUME TypeInv, drain.pc # "idle", NEW pc \in Trying \union {"throw", "failrun"}, Moved(pc),
         pc \in Holding => drain.run # 0,
         outbox' \in [Rows -> OutboxStatus], UNCHANGED <<ttlTodo, faults, moved>>,
         UNCHANGED runs \/ (\E k \in RunIds : RunWritten(k) /\ runs' \in Seq(RunRecord))
  PROVE  TypeInv'
<1> USE DEF TypeInv, TypeOK, Held, Moved
<1>1. Len(runs') = Len(runs) /\ runs' \in Seq(RunRecord)
  BY DEF RunWritten
<1>2. drain' \in DrainRecord'
  BY <1>1 DEF DrainRecord
<1>3. drain' # Idle
  BY DEF DrainRecord, Trying, Idle
<1>4. drain'.run # 0 => runs'[drain'.run].row = drain'.row
  <2>1. drain.run # 0 => drain.run \in RunIds /\ runs[drain.run].row = drain.row
    BY Fields DEF DrainRecord, RunIds
  <2>. QED  BY <2>1 DEF RunWritten
<1>. QED  BY <1>1, <1>2, <1>3, <1>4 DEF RunIds

\* The end of a pass, or a step outside the drain.
LEMMA RestTyped ==
  ASSUME TypeInv, drain' = Idle \/ UNCHANGED drain,
         outbox' \in [Rows -> OutboxStatus], ttlTodo' \subseteq RunIds,
         faults' \in 0 .. MaxFaults, moved' \in SUBSET Rows,
         UNCHANGED runs \/ (\E k \in RunIds : RunWritten(k) /\ runs' \in Seq(RunRecord))
  PROVE  TypeInv'
<1> USE DEF TypeInv, TypeOK, Held
<1>1. Len(runs') = Len(runs) /\ runs' \in Seq(RunRecord)
  BY DEF RunWritten
<1>2. CASE drain' = Idle
  BY <1>1, <1>2 DEF RunIds, Idle, Holding
<1>3. CASE UNCHANGED drain
  <2>1. drain' \in {Idle} \union DrainRecord'
    BY <1>1, <1>3 DEF DrainRecord
  <2>2. drain # Idle /\ drain.run # 0 => drain.run \in RunIds
    BY Fields DEF DrainRecord, RunIds
  <2>3. drain' # Idle /\ drain'.run # 0 => runs'[drain'.run].row = drain'.row
    BY <1>3, <2>2 DEF RunWritten
  <2>. QED  BY <1>1, <1>3, <2>1, <2>3 DEF RunIds
<1>. QED  BY <1>2, <1>3

\* An update of a run is written to that run.
LEMMA Writes ==
  ASSUME TypeOK, NEW k \in RunIds, NEW run \in RunRecord, run.row = runs[k].row,
         runs' = [runs EXCEPT ![k] = run]
  PROVE  RunWritten(k) /\ runs' \in Seq(RunRecord)
BY Fields DEF TypeOK, RunIds, RunWritten

\* The run the drain has in hand is there.
LEMMA InHand ==
  ASSUME TypeInv, drain.pc \in Holding \/ (drain.pc # "idle" /\ drain.run # 0)
  PROVE  /\ drain # Idle /\ drain \in DrainRecord
         /\ drain.run \in RunIds /\ runs[drain.run] \in RunRecord
         /\ runs[drain.run].row = drain.row
<1>1. drain.pc # "idle" /\ drain.run # 0
  BY DEF TypeInv, Held, Holding
<1>. QED  BY <1>1, Fields DEF TypeInv, Held, DrainRecord, RunIds

\* A step of the action loop writes at most the run in hand.
LEMMA WorkTyped ==
  ASSUME TypeInv, drain.pc \in Holding, NEW pc \in Trying \union {"throw", "failrun"},
         Moved(pc), UNCHANGED <<outbox, ttlTodo, faults, moved>>,
         UNCHANGED runs \/ (RunWritten(drain.run) /\ runs' \in Seq(RunRecord))
  PROVE  TypeInv'
<1>1. drain.run \in RunIds /\ drain.run # 0 /\ drain.pc # "idle"
  BY InHand DEF Holding, RunIds, TypeInv, Held
<1>2. outbox' \in [Rows -> OutboxStatus] /\ UNCHANGED <<ttlTodo, faults, moved>>
  BY DEF TypeInv, TypeOK
<1>. QED  BY <1>1, <1>2, MoveTyped

\* The drain keeps the types of what it writes, and the run it writes is its row's.
LEMMA DrainTyped ==
  ASSUME TypeInv, DrainStep
  PROVE  TypeInv'
<1> USE AgentAssumption DEF TypeInv
<1>0. /\ outbox \in [Rows -> OutboxStatus] /\ ttlTodo \subseteq RunIds
      /\ faults \in 0 .. MaxFaults /\ moved \in SUBSET Rows /\ TypeOK /\ Held
  BY DEF TypeOK
<1>1. ASSUME NEW r \in Rows, Claim(r)
      PROVE  TypeInv'
  <2>1. drain' \in DrainRecord /\ drain'.run = 0 /\ drain'.pc = "probe"
    BY <1>1 DEF Claim, DrainRecord, Trying, ActionStatus, Bodies
  <2>2. drain' \in DrainRecord'
    BY <1>1, <2>1 DEF Claim, DrainRecord
  <2>. QED  BY <1>0, <1>1, <2>1, <2>2 DEF Claim, TypeOK, Held, Holding, OutboxStatus, RunIds
<1>2. CASE Probe
  <2>1. drain.pc # "idle"
    BY <1>2 DEF Probe
  <2>2. CASE InProgress(drain.row) = {}
    <3>1. Moved("insert")
      BY <1>2, <2>1, <2>2, GotoMoves DEF Probe, Trying
    <3>. QED  BY <1>0, <1>2, <2>1, <3>1, MoveTyped DEF Probe, Trying, Holding
  <2>3. CASE InProgress(drain.row) # {}
    <3>1. PICK k \in InProgress(drain.row) :
                drain' = [drain EXCEPT !.run = k,
                    !.pc = IF runs[k].status = "awaiting_approval" THEN "guard" ELSE "resume"]
      BY <1>2, <2>3 DEF Probe
    <3>2. k \in RunIds /\ k # 0 /\ runs[k].row = drain.row
      BY DEF InProgress, RunIds
    <3>3. UNCHANGED <<runs, outbox, ttlTodo, faults>>
      BY <1>2 DEF Probe
    <3>4. drain' \in DrainRecord /\ drain'.run = k /\ drain'.row = drain.row
      <4>1. drain \in DrainRecord /\ k \in 0 .. Len(runs)
        BY <2>1, <3>2, Fields DEF RunIds
      <4>2. \E pc \in {"guard", "resume"} : drain' = [drain EXCEPT !.run = k, !.pc = pc]
        BY <3>1
      <4>. QED  BY <4>1, <4>2 DEF DrainRecord, Trying
    <3>5. drain' \in DrainRecord'
      BY <3>3, <3>4 DEF DrainRecord
    <3>6. UNCHANGED <<moved, RunIds>>
      BY <1>2, <3>3 DEF Probe, RunIds
    <3>7. TypeOK'
      BY <1>0, <3>3, <3>5, <3>6 DEF TypeOK
    <3>8. Held'
      BY <3>2, <3>3, <3>4 DEF Held
    <3>. QED  BY <3>7, <3>8
  <2>. QED  BY <2>2, <2>3
<1>3. CASE Guard
  <2>1. drain.pc \in Holding /\ drain.pc # "idle"
    BY <1>3 DEF Guard, Holding
  <2>2. \E pc \in {"skip", "resume"} : Moved(pc)
    BY <1>3, <2>1, GotoMoves DEF Guard, Trying
  <2>. QED  BY <1>3, <2>1, <2>2, WorkTyped DEF Guard, Trying
<1>4. CASE SkipDuplicate \/ CloseOutbox
  <2>1. outbox' \in [Rows -> OutboxStatus]
    BY <1>0, <1>4 DEF SkipDuplicate, CloseOutbox, OutboxStatus
  <2>. QED  BY <1>0, <1>4, <2>1, RestTyped DEF SkipDuplicate, CloseOutbox
<1>5. CASE Resume
  <2>1. drain.pc \in Holding /\ drain.pc # "idle"
    BY <1>5 DEF Resume, Holding
  <2>2. Moved("load")
    BY <1>5, <2>1, GotoMoves DEF Resume, Trying
  <2>3. [runs[drain.run] EXCEPT !.status = "running"] \in RunRecord
    BY <2>1, InHand DEF RunRecord, RunStatus
  <2>4. RunWritten(drain.run) /\ runs' \in Seq(RunRecord)
    BY <1>5, <2>1, <2>3, InHand, Writes DEF Resume, RunRecord
  <2>. QED  BY <1>5, <2>1, <2>2, <2>4, WorkTyped DEF Resume, Trying
<1>6. CASE InsertRun
  <2>1. drain.pc # "idle" /\ drain \in DrainRecord
    BY <1>6, Fields DEF InsertRun
  <2>2. NewRun(drain.row) \in RunRecord
    BY <2>1 DEF NewRun, RunRecord, RunStatus, ActionStatus, Bodies, ApprovalStatus, DrainRecord
  <2>3. runs' \in Seq(RunRecord) /\ Len(runs') = Len(runs) + 1
    BY <1>0, <1>6, <2>2 DEF InsertRun, TypeOK
  <2>4. runs'[Len(runs) + 1].row = drain.row
    BY <1>0, <1>6, <2>2 DEF InsertRun, TypeOK, NewRun
  <2>5. drain' \in DrainRecord' /\ drain'.run = Len(runs) + 1 /\ drain'.row = drain.row
    <3>1. Len(runs) + 1 \in 0 .. Len(runs')
      BY <1>0, <2>3 DEF TypeOK
    <3>. QED  BY <1>6, <2>1, <3>1 DEF InsertRun, DrainRecord, Trying
  <2>. QED  BY <1>0, <1>6, <2>3, <2>4, <2>5 DEF InsertRun, TypeOK, Held, RunIds
<1>7. CASE Load
  <2>1. drain.pc \in Holding /\ drain.pc # "idle"
    BY <1>7 DEF Load, Holding
  <2>2. Moved("draft")
    BY <1>7, <2>1, InHand DEF Load, Moved, DrainRecord, RunRecord, Trying
  <2>. QED  BY <1>7, <2>1, <2>2, WorkTyped DEF Load, Trying
<1>8. CASE StartDraft
  <2>1. drain.pc \in Holding /\ drain.pc # "idle"
    BY <1>8 DEF StartDraft, Holding
  <2>2. Moved("drafting")
    BY <1>8, <2>1, GotoMoves DEF StartDraft, Trying
  <2>3. [runs[drain.run] EXCEPT !.draft = "running"] \in RunRecord
    BY <2>1, InHand DEF RunRecord, ActionStatus
  <2>4. RunWritten(drain.run) /\ runs' \in Seq(RunRecord)
    BY <1>8, <2>1, <2>3, InHand, Writes DEF StartDraft, RunRecord
  <2>. QED  BY <1>8, <2>1, <2>2, <2>4, WorkTyped DEF StartDraft, Trying
<1>9. CASE SkipDraft
  <2>1. drain.pc \in Holding /\ drain.pc # "idle"
    BY <1>9 DEF SkipDraft, Holding
  <2>2. Dispatch(drain.draft, "send") \in {"send", "throw"}
    BY <1>9 DEF SkipDraft, Dispatch
  <2>3. \E pc \in {"send", "throw"} : Moved(pc)
    BY <1>9, <2>1, <2>2, GotoMoves DEF SkipDraft, Trying
  <2>. QED  BY <1>9, <2>1, <2>3, WorkTyped DEF SkipDraft, Trying
<1>10. CASE PauseForApproval
  <2>1. drain.pc \in Holding
    BY <1>10 DEF PauseForApproval, Holding
  <2>2. [runs[drain.run] EXCEPT !.draft = "awaiting_approval", !.body = "proposed",
             !.status = "awaiting_approval", !.approval = "pending"] \in RunRecord
    BY <2>1, InHand, PausedTyped
  <2>3. RunWritten(drain.run) /\ runs' \in Seq(RunRecord)
    BY <1>10, <2>1, <2>2, InHand, Writes DEF PauseForApproval, RunRecord
  <2>4. outbox' \in [Rows -> OutboxStatus]
    BY <1>0, <1>10 DEF PauseForApproval, OutboxStatus
  <2>. QED  BY <1>0, <1>10, <2>1, <2>3, <2>4, InHand, RestTyped DEF PauseForApproval
<1>11. CASE CompleteDraft
  <2>1. drain.pc \in Holding /\ drain.pc # "idle"
    BY <1>11 DEF CompleteDraft, Holding
  <2>2. Moved("send")
    BY <1>11, <2>1, InHand DEF CompleteDraft, Moved, DrainRecord, Trying, Bodies
  <2>3. [runs[drain.run] EXCEPT !.draft = "completed", !.body = "proposed"] \in RunRecord
    BY <2>1, InHand DEF RunRecord, ActionStatus, Bodies
  <2>4. RunWritten(drain.run) /\ runs' \in Seq(RunRecord)
    BY <1>11, <2>1, <2>3, InHand, Writes DEF CompleteDraft, RunRecord
  <2>. QED  BY <1>11, <2>1, <2>2, <2>4, WorkTyped DEF CompleteDraft, Trying
<1>12. CASE StartSend
  <2>1. drain.pc \in Holding /\ drain.pc # "idle"
    BY <1>12 DEF StartSend, Holding
  <2>2. CASE Dispatch(drain.send, "finish") = "start"
    <3>1. Moved("sending")
      BY <1>12, <2>1, <2>2, GotoMoves DEF StartSend, Trying
    <3>2. [runs[drain.run] EXCEPT !.send = "running"] \in RunRecord
      BY <2>1, InHand DEF RunRecord, ActionStatus
    <3>3. RunWritten(drain.run) /\ runs' \in Seq(RunRecord)
      BY <1>12, <2>1, <2>2, <3>2, InHand, Writes DEF StartSend, RunRecord
    <3>. QED  BY <1>12, <2>1, <3>1, <3>3, WorkTyped DEF StartSend, Trying
  <2>3. CASE Dispatch(drain.send, "finish") # "start"
    <3>1. Dispatch(drain.send, "finish") \in {"finish", "throw"}
      BY <2>3 DEF Dispatch
    <3>2. \E pc \in {"finish", "throw"} : Moved(pc)
      BY <1>12, <2>1, <2>3, <3>1, GotoMoves DEF StartSend, Trying
    <3>. QED  BY <1>12, <2>1, <2>3, <3>2, WorkTyped DEF StartSend, Trying
  <2>. QED  BY <2>2, <2>3
<1>13. CASE EnqueueMessage
  <2>1. drain.pc \in Holding /\ drain.pc # "idle"
    BY <1>13 DEF EnqueueMessage, Holding
  <2>2. Moved("sent")
    BY <1>13, <2>1, GotoMoves DEF EnqueueMessage, Trying
  <2>3. \E b \in Bodies : runs' = [runs EXCEPT ![drain.run] = [runs[drain.run] EXCEPT !.sent = b]]
    BY <1>13, <2>1, InHand DEF EnqueueMessage, RunRecord, DrainRecord
  <2>4. RunWritten(drain.run) /\ runs' \in Seq(RunRecord)
    BY <2>1, <2>3, InHand, Writes DEF RunRecord
  <2>. QED  BY <1>13, <2>1, <2>2, <2>4, WorkTyped DEF EnqueueMessage, Trying
<1>14. CASE CompleteSend
  <2>1. drain.pc \in Holding /\ drain.pc # "idle"
    BY <1>14 DEF CompleteSend, Holding
  <2>2. Moved("finish")
    BY <1>14, <2>1, GotoMoves DEF CompleteSend, Trying
  <2>3. [runs[drain.run] EXCEPT !.send = "completed"] \in RunRecord
    BY <2>1, InHand DEF RunRecord, ActionStatus
  <2>4. RunWritten(drain.run) /\ runs' \in Seq(RunRecord)
    BY <1>14, <2>1, <2>3, InHand, Writes DEF CompleteSend, RunRecord
  <2>. QED  BY <1>14, <2>1, <2>2, <2>4, WorkTyped DEF CompleteSend, Trying
<1>15. CASE FinishRun
  <2>1. drain.pc \in Holding /\ drain.pc # "idle"
    BY <1>15 DEF FinishRun, Holding
  <2>2. Moved("close")
    BY <1>15, <2>1, GotoMoves DEF FinishRun, Trying
  <2>3. [runs[drain.run] EXCEPT !.status = "completed"] \in RunRecord
    BY <2>1, InHand DEF RunRecord, RunStatus
  <2>4. RunWritten(drain.run) /\ runs' \in Seq(RunRecord)
    BY <1>15, <2>1, <2>3, InHand, Writes DEF FinishRun, RunRecord
  <2>. QED  BY <1>15, <2>1, <2>2, <2>4, WorkTyped DEF FinishRun, Trying
<1>16. CASE FailOutbox
  <2>1. outbox' \in [Rows -> OutboxStatus]
    BY <1>0, <1>16 DEF FailOutbox, OutboxStatus
  <2>2. CASE drain.run = 0
    BY <1>0, <1>16, <2>1, <2>2, RestTyped DEF FailOutbox
  <2>3. CASE drain.run # 0
    <3>1. drain.pc # "idle" /\ Moved("failrun")
      BY <1>16, <2>3, GotoMoves DEF FailOutbox
    <3>. QED  BY <1>0, <1>16, <2>1, <2>3, <3>1, MoveTyped DEF FailOutbox
  <2>. QED  BY <2>2, <2>3
<1>17. CASE FailRun
  <2>1. drain.pc \in Holding
    BY <1>17 DEF FailRun, Holding
  <2>2. [runs[drain.run] EXCEPT !.status = "failed"] \in RunRecord
    BY <2>1, InHand DEF RunRecord, RunStatus
  <2>3. RunWritten(drain.run) /\ runs' \in Seq(RunRecord)
    BY <1>17, <2>1, <2>2, InHand, Writes DEF FailRun, RunRecord
  <2>. QED  BY <1>0, <1>17, <2>1, <2>3, InHand, RestTyped DEF FailRun
<1>. QED  BY <1>1, <1>2, <1>3, <1>4, <1>5, <1>6, <1>7, <1>8, <1>9, <1>10, <1>11, <1>12,
             <1>13, <1>14, <1>15, <1>16, <1>17 DEF DrainStep

\* The scans, the recruiters and the faults.
Around ==
    \/ \E r \in Rows : StaleScan(r)
    \/ TtlRead
    \/ \E k \in RunIds :
          \/ Approve(k) \/ ApproveWithEdit(k) \/ Reject(k) \/ Snooze(k)
          \/ TtlExpires(k) \/ AutoApprove(k) \/ ClearSnooze(k) \/ TtlRowFails(k)
    \/ StepThrows \/ Crash

\* They keep the types of what they write.
LEMMA AroundTyped ==
  ASSUME TypeInv, Around
  PROVE  TypeInv'
<1> USE AgentAssumption DEF TypeInv
<1>0. /\ outbox \in [Rows -> OutboxStatus] /\ ttlTodo \subseteq RunIds
      /\ faults \in 0 .. MaxFaults /\ MaxFaults \in Nat /\ moved \in SUBSET Rows
      /\ TypeOK /\ Held
  BY DEF TypeOK
<1>1. ASSUME NEW r \in Rows, StaleScan(r)
      PROVE  TypeInv'
  <2>1. outbox' \in [Rows -> OutboxStatus]
    BY <1>0, <1>1 DEF StaleScan, OutboxStatus
  <2>. QED  BY <1>0, <1>1, <2>1, RestTyped DEF StaleScan
<1>2. CASE TtlRead
  BY <1>0, <1>2, RestTyped DEF TtlRead, Expired
<1>3. ASSUME NEW k \in RunIds, NEW to \in OutboxStatus, MovePaused(k, to)
      PROVE  outbox' \in [Rows -> OutboxStatus] /\ moved' \in SUBSET Rows
  BY <1>0, <1>3 DEF MovePaused
<1>4. ASSUME NEW k \in RunIds, Approve(k) \/ ApproveWithEdit(k)
      PROVE  TypeInv'
  <2>1. outbox' \in [Rows -> OutboxStatus] /\ moved' \in SUBSET Rows
    BY <1>3, <1>4 DEF Approve, ApproveWithEdit, OutboxStatus
  <2>2. PICK b \in Bodies :
            runs' = [runs EXCEPT ![k] = [runs[k] EXCEPT !.approval = "approved",
                !.draft = "completed", !.status = "running", !.body = b, !.signed = b]]
    <3>1. CASE Approve(k)
      <4>1. [runs[k] EXCEPT !.body = runs[k].body] = runs[k] /\ runs[k].body \in Bodies
        BY <1>0, Fields DEF RunRecord
      <4>. QED  BY <1>0, <3>1, <4>1, Fields DEF Approve, RunRecord
    <3>2. CASE ApproveWithEdit(k)
      BY <3>2 DEF ApproveWithEdit, Bodies
    <3>. QED  BY <1>4, <3>1, <3>2
  <2>4. [runs[k] EXCEPT !.approval = "approved", !.draft = "completed",
            !.status = "running", !.body = b, !.signed = b] \in RunRecord
    BY <1>0, Fields DEF RunRecord, RunStatus, ActionStatus, ApprovalStatus
  <2>3. RunWritten(k) /\ runs' \in Seq(RunRecord)
    BY <1>0, <2>2, <2>4, Fields, Writes DEF RunRecord
  <2>. QED  BY <1>0, <1>4, <2>1, <2>3, RestTyped DEF Approve, ApproveWithEdit
<1>5. ASSUME NEW k \in RunIds, Reject(k)
      PROVE  TypeInv'
  <2>1. outbox' \in [Rows -> OutboxStatus] /\ moved' \in SUBSET Rows
    BY <1>3, <1>5 DEF Reject, OutboxStatus
  <2>2. [runs[k] EXCEPT !.approval = "rejected", !.draft = "failed", !.status = "rejected"]
            \in RunRecord
    BY <1>0, Fields DEF RunRecord, RunStatus, ActionStatus, ApprovalStatus
  <2>3. RunWritten(k) /\ runs' \in Seq(RunRecord)
    BY <1>0, <1>5, <2>2, Fields, Writes DEF Reject, RunRecord
  <2>. QED  BY <1>0, <1>5, <2>1, <2>3, RestTyped DEF Reject
<1>6. ASSUME NEW k \in RunIds, Snooze(k) \/ TtlExpires(k) \/ ClearSnooze(k)
      PROVE  TypeInv'
  <2>1. \E t \in {"none", "set", "expired"} :
            runs' = [runs EXCEPT ![k] = [runs[k] EXCEPT !.ttl = t]]
    BY <1>6 DEF Snooze, TtlExpires, ClearSnooze
  <2>2. RunWritten(k) /\ runs' \in Seq(RunRecord)
    BY <1>0, <2>1, Fields, Writes DEF RunRecord
  <2>. QED  BY <1>0, <1>6, <2>2, RestTyped DEF Snooze, TtlExpires, ClearSnooze
<1>7. ASSUME NEW k \in RunIds, AutoApprove(k)
      PROVE  TypeInv'
  <2>1. outbox' \in [Rows -> OutboxStatus] /\ moved' \in SUBSET Rows
    BY <1>3, <1>7 DEF AutoApprove, OutboxStatus
  <2>2. [runs[k] EXCEPT !.approval = "auto_approved", !.draft = "completed",
            !.status = "running", !.signed = runs[k].body] \in RunRecord
    BY <1>0, Fields DEF RunRecord, RunStatus, ActionStatus, ApprovalStatus
  <2>3. RunWritten(k) /\ runs' \in Seq(RunRecord)
    BY <1>0, <1>7, <2>2, Fields, Writes DEF AutoApprove, RunRecord
  <2>. QED  BY <1>0, <1>7, <2>1, <2>3, RestTyped DEF AutoApprove
<1>8. ASSUME NEW k \in RunIds, TtlRowFails(k)
      PROVE  TypeInv'
  BY <1>0, <1>8, RestTyped DEF TtlRowFails
<1>9. CASE StepThrows
  <2>1. drain \in DrainRecord /\ drain # Idle
    BY <1>9, Fields DEF StepThrows, Trying
  <2>2. /\ drain' \in DrainRecord /\ drain'.pc = "throw" /\ drain'.row = drain.row
        /\ drain'.run \in {0, drain.run}
    <3>1. PICK n \in {0, drain.run} : drain' = [drain EXCEPT !.pc = "throw", !.run = n]
      BY <1>9 DEF StepThrows
    <3>2. n \in 0 .. Len(runs)
      BY <1>0, <2>1 DEF TypeOK, DrainRecord
    <3>3. drain' \in DrainRecord
      BY <2>1, <3>1, <3>2 DEF DrainRecord
    <3>4. drain'.pc = "throw" /\ drain'.row = drain.row /\ drain'.run = n
      BY <2>1, <3>1 DEF DrainRecord
    <3>. QED  BY <3>3, <3>4
  <2>3. UNCHANGED <<outbox, runs, ttlTodo, moved>> /\ faults' \in 0 .. MaxFaults
    BY <1>0, <1>9 DEF StepThrows
  <2>4. drain' \in DrainRecord'
    BY <2>2, <2>3 DEF DrainRecord
  <2>. QED  BY <1>0, <2>1, <2>2, <2>3, <2>4 DEF TypeOK, Held, Holding, RunIds
<1>10. CASE Crash
  BY <1>0, <1>10, RestTyped DEF Crash
<1>. QED  BY <1>1, <1>2, <1>4, <1>5, <1>6, <1>7, <1>8, <1>9, <1>10 DEF Around

\* The steps of the system are those of the drain and of what is around it.
LEMMA Steps ==
  ASSUME Next
  PROVE  DrainStep \/ Around
BY DEF Next, Around, TtlStep, Recruiter

\* Typing and the run in hand are invariant.
LEMMA TypeInvariant == Spec => []TypeInv
<1>1. Init => TypeInv
  BY AgentAssumption DEF Init, TypeInv, TypeOK, Held, Holding, Idle, OutboxStatus, RunIds
<1>2. TypeInv /\ [Next]_vars => TypeInv'
  <2> SUFFICES ASSUME TypeInv, [Next]_vars
               PROVE  TypeInv'
    OBVIOUS
  <2>1. CASE UNCHANGED vars
    BY <2>1 DEF vars, TypeInv, TypeOK, Held, DrainRecord, RunIds
  <2>. QED  BY <2>1, Steps, DrainTyped, AroundTyped
<1>. QED  BY <1>1, <1>2, PTL DEF Spec

\* The tables and the locals of the drain keep their types (agent-run-drain.ts).
THEOREM TypeCorrect == Spec => []TypeOK
BY TypeInvariant, PTL DEF TypeInv

\* What recruiters and the TTL scan may do to a run.
Decided(x, y) ==
    \/ y = [x EXCEPT !.approval = "approved", !.draft = "completed", !.status = "running",
                     !.signed = x.body]
    \/ y = [x EXCEPT !.approval = "approved", !.draft = "completed", !.status = "running",
                     !.body = "edited", !.signed = "edited"]
    \/ y = [x EXCEPT !.approval = "rejected", !.draft = "failed", !.status = "rejected"]
AutoApproved(x, y) ==
    y = [x EXCEPT !.approval = "auto_approved", !.draft = "completed", !.status = "running",
                  !.signed = x.body]

\* Outside the drain a run changes by a decision on a pending request, by the
\* TTL scan for a request it has read, or in its ttl.
LEMMA AroundRuns ==
  ASSUME TypeInv, Around
  PROVE  /\ Len(runs') = Len(runs)
         /\ \A k \in RunIds :
              \/ runs'[k] = runs[k]
              \/ \E t \in {"none", "set", "expired"} : runs'[k] = [runs[k] EXCEPT !.ttl = t]
              \/ runs[k].approval = "pending" /\ Decided(runs[k], runs'[k])
              \/ /\ k \in ttlTodo /\ Mode[AgentOf[runs[k].row]] = "human_optional"
                 /\ AutoApproved(runs[k], runs'[k])
<1>0. runs \in Seq(RunRecord)
  BY DEF TypeInv, TypeOK
<1>1. CASE UNCHANGED runs
  BY <1>1
<1>2. ASSUME NEW k \in RunIds, Approve(k) \/ ApproveWithEdit(k) \/ Reject(k)
      PROVE  /\ runs[k].approval = "pending"
             /\ \E y : runs' = [runs EXCEPT ![k] = y] /\ Decided(runs[k], y)
  BY <1>0, <1>2 DEF Approve, ApproveWithEdit, Reject, Decided, RunIds
<1>3. ASSUME NEW k \in RunIds, Snooze(k) \/ TtlExpires(k) \/ ClearSnooze(k)
      PROVE  \E t \in {"none", "set", "expired"} :
                runs' = [runs EXCEPT ![k] = [runs[k] EXCEPT !.ttl = t]]
  BY <1>3 DEF Snooze, TtlExpires, ClearSnooze
<1>4. ASSUME NEW k \in RunIds, AutoApprove(k)
      PROVE  /\ k \in ttlTodo /\ Mode[AgentOf[runs[k].row]] = "human_optional"
             /\ \E y : runs' = [runs EXCEPT ![k] = y] /\ AutoApproved(runs[k], y)
  BY <1>0, <1>4 DEF AutoApprove, AutoApproved, RunIds
<1>5. CASE \/ \E r \in Rows : StaleScan(r)
           \/ TtlRead \/ StepThrows \/ Crash
           \/ \E k \in RunIds : TtlRowFails(k)
  BY <1>1, <1>5 DEF StaleScan, TtlRead, StepThrows, Crash, TtlRowFails
<1>. QED  BY <1>0, <1>2, <1>3, <1>4, <1>5 DEF Around, RunIds

\* None of them moves the drain, except to the catch block or out of its pass.
LEMMA AroundDrain ==
  ASSUME TypeInv, Around
  PROVE  UNCHANGED drain \/ drain' = Idle \/ drain'.pc = "throw"
<1>1. CASE StepThrows
  <2>1. drain \in DrainRecord
    BY <1>1, Fields DEF StepThrows, Trying, TypeInv
  <2>. QED  BY <1>1, <2>1 DEF StepThrows, DrainRecord
<1>2. CASE ~StepThrows
  BY <1>2 DEF Around, StaleScan, TtlRead, Approve, ApproveWithEdit, Reject, Snooze, TtlExpires,
       AutoApprove, ClearSnooze, TtlRowFails, Crash
<1>. QED  BY <1>1, <1>2

-----------------------------------------------------------------------------
(* What is sent                                                            *)

\* A gated run: before the gate nothing is decided, and what has been let
\* through is the draft, which does not change any more.
Reviewed(x) ==
    /\ x.approval = "none" <=> x.draft \in {"none", "running"}
    /\ x.draft = "completed" => x.approval \in {"approved", "auto_approved"}
    /\ x.approval \in {"approved", "auto_approved"} =>
            x.draft = "completed" /\ x.signed = x.body
    /\ x.sent # "none" => x.draft = "completed" /\ x.sent = x.body

\* What the drain has loaded of a gated run is still so.
Carried ==
    Gated(drain.row) =>
        /\ drain.pc = "drafting" \/ (drain.pc = "draft" /\ drain.draft \in {"none", "running"})
                => runs[drain.run].approval = "none"
        /\ drain.pc \in {"send", "sending"} \/ (drain.pc = "draft" /\ drain.draft = "completed")
                => runs[drain.run].draft = "completed" /\ drain.body = runs[drain.run].body

ApprovalInv ==
    /\ \A k \in RunIds : Gated(runs[k].row) => Reviewed(runs[k])
    /\ \A k \in ttlTodo : runs[k].approval # "none"
    /\ drain # Idle => Carried

\* A decision leaves what was decided before, and what the drain has loaded.
LEMMA AroundApproval ==
  ASSUME TypeInv, ApprovalInv, Around
  PROVE  ApprovalInv'
<1>0. /\ TypeOK /\ ttlTodo \subseteq RunIds
      /\ \A k \in RunIds : runs[k] \in RunRecord
      /\ RunIds' = RunIds
  BY Fields, AroundRuns DEF TypeInv, TypeOK, RunIds
<1>1. ASSUME NEW k \in RunIds
      PROVE  /\ runs'[k].row = runs[k].row
             /\ Gated(runs[k].row) => Reviewed(runs'[k])
             /\ runs[k].approval # "none" => runs'[k].approval # "none"
             /\ Gated(runs[k].row) /\ runs[k].approval = "none" => runs'[k].approval = "none"
             /\ Gated(runs[k].row) /\ runs[k].draft = "completed" =>
                    runs'[k].draft = "completed" /\ runs'[k].body = runs[k].body
  <2>1. runs[k] \in RunRecord
    BY <1>0
  <2>2. CASE runs'[k] = runs[k]
    BY <2>2 DEF ApprovalInv
  <2>3. CASE \E t \in {"none", "set", "expired"} : runs'[k] = [runs[k] EXCEPT !.ttl = t]
    BY <2>1, <2>3 DEF ApprovalInv, Reviewed, RunRecord
  <2>4. CASE runs[k].approval = "pending" /\ Decided(runs[k], runs'[k])
    <3>1. Gated(runs[k].row) => Reviewed(runs[k])
      BY DEF ApprovalInv
    <3>2. \/ /\ runs'[k].approval = "approved" /\ runs'[k].draft = "completed"
             /\ runs'[k].signed = runs'[k].body
          \/ runs'[k].approval = "rejected" /\ runs'[k].draft = "failed"
      BY <2>1, <2>4 DEF RunRecord, Decided
    <3>3. runs'[k].row = runs[k].row /\ runs'[k].sent = runs[k].sent
      BY <2>1, <2>4 DEF RunRecord, Decided
    <3>. QED  BY <2>4, <3>1, <3>2, <3>3 DEF Reviewed
  <2>5. CASE k \in ttlTodo /\ AutoApproved(runs[k], runs'[k])
    BY <2>1, <2>5 DEF ApprovalInv, Reviewed, RunRecord, AutoApproved
  <2>. QED  BY <2>2, <2>3, <2>4, <2>5, AroundRuns
<1>2. \A k \in ttlTodo' : runs'[k].approval # "none"
  <2>1. \A k \in ttlTodo' : k \in RunIds /\ runs[k].approval # "none"
    BY <1>0 DEF Around, StaleScan, TtlRead, Approve, ApproveWithEdit, Reject, Snooze,
                TtlExpires, AutoApprove, ClearSnooze, TtlRowFails, StepThrows, Crash,
                Expired, ApprovalInv
  <2>. QED  BY <1>1, <2>1
<1>3. drain' # Idle => Carried'
  <2>1. CASE drain' = Idle \/ drain'.pc = "throw"
    BY <2>1 DEF Carried
  <2>2. CASE UNCHANGED drain /\ drain # Idle
    <3>1. CASE drain.pc \in {"draft", "drafting", "send", "sending"}
      <4>1. drain.run \in RunIds /\ runs[drain.run].row = drain.row
        BY <3>1, InHand DEF Holding
      <4>. QED  BY <1>1, <2>2, <4>1 DEF Carried, ApprovalInv
    <3>2. CASE drain.pc \notin {"draft", "drafting", "send", "sending"}
      BY <2>2, <3>2 DEF Carried
    <3>. QED  BY <3>1, <3>2
  <2>. QED  BY <2>1, <2>2, AroundDrain
<1>. QED  BY <1>0, <1>1, <1>2, <1>3 DEF ApprovalInv, Gated

\* A write of one run keeps the invariant if it keeps what holds of that run.
LEMMA WriteApproval ==
  ASSUME TypeInv, ApprovalInv, NEW k \in RunIds, RunWritten(k), UNCHANGED ttlTodo,
         Gated(runs[k].row) => Reviewed(runs'[k]),
         runs[k].approval # "none" => runs'[k].approval # "none",
         drain' # Idle => Carried'
  PROVE  ApprovalInv'
<1>1. RunIds' = RunIds /\ ttlTodo \subseteq RunIds
  BY DEF RunWritten, RunIds, TypeInv, TypeOK
<1>. QED  BY <1>1 DEF ApprovalInv, RunWritten, Gated

\* The drain decides nothing: it asks, and sends what it has loaded of a run
\* that was let through.
LEMMA DrainApproval ==
  ASSUME TypeInv, ApprovalInv, DrainStep
  PROVE  ApprovalInv'
<1>0. /\ TypeOK /\ ttlTodo \subseteq RunIds
      /\ \A k \in RunIds : runs[k] \in RunRecord
      /\ UNCHANGED ttlTodo
  BY Fields DEF TypeInv, TypeOK, DrainStep, Claim, Probe, Guard, SkipDuplicate, Resume, InsertRun,
         Load, StartDraft, SkipDraft, PauseForApproval, CompleteDraft, StartSend,
         EnqueueMessage, CompleteSend, FinishRun, CloseOutbox, FailOutbox, FailRun
<1>1. ASSUME UNCHANGED runs, drain' # Idle => Carried'
      PROVE  ApprovalInv'
  BY <1>0, <1>1 DEF ApprovalInv, Gated, RunIds
<1>2. ASSUME drain' = Idle \/ drain'.pc \notin {"draft", "drafting", "send", "sending"}
      PROVE  drain' # Idle => Carried'
  BY <1>2 DEF Carried
<1>3. ASSUME NEW f \in RunRecord, drain.pc \in Holding, RunWritten(drain.run),
             f = runs'[drain.run],
             f.approval = runs[drain.run].approval, f.draft = runs[drain.run].draft,
             f.body = runs[drain.run].body, f.signed = runs[drain.run].signed,
             f.sent = runs[drain.run].sent, drain' # Idle => Carried'
      PROVE  ApprovalInv'
  BY <1>0, <1>3, InHand, WriteApproval DEF ApprovalInv, Reviewed
<1>4. CASE \/ \E r \in Rows : Claim(r)
           \/ Probe \/ Guard \/ SkipDuplicate \/ CloseOutbox \/ FailOutbox
  <2>1. UNCHANGED runs
    BY <1>4 DEF Claim, Probe, Guard, SkipDuplicate, CloseOutbox, FailOutbox
  <2>2. drain' = Idle \/ drain'.pc \in {"probe", "insert", "guard", "resume", "skip", "failrun"}
    <3>1. CASE (\E r \in Rows : Claim(r)) \/ SkipDuplicate \/ CloseOutbox
      BY <3>1 DEF Claim, SkipDuplicate, CloseOutbox
    <3>2. CASE Probe \/ Guard \/ FailOutbox
      <4>1. drain \in DrainRecord
        BY <1>0, <3>2, Fields DEF Probe, Guard, FailOutbox
      <4>. QED  BY <3>2, <4>1 DEF Probe, Guard, FailOutbox, Goto, DrainRecord
    <3>. QED  BY <1>4, <3>1, <3>2
  <2>. QED  BY <1>1, <1>2, <2>1, <2>2
<1>5. CASE Resume \/ FinishRun \/ FailRun
  <2>1. drain.pc \in Holding /\ drain.pc # "idle"
    BY <1>5 DEF Resume, FinishRun, FailRun, Holding
  <2>2. drain' = Idle \/ drain'.pc \in {"load", "close"}
    BY <1>5, <2>1, InHand DEF Resume, FinishRun, FailRun, Goto, DrainRecord
  <2>3. PICK st \in RunStatus : runs' = [runs EXCEPT ![drain.run] =
                                           [runs[drain.run] EXCEPT !.status = st]]
    BY <1>5 DEF Resume, FinishRun, FailRun, RunStatus
  <2>4. [runs[drain.run] EXCEPT !.status = st] \in RunRecord
    BY <2>1, InHand DEF RunRecord
  <2>5. RunWritten(drain.run)
    BY <1>0, <2>1, <2>3, <2>4, InHand, Writes DEF RunRecord
  <2>6. runs'[drain.run] = [runs[drain.run] EXCEPT !.status = st]
    BY <1>0, <2>1, <2>3, InHand DEF TypeOK, RunIds
  <2>. QED  BY <1>2, <1>3, <2>1, <2>2, <2>4, <2>5, <2>6, InHand DEF RunRecord
<1>6. CASE InsertRun
  <2>1. drain.pc # "idle" /\ drain \in DrainRecord
    BY <1>0, <1>6, Fields DEF InsertRun
  <2>2. /\ \A k \in RunIds : runs'[k] = runs[k]
        /\ RunIds' = RunIds \union {Len(runs) + 1}
        /\ runs'[Len(runs) + 1] = NewRun(drain.row)
    BY <1>0, <1>6 DEF InsertRun, TypeOK, RunIds
  <2>3. drain'.pc = "load"
    BY <1>6, <2>1 DEF InsertRun, DrainRecord
  <2>4. Reviewed(NewRun(drain.row))
    BY DEF Reviewed, NewRun
  <2>. QED  BY <1>0, <1>2, <2>2, <2>3, <2>4 DEF ApprovalInv, Gated
<1>7. CASE Load
  <2>1. drain.pc \in Holding /\ drain.pc # "idle" /\ UNCHANGED runs
    BY <1>7 DEF Load, Holding
  <2>2. /\ drain'.pc = "draft" /\ drain'.draft = runs[drain.run].draft
        /\ drain'.body = runs[drain.run].body
        /\ drain'.run = drain.run /\ drain'.row = runs[drain.run].row
    BY <1>7, <2>1, InHand DEF Load, DrainRecord
  <2>3. Carried'
    BY <2>1, <2>2, InHand DEF Carried, ApprovalInv, Reviewed, Gated
  <2>. QED  BY <1>1, <2>1, <2>3
<1>8. CASE StartDraft
  <2>1. drain.pc \in Holding /\ drain.pc # "idle"
    BY <1>8 DEF StartDraft, Holding
  <2>2. /\ drain' = [drain EXCEPT !.pc = "drafting"]
        /\ runs' = [runs EXCEPT ![drain.run] = [runs[drain.run] EXCEPT !.draft = "running"]]
        /\ drain.draft \notin {"completed", "failed", "awaiting_approval"}
    BY <1>8 DEF StartDraft, Goto, Dispatch
  <2>3. drain.draft \in {"none", "running"}
    BY <2>1, <2>2, InHand DEF DrainRecord, ActionStatus
  <2>4. Gated(drain.row) => runs[drain.run].approval = "none"
    BY <1>8, <2>1, <2>3, InHand DEF StartDraft, ApprovalInv, Carried
  <2>5. [runs[drain.run] EXCEPT !.draft = "running"] \in RunRecord
    BY <2>1, InHand DEF RunRecord, ActionStatus
  <2>6. RunWritten(drain.run)
    BY <1>0, <2>1, <2>2, <2>5, InHand, Writes DEF RunRecord
  <2>7. runs'[drain.run] = [runs[drain.run] EXCEPT !.draft = "running"]
    BY <1>0, <2>1, <2>2, InHand DEF TypeOK, RunIds
  <2>8. runs'[drain.run].approval = runs[drain.run].approval
    BY <2>1, <2>7, InHand DEF RunRecord
  <2>9. Carried'
    BY <2>1, <2>2, <2>4, <2>8, InHand DEF Carried, DrainRecord, Gated
  <2>10. Gated(drain.row) => Reviewed(runs'[drain.run])
    BY <2>1, <2>4, <2>7, InHand DEF ApprovalInv, Reviewed, RunRecord
  <2>. QED  BY <1>0, <2>1, <2>6, <2>8, <2>9, <2>10, InHand, WriteApproval
<1>9. CASE SkipDraft
  <2>1. drain.pc \in Holding /\ drain.pc # "idle" /\ UNCHANGED runs
    BY <1>9 DEF SkipDraft, Holding
  <2>2. CASE drain.draft = "completed"
    <3>1. drain' = [drain EXCEPT !.pc = "send"] /\ drain.pc = "draft"
      BY <1>9, <2>2 DEF SkipDraft, Goto, Dispatch
    <3>2. Carried'
      BY <2>1, <2>2, <3>1, InHand DEF Carried, ApprovalInv, DrainRecord, Gated
    <3>. QED  BY <1>1, <2>1, <3>2
  <2>3. CASE drain.draft # "completed"
    <3>1. drain' = [drain EXCEPT !.pc = "throw"]
      BY <1>9, <2>3 DEF SkipDraft, Goto, Dispatch
    <3>2. drain'.pc = "throw"
      BY <2>1, <3>1, InHand DEF DrainRecord
    <3>. QED  BY <1>1, <1>2, <2>1, <3>2
  <2>. QED  BY <2>2, <2>3
<1>10. CASE PauseForApproval
  <2>1. drain.pc \in Holding /\ drain.pc = "drafting" /\ drain' = Idle /\ Gated(drain.row)
    BY <1>10 DEF PauseForApproval, Holding
  <2>2. runs[drain.run].approval = "none"
    BY <2>1, InHand DEF ApprovalInv, Carried
  <2>3. [runs[drain.run] EXCEPT !.draft = "awaiting_approval", !.body = "proposed",
             !.status = "awaiting_approval", !.approval = "pending"] \in RunRecord
    BY <2>1, InHand, PausedTyped
  <2>4. RunWritten(drain.run)
    BY <1>0, <1>10, <2>1, <2>3, InHand, Writes DEF PauseForApproval, RunRecord
  <2>5. /\ runs'[drain.run].draft = "awaiting_approval" /\ runs'[drain.run].approval = "pending"
        /\ runs'[drain.run].sent = runs[drain.run].sent
    BY <1>0, <1>10, <2>1, InHand DEF PauseForApproval, TypeOK, RunIds, RunRecord
  <2>6. Reviewed(runs'[drain.run])
    BY <2>1, <2>2, <2>5, InHand DEF ApprovalInv, Reviewed
  <2>. QED  BY <1>0, <1>2, <2>1, <2>4, <2>5, <2>6, InHand, WriteApproval
<1>11. CASE CompleteDraft
  <2>1. drain.pc \in Holding /\ drain.pc # "idle" /\ ~Gated(drain.row)
    BY <1>11 DEF CompleteDraft, Holding
  <2>2. [runs[drain.run] EXCEPT !.draft = "completed", !.body = "proposed"] \in RunRecord
    BY <2>1, InHand DEF RunRecord, ActionStatus, Bodies
  <2>3. RunWritten(drain.run)
    BY <1>0, <1>11, <2>1, <2>2, InHand, Writes DEF CompleteDraft, RunRecord
  <2>4. runs'[drain.run].approval = runs[drain.run].approval
    BY <1>0, <1>11, <2>1, InHand DEF CompleteDraft, TypeOK, RunIds, RunRecord
  <2>5. drain'.row = drain.row
    BY <1>11, <2>1, InHand DEF CompleteDraft, DrainRecord
  <2>6. Carried'
    BY <2>1, <2>5 DEF Carried, Gated
  <2>. QED  BY <1>0, <2>1, <2>3, <2>4, <2>6, InHand, WriteApproval
<1>12. CASE StartSend \/ CompleteSend
  <2>1. drain.pc \in Holding /\ drain.pc # "idle"
    BY <1>12 DEF StartSend, CompleteSend, Holding
  <2>2. CASE UNCHANGED runs /\ Goto(Dispatch(drain.send, "finish"))
    <3>1. Dispatch(drain.send, "finish") \in {"finish", "throw", "start"}
      BY DEF Dispatch
    <3>2. drain'.pc \in {"finish", "throw", "start"}
      BY <2>1, <2>2, <3>1, InHand DEF Goto, DrainRecord
    <3>. QED  BY <1>1, <1>2, <2>2, <3>2
  <2>3. CASE \E st \in {"running", "completed"} :
                /\ runs' = [runs EXCEPT ![drain.run] = [runs[drain.run] EXCEPT !.send = st]]
                /\ \/ drain' = [drain EXCEPT !.pc = "finish"]
                   \/ drain.pc = "send" /\ drain' = [drain EXCEPT !.pc = "sending"]
    <3>1. PICK st \in {"running", "completed"} :
                runs' = [runs EXCEPT ![drain.run] = [runs[drain.run] EXCEPT !.send = st]]
      BY <2>3
    <3>2. [runs[drain.run] EXCEPT !.send = st] \in RunRecord
      BY <2>1, InHand DEF RunRecord, ActionStatus
    <3>3. RunWritten(drain.run)
      BY <1>0, <2>1, <3>1, <3>2, InHand, Writes DEF RunRecord
    <3>4. runs'[drain.run] = [runs[drain.run] EXCEPT !.send = st]
      BY <1>0, <2>1, <3>1, InHand DEF TypeOK, RunIds
    <3>5. /\ runs'[drain.run].approval = runs[drain.run].approval
          /\ runs'[drain.run].draft = runs[drain.run].draft
          /\ runs'[drain.run].body = runs[drain.run].body
          /\ runs'[drain.run].signed = runs[drain.run].signed
          /\ runs'[drain.run].sent = runs[drain.run].sent
      BY <2>1, <3>4, InHand DEF RunRecord
    <3>6. Carried'
      <4>1. /\ drain'.pc = "finish" \/ (drain.pc = "send" /\ drain'.pc = "sending")
            /\ drain'.row = drain.row /\ drain'.run = drain.run /\ drain'.body = drain.body
        BY <2>1, <2>3, InHand DEF DrainRecord
      <4>. QED  BY <2>1, <3>5, <4>1, InHand DEF Carried, ApprovalInv, Gated
    <3>. QED  BY <1>3, <2>1, <3>2, <3>3, <3>4, <3>5, <3>6
  <2>. QED  BY <1>12, <2>2, <2>3 DEF StartSend, CompleteSend, Goto
<1>13. CASE EnqueueMessage
  <2>1. drain.pc \in Holding /\ drain.pc = "sending"
    BY <1>13 DEF EnqueueMessage, Holding
  <2>2. drain'.pc = "sent"
    BY <1>13, <2>1, InHand DEF EnqueueMessage, Goto, DrainRecord
  <2>3. PICK b \in {runs[drain.run].sent, drain.body} :
            /\ b = drain.body \/ b # "none"
            /\ runs' = [runs EXCEPT ![drain.run] = [runs[drain.run] EXCEPT !.sent = b]]
    BY <1>13, <2>1, InHand DEF EnqueueMessage
  <2>4. [runs[drain.run] EXCEPT !.sent = b] \in RunRecord
    BY <2>1, <2>3, InHand DEF RunRecord, DrainRecord
  <2>5. RunWritten(drain.run)
    BY <1>0, <2>1, <2>3, <2>4, InHand, Writes DEF RunRecord
  <2>6. runs'[drain.run] = [runs[drain.run] EXCEPT !.sent = b]
    BY <1>0, <2>1, <2>3, InHand DEF TypeOK, RunIds
  <2>7. Gated(drain.row) =>
            /\ Reviewed(runs[drain.run])
            /\ runs[drain.run].draft = "completed" /\ drain.body = runs[drain.run].body
    <3>1. drain # Idle /\ drain.run \in RunIds /\ runs[drain.run].row = drain.row
      BY <2>1, InHand
    <3>2. Carried /\ (Gated(drain.row) => Reviewed(runs[drain.run]))
      BY <3>1 DEF ApprovalInv
    <3>. QED  BY <2>1, <3>2 DEF Carried
  <2>8. Gated(drain.row) => Reviewed(runs'[drain.run])
    BY <2>1, <2>3, <2>6, <2>7, InHand DEF Reviewed, RunRecord
  <2>9. runs'[drain.run].approval = runs[drain.run].approval
    BY <2>1, <2>6, InHand DEF RunRecord
  <2>. QED  BY <1>0, <1>2, <2>1, <2>2, <2>5, <2>8, <2>9, InHand, WriteApproval
<1>. QED  BY <1>4, <1>5, <1>6, <1>7, <1>8, <1>9, <1>10, <1>11, <1>12, <1>13 DEF DrainStep

\* What goes to a candidate is the draft as it was let through, for any number of
\* agents, rows and faults (agent-run-drain.ts; approveApproval in router.ts).
THEOREM SentWasApproved == Spec => []SentAsApproved
<1>1. Init => ApprovalInv
  BY DEF Init, ApprovalInv, RunIds
<1>2. TypeInv /\ ApprovalInv /\ [Next]_vars => ApprovalInv'
  <2> SUFFICES ASSUME TypeInv, ApprovalInv, [Next]_vars
               PROVE  ApprovalInv'
    OBVIOUS
  <2>1. CASE UNCHANGED vars
    BY <2>1 DEF vars, ApprovalInv, RunIds, Carried, Gated
  <2>. QED  BY <2>1, Steps, DrainApproval, AroundApproval
<1>3. TypeInv /\ ApprovalInv => SentAsApproved
  BY Fields DEF TypeInv, ApprovalInv, Reviewed, SentAsApproved
<1>. QED  BY <1>1, <1>2, <1>3, TypeInvariant, PTL DEF Spec

-----------------------------------------------------------------------------
(* How many runs a row has                                                 *)

\* A step of the drain on the run in hand: it writes no other run, decides
\* nothing, and settles no other row.
Works ==
    /\ drain # Idle /\ drain.pc \notin {"probe", "guard", "insert"}
    /\ \/ drain' = Idle
       \/ /\ drain' # Idle /\ drain'.row = drain.row /\ drain'.run = drain.run
          /\ drain.pc \notin {"skip", "failrun"}
          /\ drain'.pc \notin {"probe", "guard", "insert", "skip"}
    /\ \/ UNCHANGED runs
       \/ /\ drain.pc \in Holding \ {"guard", "skip"} /\ RunWritten(drain.run)
          /\ runs'[drain.run].approval = runs[drain.run].approval
       \/ PauseForApproval /\ RunWritten(drain.run)
    /\ \/ UNCHANGED outbox /\ (drain' = Idle => drain.pc = "failrun")
                           /\ (drain' # Idle => drain'.pc # "failrun")
       \/ \E to \in {"completed", "failed"} :
             /\ outbox' = [outbox EXCEPT ![drain.row] = to] /\ drain.pc # "failrun"
             /\ drain' # Idle => drain'.pc = "failrun" /\ to = "failed"
             /\ UNCHANGED runs
       \/ PauseForApproval

\* Every step of the drain that neither claims nor looks for a run nor opens one.
LEMMA WorkSteps ==
  ASSUME TypeInv, DrainStep, ~(\E r \in Rows : Claim(r)), ~Probe, ~Guard, ~InsertRun
  PROVE  Works
<1>0. TypeOK
  BY DEF TypeInv
<1>1. ASSUME NEW pc \in Trying \union {"throw", "failrun"}, drain.pc # "idle",
             drain' = [drain EXCEPT !.pc = pc]
      PROVE  /\ drain \in DrainRecord /\ drain # Idle /\ drain' # Idle /\ drain'.pc = pc
             /\ drain'.row = drain.row /\ drain'.run = drain.run
  BY <1>0, <1>1, Fields DEF DrainRecord, Trying, Idle
<1>2. ASSUME NEW run \in RunRecord, drain.pc \in Holding,
             runs' = [runs EXCEPT ![drain.run] = run], run.row = runs[drain.run].row
      PROVE  RunWritten(drain.run) /\ runs'[drain.run] = run
  <2>1. drain.run \in RunIds
    BY <1>2, InHand
  <2>2. RunWritten(drain.run)
    BY <1>0, <1>2, <2>1, Writes
  <2>. QED  BY <1>0, <1>2, <2>1, <2>2 DEF TypeOK, RunIds
<1>3. CASE SkipDuplicate \/ CloseOutbox
  <2>1. drain.pc \in {"skip", "close"} /\ drain # Idle
    BY <1>3 DEF SkipDuplicate, CloseOutbox, Idle
  <2>. QED  BY <1>3, <2>1 DEF SkipDuplicate, CloseOutbox, Works
<1>4. CASE FailOutbox
  <2>1. drain.pc = "throw" /\ drain # Idle
    BY <1>4 DEF FailOutbox, Idle
  <2>2. CASE drain.run = 0
    BY <1>4, <2>1, <2>2 DEF FailOutbox, Works
  <2>3. CASE drain.run # 0
    <3>1. drain' = [drain EXCEPT !.pc = "failrun"]
      BY <1>4, <2>3 DEF FailOutbox, Goto
    <3>. QED  BY <1>1, <1>4, <2>1, <3>1 DEF FailOutbox, Works
  <2>. QED  BY <2>2, <2>3
<1>5. CASE SkipDraft
  <2>1. drain.pc = "draft" /\ drain # Idle /\ UNCHANGED <<runs, outbox>>
    BY <1>5 DEF SkipDraft, Idle
  <2>2. \E pc \in {"send", "throw"} : drain' = [drain EXCEPT !.pc = pc]
    BY <1>5 DEF SkipDraft, Goto, Dispatch
  <2>. QED  BY <1>1, <2>1, <2>2 DEF Works, Trying
<1>6. CASE Load
  <2>1. drain.pc = "load" /\ drain.pc \in Holding /\ UNCHANGED <<runs, outbox>>
    BY <1>6 DEF Load, Holding
  <2>2. drain' # Idle /\ drain'.pc = "draft" /\ drain'.row = drain.row /\ drain'.run = drain.run
    BY <1>6, <2>1, InHand DEF Load, DrainRecord, Idle
  <2>. QED  BY <2>1, <2>2, InHand DEF Works
<1>7. CASE PauseForApproval
  <2>1. drain.pc \in Holding /\ drain.pc = "drafting" /\ drain' = Idle
    BY <1>7 DEF PauseForApproval, Holding
  <2>2. [runs[drain.run] EXCEPT !.draft = "awaiting_approval", !.body = "proposed",
             !.status = "awaiting_approval", !.approval = "pending"] \in RunRecord
    BY <2>1, InHand, PausedTyped
  <2>3. RunWritten(drain.run)
    BY <1>2, <1>7, <2>1, <2>2, InHand DEF PauseForApproval, RunRecord
  <2>. QED  BY <1>7, <2>1, <2>3, InHand DEF Works
<1>8. ASSUME NEW run \in RunRecord, drain.pc \in Holding \ {"guard", "skip"},
             runs' = [runs EXCEPT ![drain.run] = run],
             run.row = runs[drain.run].row, run.approval = runs[drain.run].approval,
             UNCHANGED outbox,
             \/ drain' = Idle /\ drain.pc = "failrun"
             \/ /\ drain.pc # "failrun" /\ drain' # Idle
                /\ drain'.row = drain.row /\ drain'.run = drain.run
                /\ drain'.pc \notin {"probe", "guard", "insert", "skip", "failrun"}
      PROVE  Works
  BY <1>2, <1>8, InHand DEF Works, Holding
<1>9. CASE Resume \/ FinishRun
  <2>1. drain.pc \in {"resume", "finish"} /\ drain.pc \in Holding
    BY <1>9 DEF Resume, FinishRun, Holding
  <2>2. \E pc \in {"load", "close"} : drain' = [drain EXCEPT !.pc = pc]
    BY <1>9 DEF Resume, FinishRun, Goto
  <2>3. PICK st \in {"running", "completed"} : runs' = [runs EXCEPT ![drain.run] =
                                           [runs[drain.run] EXCEPT !.status = st]]
    BY <1>9 DEF Resume, FinishRun
  <2>. DEFINE run == [runs[drain.run] EXCEPT !.status = st]
  <2>4. /\ run \in RunRecord
        /\ run.row = runs[drain.run].row /\ run.approval = runs[drain.run].approval
    BY <2>1, InHand DEF RunRecord, RunStatus
  <2>5. runs' = [runs EXCEPT ![drain.run] = run] /\ UNCHANGED outbox
    BY <1>9, <2>3 DEF Resume, FinishRun
  <2>6. drain.pc \in Holding \ {"guard", "skip"} /\ drain.pc # "failrun"
    BY <2>1
  <2>7. /\ drain' # Idle /\ drain'.row = drain.row /\ drain'.run = drain.run
        /\ drain'.pc \notin {"probe", "guard", "insert", "skip", "failrun"}
    BY <1>1, <2>1, <2>2 DEF Trying
  <2>. HIDE DEF run
  <2>. QED  BY <1>8, <2>4, <2>5, <2>6, <2>7
<1>10. CASE FailRun
  <2>1. drain.pc = "failrun" /\ drain.pc \in Holding
    BY <1>10 DEF FailRun, Holding
  <2>2. [runs[drain.run] EXCEPT !.status = "failed"] \in RunRecord
    BY <2>1, InHand DEF RunRecord, RunStatus
  <2>. QED  BY <1>8, <1>10, <2>1, <2>2, InHand DEF FailRun, RunRecord
<1>11. CASE StartDraft
  <2>1. drain.pc = "draft" /\ drain.pc \in Holding
    BY <1>11 DEF StartDraft, Holding
  <2>2. [runs[drain.run] EXCEPT !.draft = "running"] \in RunRecord
    BY <2>1, InHand DEF RunRecord, ActionStatus
  <2>. QED  BY <1>1, <1>8, <1>11, <2>1, <2>2, InHand DEF StartDraft, Goto, RunRecord, Trying
<1>12. CASE CompleteDraft
  <2>1. drain.pc = "drafting" /\ drain.pc \in Holding
    BY <1>12 DEF CompleteDraft, Holding
  <2>2. [runs[drain.run] EXCEPT !.draft = "completed", !.body = "proposed"] \in RunRecord
    BY <2>1, InHand DEF RunRecord, ActionStatus, Bodies
  <2>3. drain' # Idle /\ drain'.pc = "send" /\ drain'.row = drain.row /\ drain'.run = drain.run
    BY <1>12, <2>1, InHand DEF CompleteDraft, DrainRecord, Idle
  <2>. QED  BY <1>8, <1>12, <2>1, <2>2, <2>3, InHand DEF CompleteDraft, RunRecord
<1>13. CASE StartSend \/ CompleteSend
  <2>1. drain.pc \in {"send", "sent"} /\ drain.pc \in Holding
    BY <1>13 DEF StartSend, CompleteSend, Holding
  <2>2. CASE UNCHANGED runs /\ \E pc \in {"finish", "throw"} : drain' = [drain EXCEPT !.pc = pc]
    <3>1. UNCHANGED outbox
      BY <1>13 DEF StartSend, CompleteSend
    <3>. QED  BY <1>1, <2>1, <2>2, <3>1 DEF Works, Trying
  <2>3. CASE \E st \in {"running", "completed"}, pc \in {"sending", "finish"} :
                /\ runs' = [runs EXCEPT ![drain.run] = [runs[drain.run] EXCEPT !.send = st]]
                /\ drain' = [drain EXCEPT !.pc = pc]
    <3>1. PICK st \in {"running", "completed"}, pc \in {"sending", "finish"} :
                /\ runs' = [runs EXCEPT ![drain.run] = [runs[drain.run] EXCEPT !.send = st]]
                /\ drain' = [drain EXCEPT !.pc = pc]
      BY <2>3
    <3>2. [runs[drain.run] EXCEPT !.send = st] \in RunRecord
      BY <2>1, InHand DEF RunRecord, ActionStatus
    <3>3. UNCHANGED outbox
      BY <1>13 DEF StartSend, CompleteSend
    <3>. QED  BY <1>1, <1>8, <2>1, <3>1, <3>2, <3>3, InHand DEF RunRecord, Trying
  <2>. QED  BY <1>13, <2>2, <2>3 DEF StartSend, CompleteSend, Goto, Dispatch
<1>14. CASE EnqueueMessage
  <2>1. drain.pc = "sending" /\ drain.pc \in Holding
    BY <1>14 DEF EnqueueMessage, Holding
  <2>2. PICK b \in Bodies :
            runs' = [runs EXCEPT ![drain.run] = [runs[drain.run] EXCEPT !.sent = b]]
    BY <1>14, <2>1, InHand DEF EnqueueMessage, RunRecord, DrainRecord
  <2>3. [runs[drain.run] EXCEPT !.sent = b] \in RunRecord
    BY <2>1, InHand DEF RunRecord
  <2>. QED  BY <1>1, <1>8, <1>14, <2>1, <2>2, <2>3, InHand
            DEF EnqueueMessage, Goto, RunRecord, Trying
<1>. QED  BY <1>3, <1>4, <1>5, <1>6, <1>7, <1>9, <1>10, <1>11, <1>12, <1>13, <1>14 DEF DrainStep

\* In progress, and of the same row.
Goes(k) == runs[k].status \in {"running", "awaiting_approval"}
Twins(j, k) == j # k /\ runs[j].row = runs[k].row

\* No mode auto-approves, so no run is revived after it has ended.
NoOptional == \A a \in Agents : Mode[a] # "human_optional"

\* The run in progress is the only one of its row, the one the drain has found,
\* and the one it has in hand is not waiting for a decision.
LoneInv ==
    /\ \A j, k \in RunIds : Twins(j, k) => ~(Goes(j) /\ Goes(k))
    /\ \A k \in RunIds : runs[k].approval = "pending" => runs[k].status = "awaiting_approval"
    /\ drain.pc = "insert" => InProgress(drain.row) = {}
    /\ drain # Idle /\ drain.run # 0 =>
          /\ \A j \in RunIds : Twins(j, drain.run) => ~Goes(j)
          /\ drain.pc \notin {"guard", "skip"} => runs[drain.run].approval # "pending"

\* A decision ends or continues a run that is in progress.
LEMMA AroundLone ==
  ASSUME NoOptional, TypeInv, LoneInv, Around
  PROVE  LoneInv'
<1>0. /\ TypeOK /\ RunIds' = RunIds
      /\ \A k \in RunIds : runs[k] \in RunRecord /\ AgentOf[runs[k].row] \in Agents
  BY AgentAssumption, Fields, AroundRuns DEF TypeInv, TypeOK, RunIds, RunRecord
<1>1. ASSUME NEW k \in RunIds
      PROVE  /\ runs'[k].row = runs[k].row
             /\ Goes(k)' => Goes(k)
             /\ runs'[k].approval = "pending" =>
                    runs[k].approval = "pending" /\ runs'[k].status = runs[k].status
  <2>1. runs[k] \in RunRecord
    BY <1>0
  <2>2. CASE \E t \in {"none", "set", "expired"} : runs'[k] = [runs[k] EXCEPT !.ttl = t]
    BY <2>1, <2>2 DEF RunRecord, Goes
  <2>3. CASE runs[k].approval = "pending" /\ Decided(runs[k], runs'[k])
    <3>1. Goes(k)
      BY <2>3 DEF LoneInv, Goes
    <3>. QED  BY <2>1, <2>3, <3>1 DEF RunRecord, Decided
  <2>. QED  BY <1>0, <2>2, <2>3, AroundRuns DEF NoOptional, Goes
<1>2. \A j, k \in RunIds : Twins(j, k)' => Twins(j, k)
  BY <1>1 DEF Twins
<1>3. drain'.pc = "insert" => InProgress(drain.row)' = {}
  <2>1. CASE UNCHANGED drain
    <3> SUFFICES ASSUME drain.pc = "insert", NEW k \in RunIds, runs[k].row = drain.row
                 PROVE  ~Goes(k)'
      BY <1>0, <1>1, <2>1 DEF InProgress, Goes
    <3>1. ~Goes(k)
      BY DEF LoneInv, InProgress, Goes
    <3>. QED  BY <1>1, <3>1
  <2>2. CASE drain' = Idle \/ drain'.pc = "throw"
    BY <2>2 DEF Idle
  <2>. QED  BY <2>1, <2>2, AroundDrain
<1>4. ASSUME drain' # Idle, drain'.run # 0
      PROVE  /\ drain # Idle /\ drain.run # 0 /\ drain'.run = drain.run /\ drain.run \in RunIds
             /\ drain'.pc = drain.pc \/ drain.pc \notin {"guard", "skip"}
  <2>1. CASE StepThrows
    <3>1. drain \in DrainRecord /\ drain # Idle
      BY <1>0, <2>1, Fields DEF StepThrows, Trying
    <3>2. RunNotified(drain.pc) /\ drain'.run = drain.run
      BY <1>4, <2>1, <3>1 DEF StepThrows, DrainRecord
    <3>. QED  BY <1>4, <3>1, <3>2 DEF RunNotified, DrainRecord, RunIds
  <2>2. CASE ~StepThrows
    <3>1. UNCHANGED drain
      BY <1>4, <2>2 DEF Around, StaleScan, TtlRead, Approve, ApproveWithEdit, Reject, Snooze,
             TtlExpires, AutoApprove, ClearSnooze, TtlRowFails, Crash
    <3>. QED  BY <1>0, <1>4, <3>1 DEF TypeOK, DrainRecord, RunIds
  <2>. QED  BY <2>1, <2>2
<1>5. \A j, k \in RunIds : Twins(j, k)' => ~(Goes(j)' /\ Goes(k)')
  BY <1>1, <1>2 DEF LoneInv
<1>6. \A k \in RunIds : runs'[k].approval = "pending" => runs'[k].status = "awaiting_approval"
  BY <1>1 DEF LoneInv
<1>7. ASSUME drain' # Idle, drain'.run # 0
      PROVE  /\ \A j \in RunIds : Twins(j, drain.run)' => ~Goes(j)'
             /\ drain'.pc \notin {"guard", "skip"} => runs'[drain'.run].approval # "pending"
  <2>1. /\ drain # Idle /\ drain.run # 0 /\ drain'.run = drain.run /\ drain.run \in RunIds
        /\ drain'.pc = drain.pc \/ drain.pc \notin {"guard", "skip"}
    BY <1>4, <1>7
  <2>2. \A j \in RunIds : Twins(j, drain.run) => ~Goes(j)
    BY <2>1 DEF LoneInv
  <2>3. \A j \in RunIds : Twins(j, drain.run)' => ~Goes(j)'
    BY <1>1, <2>1, <2>2 DEF Twins
  <2>4. drain.pc \notin {"guard", "skip"} => runs[drain.run].approval # "pending"
    BY <2>1 DEF LoneInv
  <2>. QED  BY <1>1, <2>1, <2>3, <2>4
<1>8. /\ \A j, k \in RunIds' : Twins(j, k)' => ~(Goes(j)' /\ Goes(k)')
      /\ \A k \in RunIds' : runs'[k].approval = "pending" => runs'[k].status = "awaiting_approval"
  BY <1>0, <1>5, <1>6
<1>9. drain' # Idle /\ drain'.run # 0 =>
          /\ \A j \in RunIds' : Twins(j, drain.run)' => ~Goes(j)'
          /\ drain'.pc \notin {"guard", "skip"} => runs'[drain'.run].approval # "pending"
  BY <1>0, <1>7
<1>. QED  BY <1>3, <1>8, <1>9 DEF LoneInv, Twins, Goes

\* The drain opens a run only if it has found none, and resumes the one it has found.
LEMMA DrainLone ==
  ASSUME TypeInv, LoneInv, DrainStep
  PROVE  LoneInv'
<1>0. /\ TypeOK
      /\ \A k \in RunIds : runs[k] \in RunRecord
  BY Fields DEF TypeInv
<1>1. ASSUME NEW r \in Rows, Claim(r)
      PROVE  LoneInv'
  BY <1>1 DEF Claim, LoneInv, RunIds, Twins, Goes
<1>2. CASE Probe
  <2>1. drain \in DrainRecord /\ UNCHANGED runs
    BY <1>0, <1>2, Fields DEF Probe
  <2>2. CASE InProgress(drain.row) = {}
    <3>1. drain'.pc = "insert" /\ drain'.row = drain.row /\ drain'.run = drain.run
      BY <1>2, <2>1, <2>2 DEF Probe, Goto, DrainRecord
    <3>2. drain # Idle /\ drain.pc = "probe"
      <4>1. drain.pc = "probe"
        BY <1>2 DEF Probe
      <4>. QED  BY <1>0, <4>1, Fields
    <3>. QED  BY <2>1, <2>2, <3>1, <3>2 DEF LoneInv, InProgress, RunIds, Twins, Goes
  <2>3. CASE InProgress(drain.row) # {}
    <3>1. PICK k \in InProgress(drain.row) :
                drain' = [drain EXCEPT !.run = k,
                    !.pc = IF runs[k].status = "awaiting_approval" THEN "guard" ELSE "resume"]
      BY <1>2, <2>3 DEF Probe
    <3>2. k \in RunIds /\ Goes(k)
      BY DEF InProgress, Goes
    <3>3. drain'.run = k /\ drain'.pc \in {"guard", "resume"}
      BY <2>1, <3>1 DEF DrainRecord
    <3>4. drain'.pc = "resume" => runs[k].approval # "pending"
      BY <2>1, <3>1, <3>2 DEF DrainRecord, LoneInv
    <3>. QED  BY <2>1, <3>2, <3>3, <3>4 DEF LoneInv, RunIds, Twins, Goes
  <2>. QED  BY <2>2, <2>3
<1>3. CASE Guard
  <2>1. drain.pc = "guard" /\ drain.pc \in Holding /\ UNCHANGED runs
    BY <1>3 DEF Guard, Holding
  <2>2. /\ drain'.run = drain.run
        /\ drain'.pc = (IF runs[drain.run].approval = "pending" THEN "skip" ELSE "resume")
    BY <1>3, <2>1, InHand DEF Guard, Goto, DrainRecord
  <2>. QED  BY <2>1, <2>2, InHand DEF LoneInv, RunIds, Twins, Goes
<1>4. CASE InsertRun
  <2>1. drain \in DrainRecord
    BY <1>0, <1>4, Fields DEF InsertRun
  <2>2. /\ \A k \in RunIds : runs'[k] = runs[k]
        /\ RunIds' = RunIds \union {Len(runs) + 1} /\ Len(runs) + 1 \notin RunIds
        /\ runs'[Len(runs) + 1] = NewRun(drain.row)
    BY <1>0, <1>4 DEF InsertRun, TypeOK, RunIds
  <2>3. drain'.run = Len(runs) + 1 /\ drain'.pc = "load"
    BY <1>4, <2>1 DEF InsertRun, DrainRecord
  <2>4. \A k \in RunIds : runs[k].row = drain.row => ~Goes(k)
    BY <1>4 DEF InsertRun, LoneInv, InProgress, Goes
  <2>5. NewRun(drain.row).row = drain.row /\ NewRun(drain.row).approval = "none"
    BY DEF NewRun
  <2>. QED  BY <2>2, <2>3, <2>4, <2>5 DEF LoneInv, Twins, Goes
<1>5. CASE Works
  <2>1. drain # Idle /\ drain.pc \notin {"probe", "guard", "insert"}
    BY <1>5 DEF Works
  <2>2. drain.run # 0 => drain.run \in RunIds
    BY <1>0, <2>1 DEF TypeOK, DrainRecord, RunIds
  <2>3. CASE UNCHANGED runs
    BY <1>5, <2>1, <2>3 DEF Works, LoneInv, RunIds, Twins, Goes, Idle
  <2>4. CASE /\ drain.pc \in Holding \ {"guard", "skip"} /\ RunWritten(drain.run)
             /\ runs'[drain.run].approval = runs[drain.run].approval
    <3>1. drain.run # 0 /\ drain.run \in RunIds
      BY <2>4, InHand DEF TypeInv, Held
    <3>2. /\ runs[drain.run].approval # "pending"
          /\ \A j \in RunIds : Twins(j, drain.run) => ~Goes(j)
      BY <2>1, <2>4, <3>1 DEF LoneInv
    <3>3. /\ RunIds' = RunIds
          /\ \A j, k \in RunIds : Twins(j, k)' <=> Twins(j, k)
          /\ \A j \in RunIds \ {drain.run} : runs'[j] = runs[j] /\ (Goes(j)' <=> Goes(j))
      BY <2>4 DEF RunWritten, RunIds, Twins, Goes
    <3>. QED  BY <1>5, <2>4, <3>1, <3>2, <3>3 DEF Works, LoneInv, Twins, Idle
  <2>5. CASE PauseForApproval /\ RunWritten(drain.run)
    <3>1. drain.run # 0 /\ drain.run \in RunIds /\ drain' = Idle
      BY <2>5, InHand DEF TypeInv, Held, PauseForApproval, Holding
    <3>2. \A j \in RunIds : Twins(j, drain.run) => ~Goes(j)
      BY <2>1, <3>1 DEF LoneInv
    <3>3. /\ RunIds' = RunIds
          /\ \A j, k \in RunIds : Twins(j, k)' <=> Twins(j, k)
          /\ \A j \in RunIds \ {drain.run} : runs'[j] = runs[j] /\ (Goes(j)' <=> Goes(j))
      BY <2>5 DEF RunWritten, RunIds, Twins, Goes
    <3>4. runs'[drain.run].status = "awaiting_approval"
      BY <1>0, <2>5, <3>1 DEF PauseForApproval, TypeOK, RunIds, RunRecord
    <3>. QED  BY <3>1, <3>2, <3>3, <3>4 DEF LoneInv, Twins, Idle
  <2>. QED  BY <1>5, <2>3, <2>4, <2>5 DEF Works
<1>. QED  BY <1>1, <1>2, <1>3, <1>4, <1>5, WorkSteps

\* Unless a rule auto-approves, an outbox row has one run in progress at a time,
\* however often it is re-queued (agent-run-drain.ts, the resume probe).
THEOREM OneAtATime == ASSUME NoOptional PROVE Spec => []OneRunInProgress
<1>1. Init => LoneInv
  BY DEF Init, LoneInv, RunIds, Idle
<1>2. TypeInv /\ LoneInv /\ [Next]_vars => LoneInv'
  <2> SUFFICES ASSUME TypeInv, LoneInv, [Next]_vars
               PROVE  LoneInv'
    OBVIOUS
  <2>1. CASE UNCHANGED vars
    BY <2>1 DEF vars, LoneInv, RunIds, Twins, Goes, InProgress
  <2>. QED  BY <2>1, Steps, DrainLone, AroundLone
<1>3. LoneInv => OneRunInProgress
  <2> SUFFICES ASSUME LoneInv, NEW r \in Rows
               PROVE  Cardinality(InProgress(r)) <= 1
    BY DEF OneRunInProgress
  <2>1. CASE InProgress(r) = {}
    BY <2>1, FS_EmptySet
  <2>2. CASE InProgress(r) # {}
    <3>1. PICK k \in InProgress(r) : TRUE
      BY <2>2
    <3>2. k \in RunIds /\ Goes(k) /\ runs[k].row = r
      BY DEF InProgress, Goes
    <3>3. \A j \in InProgress(r) : j = k
      <4> SUFFICES ASSUME NEW j \in InProgress(r), j # k
                   PROVE  FALSE
        OBVIOUS
      <4>1. j \in RunIds /\ Goes(j) /\ runs[j].row = r
        BY DEF InProgress, Goes
      <4>2. Twins(j, k)
        BY <3>2, <4>1 DEF Twins
      <4>. QED  BY <3>2, <4>1, <4>2 DEF LoneInv
    <3>4. InProgress(r) = {k}
      BY <3>3
    <3>5. Cardinality({k}) = 1
      BY FS_Singleton
    <3>. QED  BY <3>4, <3>5
  <2>. QED  BY <2>1, <2>2
<1>. QED  BY <1>1, <1>2, <1>3, TypeInvariant, PTL DEF Spec

-----------------------------------------------------------------------------
(* Rows that no other run's decision has moved                             *)

\* Such a row has at most one run, which is in progress whenever the row can be
\* claimed; a pending request keeps its row waiting, a row in hand is not.
OwnInv ==
    /\ \A j, k \in RunIds :
            runs[j].row = runs[k].row /\ runs[k].row \notin moved => j = k
    /\ \A k \in RunIds : runs[k].approval = "pending" /\ runs[k].row \notin moved =>
            runs[k].status = "awaiting_approval" /\ outbox[runs[k].row] = "awaiting_approval"
    /\ \A k \in RunIds : outbox[runs[k].row] # "absent"
    /\ \A k \in RunIds :
            outbox[runs[k].row] = "pending" /\ runs[k].row \notin moved => Goes(k)
    /\ drain # Idle => outbox[drain.row] # "absent"
    /\ drain # Idle /\ drain.row \notin moved =>
          /\ outbox[drain.row] = IF drain.pc = "failrun" THEN "failed" ELSE "processing"
          /\ drain.pc = "probe" => \A k \in RunIds : runs[k].row = drain.row => Goes(k)
          /\ drain.pc = "insert" => \A k \in RunIds : runs[k].row # drain.row

\* Only a resolution of another run moves a row, and it is noted.
LEMMA ResolveMoves ==
  ASSUME TypeOK, NEW k \in RunIds, runs[k].row \in Rows, NEW to \in {"pending", "failed"},
         MovePaused(k, to)
  PROVE  /\ moved \subseteq moved'
         /\ runs[k].row \in moved' => runs[k].row \in moved
         /\ \A r \in Rows \ {runs[k].row} : r \notin moved' => outbox'[r] = outbox[r]
         /\ \A r \in Rows : outbox[r] # "absent" => outbox'[r] # "absent"
         /\ outbox'[runs[k].row] = IF outbox[runs[k].row] = "awaiting_approval"
                                   THEN to ELSE outbox[runs[k].row]
BY DEF MovePaused, TypeOK

\* A resolution moves no row that stays unmoved but the row of the run it resolves.
LEMMA ResolveOwn ==
  ASSUME TypeInv, OwnInv, NEW k \in RunIds, NEW y \in RunRecord,
         NEW to \in {"pending", "failed"}, MovePaused(k, to), UNCHANGED drain,
         runs' = [runs EXCEPT ![k] = y], y.row = runs[k].row, y.approval # "pending",
         \/ y.status = "running"
         \/ runs[k].approval = "pending" /\ to = "failed"
  PROVE  OwnInv'
<1>1. /\ TypeOK /\ \A j \in RunIds : runs[j] \in RunRecord /\ runs[j].row \in Rows
  BY Fields DEF TypeInv, RunRecord
<1>2. /\ RunIds' = RunIds /\ runs'[k] = y
      /\ \A j \in RunIds \ {k} : runs'[j] = runs[j]
  BY <1>1 DEF TypeOK, RunIds
<1>3. /\ moved \subseteq moved'
      /\ \A r \in Rows \ {runs[k].row} : r \notin moved' => outbox'[r] = outbox[r]
      /\ \A r \in Rows : outbox[r] # "absent" => outbox'[r] # "absent"
      /\ outbox'[runs[k].row] = IF outbox[runs[k].row] = "awaiting_approval"
                                THEN to ELSE outbox[runs[k].row]
  BY <1>1, ResolveMoves
<1>4. \A j \in RunIds \ {k} : runs[j].row \notin moved => runs[j].row # runs[k].row
  BY DEF OwnInv
<1>5. drain # Idle => drain.row \in Rows
  BY <1>1 DEF TypeOK, DrainRecord
<1>6. \A j \in RunIds : runs'[j].row = runs[j].row
  BY <1>2
<1>7. \A j, i \in RunIds : runs'[j].row = runs'[i].row /\ runs'[i].row \notin moved' => j = i
  BY <1>3, <1>6 DEF OwnInv
<1>8. \A j \in RunIds : runs'[j].approval = "pending" /\ runs'[j].row \notin moved' =>
            /\ runs'[j].status = "awaiting_approval"
            /\ outbox'[runs'[j].row] = "awaiting_approval"
  BY <1>1, <1>2, <1>3, <1>4 DEF OwnInv
<1>9. \A j \in RunIds : outbox'[runs'[j].row] # "absent"
  BY <1>1, <1>3, <1>6 DEF OwnInv
<1>10. ASSUME NEW j \in RunIds, outbox'[runs'[j].row] = "pending", runs'[j].row \notin moved'
       PROVE  Goes(j)'
  <2>1. CASE j # k
    BY <1>1, <1>2, <1>3, <1>4, <1>10, <2>1 DEF OwnInv, Goes
  <2>2. CASE j = k
    BY <1>1, <1>2, <1>3, <1>10, <2>2 DEF OwnInv, Goes
  <2>. QED  BY <2>1, <2>2
<1>11. ASSUME drain # Idle, drain.row \notin moved'
       PROVE  /\ outbox'[drain.row] = outbox[drain.row]
              /\ \A j \in RunIds : runs[j].row = drain.row /\ Goes(j) => Goes(j)'
  <2>1. drain.row \notin moved /\ outbox[drain.row] # "awaiting_approval"
    BY <1>3, <1>11 DEF OwnInv
  <2>2. outbox'[drain.row] = outbox[drain.row]
    BY <1>3, <1>5, <1>11, <2>1
  <2>3. runs[k].row = drain.row => runs[k].approval # "pending"
    BY <2>1 DEF OwnInv
  <2>. QED  BY <1>2, <2>2, <2>3 DEF Goes
<1>12. drain # Idle /\ drain.row \notin moved' =>
          /\ outbox'[drain.row] = IF drain.pc = "failrun" THEN "failed" ELSE "processing"
          /\ drain.pc = "probe" => \A j \in RunIds : runs'[j].row = drain.row => Goes(j)'
          /\ drain.pc = "insert" => \A j \in RunIds : runs'[j].row # drain.row
  BY <1>3, <1>6, <1>11 DEF OwnInv
<1>13. drain # Idle => outbox'[drain.row] # "absent"
  BY <1>3, <1>5 DEF OwnInv
<1>. QED  BY <1>2, <1>7, <1>8, <1>9, <1>10, <1>12, <1>13 DEF OwnInv, Goes

\* The scans, the recruiters and the faults keep it.
LEMMA AroundOwn ==
  ASSUME TypeInv, OwnInv, Around
  PROVE  OwnInv'
<1>0. /\ TypeOK
      /\ \A k \in RunIds : runs[k] \in RunRecord /\ runs[k].row \in Rows
  BY Fields DEF TypeInv, RunRecord
<1>1. ASSUME NEW r \in Rows, StaleScan(r)
      PROVE  OwnInv'
  <2>1. /\ outbox[r] = "absent" /\ UNCHANGED <<runs, drain, moved>> /\ RunIds' = RunIds
        /\ \A s \in Rows \ {r} : outbox'[s] = outbox[s]
    BY <1>0, <1>1 DEF StaleScan, TypeOK, RunIds
  <2>2. \A k \in RunIds : runs[k].row # r /\ outbox'[runs[k].row] = outbox[runs[k].row]
    BY <1>0, <2>1 DEF OwnInv
  <2>3. drain # Idle => outbox'[drain.row] = outbox[drain.row]
    BY <1>0, <2>1 DEF OwnInv, TypeOK, DrainRecord
  <2>. QED  BY <2>1, <2>2, <2>3 DEF OwnInv, Goes
<1>2. ASSUME NEW k \in RunIds, Approve(k) \/ ApproveWithEdit(k) \/ AutoApprove(k)
      PROVE  OwnInv'
  <2>1. runs[k] \in RunRecord
    BY <1>0
  <2>2. PICK a \in ApprovalStatus, b, c \in Bodies :
            /\ runs' = [runs EXCEPT ![k] = [runs[k] EXCEPT
                            !.approval = a, !.draft = "completed",
                            !.status = "running", !.body = b, !.signed = c]]
            /\ a # "pending"
    <3>1. CASE Approve(k)
      <4>1. /\ runs[k].body \in Bodies /\ "approved" \in ApprovalStatus
        BY <2>1 DEF RunRecord, ApprovalStatus
      <4>2. runs' = [runs EXCEPT ![k] = [runs[k] EXCEPT
                        !.approval = "approved", !.draft = "completed", !.status = "running",
                        !.body = runs[k].body, !.signed = runs[k].body]]
        BY <1>0, <2>1, <3>1 DEF Approve, RunRecord, TypeOK, RunIds
      <4>. QED  BY <4>1, <4>2
    <3>2. CASE ApproveWithEdit(k)
      BY <1>0, <2>1, <3>2 DEF ApproveWithEdit, ApprovalStatus, RunRecord, Bodies, TypeOK, RunIds
    <3>3. CASE AutoApprove(k)
      <4>1. /\ runs[k].body \in Bodies /\ "auto_approved" \in ApprovalStatus
        BY <2>1 DEF RunRecord, ApprovalStatus
      <4>2. runs' = [runs EXCEPT ![k] = [runs[k] EXCEPT
                        !.approval = "auto_approved", !.draft = "completed",
                        !.status = "running", !.body = runs[k].body,
                        !.signed = runs[k].body]]
        BY <1>0, <2>1, <3>3 DEF AutoApprove, RunRecord, TypeOK, RunIds
      <4>. QED  BY <4>1, <4>2
    <3>. QED  BY <1>2, <3>1, <3>2, <3>3
  <2>3. MovePaused(k, "pending") /\ UNCHANGED drain
    BY <1>2 DEF Approve, ApproveWithEdit, AutoApprove
  <2>. DEFINE y == [runs[k] EXCEPT !.approval = a, !.draft = "completed",
                                   !.status = "running", !.body = b, !.signed = c]
  <2>4. /\ y \in RunRecord /\ y.row = runs[k].row /\ y.approval # "pending"
        /\ y.status = "running"
    BY <2>1, <2>2 DEF RunRecord, RunStatus, ActionStatus
  <2>5. runs' = [runs EXCEPT ![k] = y]
    BY <2>2
  <2>. HIDE DEF y
  <2>. QED  BY <2>3, <2>4, <2>5, ResolveOwn
<1>3. ASSUME NEW k \in RunIds, Reject(k)
      PROVE  OwnInv'
  <2>. DEFINE y == [runs[k] EXCEPT !.approval = "rejected", !.draft = "failed",
                                   !.status = "rejected"]
  <2>1. /\ y \in RunRecord /\ y.row = runs[k].row /\ y.approval # "pending"
    BY <1>0 DEF RunRecord, RunStatus, ActionStatus, ApprovalStatus
  <2>2. /\ runs[k].approval = "pending" /\ runs' = [runs EXCEPT ![k] = y]
        /\ MovePaused(k, "failed") /\ UNCHANGED drain
    BY <1>3 DEF Reject
  <2>. HIDE DEF y
  <2>. QED  BY <2>1, <2>2, ResolveOwn
<1>4. ASSUME NEW k \in RunIds, Snooze(k) \/ TtlExpires(k) \/ ClearSnooze(k)
      PROVE  OwnInv'
  <2>1. PICK t \in {"none", "set", "expired"} : runs' = [runs EXCEPT ![k].ttl = t]
    BY <1>4 DEF Snooze, TtlExpires, ClearSnooze
  <2>2. UNCHANGED <<outbox, drain, moved>>
    BY <1>4 DEF Snooze, TtlExpires, ClearSnooze
  <2>3. RunIds' = RunIds
    BY <1>0, <2>1 DEF TypeOK, RunIds
  <2>4. \A j \in RunIds : /\ runs'[j].row = runs[j].row /\ runs'[j].status = runs[j].status
                          /\ runs'[j].approval = runs[j].approval
    BY <1>0, <2>1 DEF TypeOK, RunIds, RunRecord
  <2>. QED  BY <2>2, <2>3, <2>4 DEF OwnInv, Goes
<1>5. CASE TtlRead \/ (\E k \in RunIds : TtlRowFails(k))
  BY <1>5 DEF TtlRead, TtlRowFails, OwnInv, Goes, RunIds
<1>6. CASE StepThrows
  <2>1. drain \in DrainRecord /\ drain # Idle /\ drain.pc # "failrun"
    BY <1>0, <1>6, Fields DEF StepThrows, Trying
  <2>2. /\ drain'.pc = "throw" /\ drain'.row = drain.row
        /\ UNCHANGED <<outbox, runs, moved>>
    BY <1>6, <2>1 DEF StepThrows, DrainRecord
  <2>. QED  BY <2>1, <2>2 DEF OwnInv, Goes, RunIds
<1>7. CASE Crash
  BY <1>7 DEF Crash, OwnInv, Goes, RunIds
<1>. QED  BY <1>1, <1>2, <1>3, <1>4, <1>5, <1>6, <1>7 DEF Around

\* The drain opens a run for a row that has none, and leaves the rows of the others alone.
LEMMA DrainOwn ==
  ASSUME TypeInv, OwnInv, DrainStep
  PROVE  OwnInv'
<1>0. /\ TypeOK
      /\ \A k \in RunIds : runs[k] \in RunRecord /\ runs[k].row \in Rows
      /\ UNCHANGED moved
  BY Fields DEF TypeInv, RunRecord, DrainStep, Claim, Probe, Guard, SkipDuplicate, Resume,
         InsertRun, Load, StartDraft, SkipDraft, PauseForApproval, CompleteDraft, StartSend,
         EnqueueMessage, CompleteSend, FinishRun, CloseOutbox, FailOutbox, FailRun
<1>1. ASSUME NEW r \in Rows, Claim(r)
      PROVE  OwnInv'
  <2>1. /\ outbox[r] = "pending" /\ outbox'[r] = "processing" /\ UNCHANGED runs
        /\ \A s \in Rows \ {r} : outbox'[s] = outbox[s]
        /\ drain' # Idle /\ drain'.pc = "probe" /\ drain'.row = r
    BY <1>0, <1>1 DEF Claim, TypeOK, Idle
  <2>2. r \notin moved => \A k \in RunIds : runs[k].row = r => Goes(k)
    BY <2>1 DEF OwnInv
  <2>3. \A k \in RunIds : runs[k].row # r => outbox'[runs[k].row] = outbox[runs[k].row]
    BY <1>0, <2>1
  <2>. QED  BY <1>0, <2>1, <2>2, <2>3 DEF OwnInv, Goes, RunIds
<1>2. CASE Probe
  <2>1. drain \in DrainRecord /\ drain # Idle /\ drain.pc = "probe" /\ UNCHANGED <<outbox, runs>>
    BY <1>0, <1>2, Fields DEF Probe
  <2>2. CASE InProgress(drain.row) = {}
    <3>1. drain'.pc = "insert" /\ drain'.row = drain.row
      BY <1>2, <2>1, <2>2 DEF Probe, Goto, DrainRecord
    <3>2. drain.row \notin moved => \A k \in RunIds : runs[k].row # drain.row
      BY <2>1, <2>2 DEF OwnInv, InProgress, Goes
    <3>. QED  BY <1>0, <2>1, <3>1, <3>2 DEF OwnInv, Goes, RunIds
  <2>3. CASE InProgress(drain.row) # {}
    <3>1. drain'.pc \in {"guard", "resume"} /\ drain'.row = drain.row
      BY <1>2, <2>1, <2>3 DEF Probe, DrainRecord
    <3>. QED  BY <1>0, <2>1, <3>1 DEF OwnInv, Goes, RunIds
  <2>. QED  BY <2>2, <2>3
<1>3. CASE Guard
  <2>1. drain \in DrainRecord /\ drain # Idle /\ drain.pc = "guard" /\ UNCHANGED <<outbox, runs>>
    BY <1>0, <1>3, Fields DEF Guard
  <2>2. drain'.pc \in {"skip", "resume"} /\ drain'.row = drain.row
    BY <1>3, <2>1 DEF Guard, Goto, DrainRecord
  <2>. QED  BY <1>0, <2>1, <2>2 DEF OwnInv, Goes, RunIds
<1>4. CASE InsertRun
  <2>1. drain \in DrainRecord /\ drain # Idle /\ drain.pc = "insert" /\ UNCHANGED outbox
    BY <1>0, <1>4, Fields DEF InsertRun
  <2>2. /\ \A k \in RunIds : runs'[k] = runs[k]
        /\ RunIds' = RunIds \union {Len(runs) + 1} /\ Len(runs) + 1 \notin RunIds
        /\ runs'[Len(runs) + 1] = NewRun(drain.row)
    BY <1>0, <1>4 DEF InsertRun, TypeOK, RunIds
  <2>3. drain'.pc = "load" /\ drain'.row = drain.row
    BY <1>4, <2>1 DEF InsertRun, DrainRecord
  <2>4. /\ NewRun(drain.row).row = drain.row /\ NewRun(drain.row).approval = "none"
    BY DEF NewRun
  <2>5. /\ outbox[drain.row] # "absent"
        /\ drain.row \notin moved =>
             outbox[drain.row] = "processing" /\ \A k \in RunIds : runs[k].row # drain.row
    BY <2>1 DEF OwnInv
  <2>. QED  BY <1>0, <2>1, <2>2, <2>3, <2>4, <2>5 DEF OwnInv, Goes
<1>5. CASE Works
  <2>1. drain # Idle /\ drain.pc \notin {"probe", "insert"} /\ drain \in DrainRecord
    BY <1>0, <1>5 DEF Works, TypeOK
  <2>2. /\ drain.row \in Rows /\ outbox[drain.row] # "absent"
        /\ drain.row \notin moved => outbox[drain.row] \in {"processing", "failed"}
    BY <2>1 DEF OwnInv, DrainRecord
  <2>3. \A k \in RunIds : runs[k].row = drain.row /\ drain.row \notin moved =>
            runs[k].approval # "pending"
    BY <2>2 DEF OwnInv
  <2>4. RunIds' = RunIds /\ \A k \in RunIds : runs'[k].row = runs[k].row
    BY <1>5, InHand DEF Works, RunWritten, RunIds, PauseForApproval, Holding
  <2>5. \A k \in RunIds : runs[k].row # drain.row => runs'[k] = runs[k]
    BY <1>5, InHand DEF Works, RunWritten, PauseForApproval, Holding
  <2>6. \A r \in Rows \ {drain.row} : outbox'[r] = outbox[r]
    BY <1>0, <1>5 DEF Works, PauseForApproval, TypeOK
  <2>7. \A k \in RunIds : runs[k].row # drain.row =>
            runs'[k] = runs[k] /\ outbox'[runs'[k].row] = outbox[runs[k].row]
    BY <1>0, <2>5, <2>6
  <2>8. outbox'[drain.row] # "absent"
    BY <1>0, <1>5, <2>2 DEF Works, PauseForApproval, TypeOK
  <2>9. CASE PauseForApproval
    <3>1. drain' = Idle /\ outbox'[drain.row] = "awaiting_approval"
      BY <1>0, <2>2, <2>9 DEF PauseForApproval, TypeOK
    <3>2. drain.run \in RunIds /\ runs[drain.run].row = drain.row
      BY <2>9, InHand DEF PauseForApproval, Holding
    <3>3. runs'[drain.run].status = "awaiting_approval"
      BY <1>0, <2>9, <3>2 DEF PauseForApproval, TypeOK, RunIds, RunRecord
    <3>4. \A k \in RunIds : runs[k].row = drain.row /\ drain.row \notin moved => k = drain.run
      BY <3>2 DEF OwnInv
    <3>. QED  BY <1>0, <2>4, <2>7, <3>1, <3>3, <3>4 DEF OwnInv, Goes
  <2>10. CASE ~PauseForApproval
    <3>1. drain' # Idle => drain'.row = drain.row /\ drain'.pc \notin {"probe", "insert"}
      BY <1>5 DEF Works
    <3>2. drain.row \notin moved =>
            /\ outbox'[drain.row] \in {"processing", "completed", "failed"}
            /\ drain' # Idle => outbox'[drain.row] = IF drain'.pc = "failrun"
                                                     THEN "failed" ELSE "processing"
      BY <1>0, <1>5, <2>1, <2>2, <2>10 DEF Works, OwnInv, TypeOK
    <3>3. \A k \in RunIds : runs[k].row = drain.row => runs'[k].approval = runs[k].approval
      BY <1>5, <2>10 DEF Works, RunWritten
    <3>. QED  BY <1>0, <2>3, <2>4, <2>7, <2>8, <3>1, <3>2, <3>3 DEF OwnInv, Goes
  <2>. QED  BY <2>9, <2>10
<1>. QED  BY <1>1, <1>2, <1>3, <1>4, <1>5, WorkSteps

\* The three facts of an inductive invariant.
LEMMA OwnInvariant == Spec => []OwnInv
<1>1. Init => OwnInv
  BY DEF Init, OwnInv, RunIds, Idle
<1>2. TypeInv /\ OwnInv /\ [Next]_vars => OwnInv'
  <2> SUFFICES ASSUME TypeInv, OwnInv, [Next]_vars
               PROVE  OwnInv'
    OBVIOUS
  <2>1. CASE UNCHANGED vars
    BY <2>1 DEF vars, OwnInv, RunIds, Goes
  <2>. QED  BY <2>1, Steps, DrainOwn, AroundOwn
<1>. QED  BY <1>1, <1>2, TypeInvariant, PTL DEF Spec

\* A pending request has its run paused and its outbox row waiting, for any number of
\* applications per agent, until a decision on another run of the agent takes the row away.
THEOREM PendingWaits == Spec => []PendingIsPaused
<1>1. OwnInv => PendingIsPaused
  BY DEF OwnInv, PendingIsPaused
<1>. QED  BY <1>1, OwnInvariant, PTL

\* Until then a rejected follow-up is over: its row has had its only run.
THEOREM RejectedIsOver == Spec => []RejectionIsTerminal
<1>1. TypeInv /\ OwnInv => RejectionIsTerminal
  BY DEF OwnInv, RejectionIsTerminal, RunIds
<1>. QED  BY <1>1, OwnInvariant, TypeInvariant, PTL

-----------------------------------------------------------------------------
(* No approved follow-up is stranded                                       *)

\* An approved run is queued or in hand; a pass that ends early or late does not
\* end on one that goes on.  An unmoved row in hand waits for nobody, so the guard
\* finds no duplicate.
QueuedInv ==
    /\ ApprovedIsQueued
    /\ drain.pc = "skip" => drain.row \in moved
    /\ faults = 0 /\ drain.pc = "throw" => drain.run # 0
    /\ faults = 0 /\ drain.pc = "close" /\ drain.row \notin moved =>
            \/ runs[drain.run].approval # "approved"
            \/ runs[drain.run].status = "completed"

\* A decision finds the row of its run waiting, and notes the others it moves.
LEMMA AroundQueued ==
  ASSUME TypeInv, OwnInv, QueuedInv, Around
  PROVE  QueuedInv'
<1>0. /\ TypeOK /\ faults \in Nat
      /\ \A k \in RunIds : runs[k] \in RunRecord /\ runs[k].row \in Rows
  BY Fields, AgentAssumption DEF TypeInv, TypeOK, RunRecord
<1>1. drain.pc = "close" =>
          /\ drain # Idle /\ drain.run \in RunIds
          /\ runs[drain.run].row = drain.row
          /\ drain.row \notin moved => outbox[drain.row] = "processing"
  BY InHand DEF Holding, OwnInv
<1>2. CASE StepThrows \/ Crash \/ (\E k \in RunIds : TtlRowFails(k))
  <2>1. faults' > 0
    BY <1>0, <1>2 DEF StepThrows, Crash, TtlRowFails
  <2>2. UNCHANGED drain \/ drain' = Idle \/ drain'.pc = "throw"
    BY AroundDrain
  <2>3. UNCHANGED moved
    BY <1>2 DEF StepThrows, Crash, TtlRowFails
  <2>. QED  BY <1>0, <2>1, <2>2, <2>3 DEF QueuedInv, ApprovedIsQueued, Idle
<1>3. ASSUME NEW r \in Rows, StaleScan(r)
      PROVE  QueuedInv'
  <2>1. /\ outbox'[r] = "pending" /\ \A s \in Rows \ {r} : outbox'[s] = outbox[s]
        /\ UNCHANGED <<runs, drain, faults, moved>>
    BY <1>0, <1>3 DEF StaleScan, TypeOK
  <2>. QED  BY <1>0, <2>1 DEF QueuedInv, ApprovedIsQueued, RunIds
<1>4. CASE TtlRead
  BY <1>4 DEF TtlRead, QueuedInv, ApprovedIsQueued, RunIds
<1>5. ASSUME NEW k \in RunIds, NEW to \in {"pending", "failed"}, MovePaused(k, to),
             UNCHANGED <<drain, faults>>, NEW y, runs' = [runs EXCEPT ![k] = y],
             y.row = runs[k].row,
             \/ y.approval # "approved"
             \/ runs[k].approval = "pending" /\ to = "pending"
      PROVE  QueuedInv'
  <2>1. /\ RunIds' = RunIds /\ runs'[k] = y
        /\ \A j \in RunIds \ {k} : runs'[j] = runs[j]
    BY <1>0, <1>5 DEF TypeOK, RunIds
  <2>2. /\ moved \subseteq moved'
        /\ \A r \in Rows \ {runs[k].row} : r \notin moved' => outbox'[r] = outbox[r]
        /\ outbox[runs[k].row] = "awaiting_approval" => outbox'[runs[k].row] = to
    BY <1>0, <1>5, ResolveMoves
  <2>3. \A j \in RunIds \ {k} : runs[j].row \notin moved => runs[j].row # runs[k].row
    BY DEF OwnInv
  <2>4. runs[k].approval = "pending" /\ runs[k].row \notin moved =>
            outbox[runs[k].row] = "awaiting_approval"
    BY DEF OwnInv
  <2>5. ApprovedIsQueued'
    <3> SUFFICES ASSUME faults = 0, NEW j \in RunIds, runs'[j].approval = "approved",
                        runs'[j].row \notin moved', runs'[j].status \notin {"completed", "failed"}
                 PROVE  \/ outbox'[runs'[j].row] = "pending"
                        \/ drain # Idle /\ drain.row = runs'[j].row
      BY <1>5, <2>1 DEF ApprovedIsQueued
    <3>1. CASE j = k
      BY <1>5, <2>1, <2>2, <2>4, <3>1
    <3>2. CASE j # k
      <4>1. runs'[j] = runs[j] /\ outbox'[runs[j].row] = outbox[runs[j].row]
        BY <1>0, <2>1, <2>2, <2>3, <3>2
      <4>. QED  BY <2>2, <4>1 DEF QueuedInv, ApprovedIsQueued
    <3>. QED  BY <3>1, <3>2
  <2>6. faults = 0 /\ drain.pc = "close" /\ drain.row \notin moved' =>
            \/ runs'[drain.run].approval # "approved"
            \/ runs'[drain.run].status = "completed"
    <3>1. CASE drain.pc = "close" /\ drain.row \notin moved' /\ drain.run = k
      <4>1. runs[k].approval # "pending"
        BY <1>1, <2>2, <2>4, <3>1
      <4>. QED  BY <1>5, <2>1, <3>1, <4>1
    <3>2. CASE drain.pc = "close" /\ drain.row \notin moved' /\ drain.run # k
      BY <1>1, <2>1, <2>2, <3>2 DEF QueuedInv
    <3>. QED  BY <3>1, <3>2
  <2>. QED  BY <1>5, <2>2, <2>5, <2>6 DEF QueuedInv
<1>6. ASSUME NEW k \in RunIds, Approve(k) \/ ApproveWithEdit(k) \/ AutoApprove(k)
      PROVE  QueuedInv'
  <2>1. MovePaused(k, "pending") /\ UNCHANGED <<drain, faults>>
    BY <1>6 DEF Approve, ApproveWithEdit, AutoApprove
  <2>2. PICK y : /\ runs' = [runs EXCEPT ![k] = y] /\ y.row = runs[k].row
                 /\ y.approval # "approved" \/ runs[k].approval = "pending"
    <3>1. CASE Approve(k) \/ ApproveWithEdit(k)
      <4>1. \E b \in Bodies : runs' = [runs EXCEPT ![k] = [runs[k] EXCEPT
                !.approval = "approved", !.draft = "completed", !.status = "running",
                !.signed = b]] \/ runs' = [runs EXCEPT ![k] = [runs[k] EXCEPT
                !.approval = "approved", !.draft = "completed", !.status = "running",
                !.body = b, !.signed = b]]
        BY <1>0, <3>1 DEF Approve, ApproveWithEdit, Bodies, RunRecord, TypeOK, RunIds
      <4>2. runs[k].approval = "pending"
        BY <3>1 DEF Approve, ApproveWithEdit
      <4>. QED  BY <1>0, <4>1, <4>2 DEF RunRecord
    <3>2. CASE AutoApprove(k)
      <4>. DEFINE y == [runs[k] EXCEPT !.approval = "auto_approved", !.draft = "completed",
                                       !.status = "running", !.signed = runs[k].body]
      <4>1. y.row = runs[k].row /\ y.approval # "approved"
        BY <1>0 DEF RunRecord
      <4>2. runs' = [runs EXCEPT ![k] = y]
        BY <1>0, <3>2 DEF AutoApprove, TypeOK, RunIds
      <4>. HIDE DEF y
      <4>. QED  BY <4>1, <4>2
    <3>. QED  BY <1>6, <3>1, <3>2
  <2>. QED  BY <1>5, <2>1, <2>2
<1>7. ASSUME NEW k \in RunIds, Reject(k)
      PROVE  QueuedInv'
  <2>. DEFINE y == [runs[k] EXCEPT !.approval = "rejected", !.draft = "failed",
                                   !.status = "rejected"]
  <2>1. y.row = runs[k].row /\ y.approval # "approved"
    BY <1>0 DEF RunRecord
  <2>2. /\ runs' = [runs EXCEPT ![k] = y]
        /\ MovePaused(k, "failed") /\ UNCHANGED <<drain, faults>>
    BY <1>7 DEF Reject
  <2>. HIDE DEF y
  <2>. QED  BY <1>5, <2>1, <2>2
<1>8. ASSUME NEW k \in RunIds, Snooze(k) \/ TtlExpires(k) \/ ClearSnooze(k)
      PROVE  QueuedInv'
  <2>1. PICK t \in {"none", "set", "expired"} : runs' = [runs EXCEPT ![k].ttl = t]
    BY <1>8 DEF Snooze, TtlExpires, ClearSnooze
  <2>2. UNCHANGED <<outbox, drain, faults, moved>>
    BY <1>8 DEF Snooze, TtlExpires, ClearSnooze
  <2>3. RunIds' = RunIds
    BY <1>0, <2>1 DEF TypeOK, RunIds
  <2>4. \A j \in RunIds : /\ runs'[j].row = runs[j].row /\ runs'[j].status = runs[j].status
                          /\ runs'[j].approval = runs[j].approval
    BY <1>0, <2>1 DEF TypeOK, RunIds, RunRecord
  <2>. QED  BY <1>1, <2>2, <2>3, <2>4 DEF QueuedInv, ApprovedIsQueued
<1>. QED  BY <1>2, <1>3, <1>4, <1>6, <1>7, <1>8 DEF Around

\* A pass keeps an approved run in hand until it has ended it.
LEMMA DrainQueued ==
  ASSUME TypeInv, OwnInv, QueuedInv, DrainStep
  PROVE  QueuedInv'
<1>0. /\ TypeOK
      /\ \A k \in RunIds : runs[k] \in RunRecord /\ runs[k].row \in Rows
      /\ UNCHANGED <<faults, moved>>
  BY Fields DEF TypeInv, RunRecord, DrainStep, Claim, Probe, Guard, SkipDuplicate, Resume,
         InsertRun, Load, StartDraft, SkipDraft, PauseForApproval, CompleteDraft, StartSend,
         EnqueueMessage, CompleteSend, FinishRun, CloseOutbox, FailOutbox, FailRun
<1>1. ASSUME NEW r \in Rows, Claim(r)
      PROVE  QueuedInv'
  <2>1. /\ drain = Idle /\ UNCHANGED runs
        /\ \A s \in Rows \ {r} : outbox'[s] = outbox[s]
        /\ drain' # Idle /\ drain'.pc = "probe" /\ drain'.row = r
    BY <1>0, <1>1 DEF Claim, TypeOK, Idle
  <2>. QED  BY <1>0, <2>1 DEF QueuedInv, ApprovedIsQueued, RunIds
<1>2. ASSUME drain # Idle, drain' # Idle, drain'.row = drain.row, UNCHANGED <<outbox, runs>>,
             drain'.pc \notin {"throw", "close"}, drain'.pc = "skip" => drain.row \in moved
      PROVE  QueuedInv'
  BY <1>0, <1>2 DEF QueuedInv, ApprovedIsQueued, RunIds
<1>3. CASE Probe
  <2>1. drain \in DrainRecord /\ drain # Idle /\ UNCHANGED <<outbox, runs>>
    BY <1>0, <1>3, Fields DEF Probe
  <2>2. drain'.pc \in {"insert", "guard", "resume"} /\ drain'.row = drain.row
    BY <1>3, <2>1 DEF Probe, Goto, DrainRecord
  <2>. QED  BY <1>2, <2>1, <2>2 DEF Idle
<1>4. CASE Guard
  <2>1. drain.pc = "guard" /\ drain.pc \in Holding /\ UNCHANGED <<outbox, runs>>
    BY <1>4 DEF Guard, Holding
  <2>2. /\ drain # Idle /\ drain \in DrainRecord
        /\ drain.row \notin moved => runs[drain.run].approval # "pending"
    BY <2>1, InHand DEF OwnInv
  <2>3. /\ drain'.pc \in {"skip", "resume"} /\ drain'.row = drain.row
        /\ drain'.pc = "skip" => drain.row \in moved
    BY <1>4, <2>2 DEF Guard, Goto, DrainRecord
  <2>. QED  BY <1>2, <2>1, <2>2, <2>3 DEF Idle
<1>5. CASE InsertRun
  <2>1. drain \in DrainRecord /\ drain # Idle /\ UNCHANGED outbox
    BY <1>0, <1>5, Fields DEF InsertRun
  <2>2. /\ \A k \in RunIds : runs'[k] = runs[k]
        /\ RunIds' = RunIds \union {Len(runs) + 1}
        /\ runs'[Len(runs) + 1].approval = "none"
    BY <1>0, <1>5 DEF InsertRun, TypeOK, RunIds, NewRun
  <2>3. drain'.pc = "load" /\ drain'.row = drain.row
    BY <1>5, <2>1 DEF InsertRun, DrainRecord
  <2>. QED  BY <1>0, <2>1, <2>2, <2>3 DEF QueuedInv, ApprovedIsQueued, Idle
<1>6. CASE Works
  <2>1. drain # Idle /\ drain \in DrainRecord
    BY <1>0, <1>6 DEF Works, TypeOK
  <2>2. RunIds' = RunIds /\ \A k \in RunIds : runs'[k].row = runs[k].row
    BY <1>6, InHand DEF Works, RunWritten, RunIds, PauseForApproval, Holding
  <2>3. \A k \in RunIds : runs[k].row # drain.row =>
            runs'[k] = runs[k] /\ outbox'[runs[k].row] = outbox[runs[k].row]
    BY <1>0, <1>6, InHand DEF Works, RunWritten, PauseForApproval, Holding, TypeOK
  <2>4. CASE drain' # Idle
    <3>1. drain'.row = drain.row /\ drain'.run = drain.run /\ drain'.pc # "skip"
      BY <1>6, <2>4 DEF Works
    <3>2. ApprovedIsQueued'
      BY <1>0, <2>2, <2>3, <2>4, <3>1 DEF QueuedInv, ApprovedIsQueued
    <3>3. faults = 0 /\ drain'.pc = "throw" => drain'.run # 0
      <4>1. drain.pc \in Holding \union {"throw"}
        BY <1>6, <2>1, <2>4 DEF Works, DrainRecord, Trying, Holding
      <4>. QED  BY <3>1, <4>1 DEF QueuedInv, TypeInv, Held
    <3>4. drain'.pc = "close" => runs'[drain.run].status = "completed"
      <4> SUFFICES ASSUME drain'.pc = "close"
                   PROVE  runs'[drain.run].status = "completed"
        OBVIOUS
      <4>1. FinishRun
        BY <1>6, <2>1, <2>4 DEF DrainStep, Claim, Probe, Guard, SkipDuplicate, Resume, InsertRun,
           Load, StartDraft, SkipDraft, PauseForApproval, CompleteDraft, StartSend, EnqueueMessage,
           CompleteSend, CloseOutbox, FailOutbox, FailRun, Goto, Dispatch, DrainRecord, Works
      <4>2. drain.run \in RunIds /\ runs' = [runs EXCEPT ![drain.run].status = "completed"]
        BY <4>1, InHand DEF FinishRun, Holding
      <4>. QED  BY <1>0, <4>2 DEF TypeOK, RunIds, RunRecord
    <3>. QED  BY <1>0, <3>1, <3>2, <3>3, <3>4 DEF QueuedInv
  <2>5. CASE drain' = Idle
    <3>1. ASSUME faults = 0, NEW k \in RunIds, runs[k].row = drain.row, drain.row \notin moved
          PROVE  runs'[k].approval # "approved" \/ runs'[k].status \in {"completed", "failed"}
      <4>1. drain.run # 0 => k = drain.run
        <5>1. drain.run # 0 => drain.run \in RunIds /\ runs[drain.run].row = drain.row
          BY <2>1 DEF TypeInv, Held, DrainRecord, RunIds
        <5>. QED  BY <3>1, <5>1 DEF OwnInv
      <4>2. CASE CloseOutbox
        BY <3>1, <4>1, <4>2 DEF CloseOutbox, QueuedInv, TypeInv, Held, Holding
      <4>3. CASE FailOutbox
        BY <2>5, <3>1, <4>3 DEF FailOutbox, QueuedInv, Goto, Idle
      <4>4. CASE FailRun
        <5>1. k = drain.run /\ runs' = [runs EXCEPT ![drain.run].status = "failed"]
          BY <4>1, <4>4 DEF FailRun, TypeInv, Held, Holding
        <5>. QED  BY <1>0, <5>1 DEF TypeOK, RunIds, RunRecord
      <4>5. CASE PauseForApproval
        <5>1. k = drain.run /\ drain.run \in RunIds
          BY <4>1, <4>5, InHand DEF PauseForApproval, TypeInv, Held, Holding
        <5>. QED  BY <1>0, <4>5, <5>1 DEF PauseForApproval, TypeOK, RunIds, RunRecord
      <4>6. CloseOutbox \/ FailOutbox \/ FailRun \/ PauseForApproval
        <5>1. drain'.pc = "idle"
          BY <2>5 DEF Idle
        <5>. QED  BY <1>6, <2>1, <3>1, <5>1 DEF DrainStep, Claim, Probe, Guard, SkipDuplicate,
             Resume, InsertRun, Load, StartDraft, SkipDraft, CompleteDraft, StartSend,
             EnqueueMessage, CompleteSend, FinishRun, Works, QueuedInv, Goto, Dispatch,
             DrainRecord
      <4>. QED  BY <4>2, <4>3, <4>4, <4>5, <4>6
    <3>. QED  BY <1>0, <2>2, <2>3, <2>5, <3>1 DEF QueuedInv, ApprovedIsQueued, Idle
  <2>. QED  BY <2>4, <2>5
<1>. QED  BY <1>1, <1>3, <1>4, <1>5, <1>6, WorkSteps

\* While nothing has failed, no interleaving of the drain, the recruiters and the TTL
\* scan strands an approved run, for any number of applications per agent, unless a
\* decision on another run of the agent has moved its row (agent-run-drain.ts).
THEOREM ApprovedIsNotStranded == Spec => []ApprovedIsQueued
<1>1. Init => QueuedInv
  BY DEF Init, QueuedInv, ApprovedIsQueued, RunIds, Idle
<1>2. TypeInv /\ OwnInv /\ QueuedInv /\ [Next]_vars => QueuedInv'
  <2> SUFFICES ASSUME TypeInv, OwnInv, QueuedInv, [Next]_vars
               PROVE  QueuedInv'
    OBVIOUS
  <2>1. CASE UNCHANGED vars
    BY <2>1 DEF vars, QueuedInv, ApprovedIsQueued, RunIds
  <2>. QED  BY <2>1, Steps, DrainQueued, AroundQueued
<1>3. QueuedInv => ApprovedIsQueued
  BY DEF QueuedInv
<1>. QED  BY <1>1, <1>2, <1>3, TypeInvariant, OwnInvariant, PTL DEF Spec
=============================================================================
