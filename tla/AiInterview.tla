----------------------------- MODULE AiInterview -----------------------------
(***************************************************************************)
(* The AI interview: one round, from its questions to its evidence report. *)
(*                                                                         *)
(* A recruiter generates, approves and issues a question set               *)
(* (apps/api/src/lib/ai-interview-questions.ts, ai-interview-session.ts).  *)
(* The candidate opens the link in a browser tab, consents, answers one    *)
(* question at a time, typed or spoken, and submits.  The spoken answers   *)
(* of a round share ONE audio object, uploaded again from the start of the *)
(* round with every answer.  Submitting queues the transcript              *)
(* (transcript_outbox, drained by the pipeline that Notetaker models; only *)
(* its outcome is kept here) and the evidence report                       *)
(* (apps/workers/src/lib/ai-interview-evidence-drain.ts).                  *)
(*                                                                         *)
(* Candidate requests run on the pool, outside any transaction: a request  *)
(* loads the session once, and every later statement works from that copy. *)
(* Two tabs stand for two pages, or for a retry beside the request it      *)
(* repeats.  A refused request is a GiveUp.  One worker process; a live    *)
(* pass ends within the lease of its claims.                               *)
(***************************************************************************)
EXTENDS Integers

CONSTANTS
    Tabs,           \* browser tabs of the candidate
    NumQuestions,   \* questions in a set
    AttemptCap,     \* AI_INTERVIEW_EVIDENCE_ATTEMPT_CAP
    MaxTape,        \* bound: length of a tab's recording
    MaxDisturbances \* bound: sets generated again, links issued again, rounds
                    \* cancelled, deadlines missed, reports asked for again and
                    \* requests or passes that die, pages loaded again, consents
                    \* declined, recorders started on a page that is behind the
                    \* row, taken together

ASSUME AiInterviewAssumption ==
    /\ {"none", "typed", "nobody"} \intersect Tabs = {}
    /\ NumQuestions \in Nat \ {0}
    /\ AttemptCap \in Nat \ {0}
    /\ MaxTape \in Nat \ {0}
    /\ MaxDisturbances \in Nat

VARIABLES
    cancelled,  \* interviews.status = 'cancelled'
    status,     \* status of the ai_interview_sessions row, "none": no row
    questions,  \* the question set on the row, numbered as generated
    deadline,   \* expires_at: "none", "ahead", "late", "past"
    turn,       \* turn_state: who gave each answer, and the media size
    consent,    \* latest interview_recording_consents decision
    recording,  \* status of the interview_recordings row
    object,     \* the audio object: the tab that recorded it and its length
    txOutbox,         \* status of the transcript_outbox row
    transcript, \* an interview_transcripts row with readable segments exists
    evidence,   \* the ai_interview_evidence row
    generating, \* a generation has passed its check of the status
    issuing,    \* an issue has passed its checks
    req,        \* the request of each tab: program counter and the copy it loaded
    tape,       \* length of each tab's recording, 0: recorder not started
    unaware,    \* tabs whose page still shows the round without an answer
    worker,     \* program counter and locals of the evidence drain
    sets,       \* question sets generated so far
    disturbances, \* disturbances so far
    died,       \* history: a request or a pass has died
    acked,      \* history: the answers the candidate was told were saved
    overlapped, \* history: requests, or recorders, of two tabs ran side by side
    missed,     \* history: a recorder was started on a page that had missed an answer
    billed,     \* history: model calls made for the report
    asked       \* history: times a report was asked for again

sessionVars == <<status, turn, consent>>
sessionRowVars == <<cancelled, status, questions, deadline, turn, consent>>
mediaVars == <<recording, object, txOutbox, transcript>>
recruiterVars == <<generating, issuing, sets>>
pageVars == <<tape, unaware, missed>>
noteVars == <<acked, overlapped>>
tabVars == <<req, pageVars, noteVars>>
drainVars == <<evidence, worker, billed, asked>>
faultVars == <<disturbances, died>>
aiVars == <<sessionRowVars, mediaVars, recruiterVars, tabVars, drainVars, faultVars>>

\* A disturbance of the round, counted.
Disturb ==
    /\ disturbances < MaxDisturbances
    /\ disturbances' = disturbances + 1

Questions == 1 .. NumQuestions
Answers == {"none", "typed"} \union Tabs
EmptyTurn == [answer |-> [q \in Questions |-> "none"], size |-> 0]
NoRequest == [pc |-> "idle", kind |-> "none", q |-> 0, copy |-> EmptyTurn]
NoEvidence == [status |-> "none", attempts |-> 0, of |-> EmptyTurn.answer, blind |-> FALSE]
NoPass == [pc |-> "idle", attempt |-> 0, of |-> EmptyTurn.answer, blind |-> FALSE]

AiInit ==
    /\ cancelled = FALSE
    /\ status = "none"
    /\ questions = 0
    /\ deadline = "none"
    /\ turn = EmptyTurn
    /\ consent = "none"
    /\ recording = "absent"
    /\ object = [by |-> "nobody", len |-> 0]
    /\ txOutbox = "none"
    /\ transcript = FALSE
    /\ evidence = NoEvidence
    /\ generating = FALSE
    /\ issuing = FALSE
    /\ req = [t \in Tabs |-> NoRequest]
    /\ tape = [t \in Tabs |-> 0]
    /\ unaware = Tabs
    /\ worker = NoPass
    /\ sets = 0
    /\ disturbances = 0
    /\ died = FALSE
    /\ acked = EmptyTurn.answer
    /\ overlapped = FALSE
    /\ missed = FALSE
    /\ billed = 0
    /\ asked = 0

\* currentQuestionIndex: the first question without an answer, 0 when there is none.
Current(answer) ==
    LET open == {q \in Questions : answer[q] = "none"}
    IN IF open = {} THEN 0 ELSE CHOOSE q \in open : \A r \in open : q <= r

HasVoice(answer) == \E q \in Questions : answer[q] \in Tabs
Answered(answer) == \E q \in Questions : answer[q] # "none"

Open == status \in {"issued", "in_progress"}

-----------------------------------------------------------------------------
(* The recruiter: generate, approve, issue, cancel the interview           *)

\* generateQuestions: the check, before the model is called.
BeginGenerate ==
    /\ ~generating
    /\ IF status = "none" THEN sets = 0 /\ UNCHANGED disturbances ELSE Disturb
    /\ status \in {"none", "draft"}
    /\ generating' = TRUE
    /\ sets' = sets + 1
    /\ UNCHANGED <<sessionRowVars, mediaVars, issuing, tabVars, drainVars, died>>

\* Faulty variant: the UPDATE without its guard.
CommitGenerateAnyway ==
    /\ generating
    /\ generating' = FALSE
    /\ status' = IF status = "none" THEN "draft" ELSE status
    /\ questions' = sets
    /\ UNCHANGED <<cancelled, deadline, turn, consent, mediaVars, issuing, sets,
                   tabVars, drainVars, faultVars>>

\* INSERT ... ON CONFLICT DO UPDATE ... WHERE status = 'draft'.
CommitGenerate ==
    /\ generating
    /\ generating' = FALSE
    /\ IF status \in {"none", "draft"}
       THEN status' = "draft" /\ questions' = sets
       ELSE UNCHANGED <<status, questions>>
    /\ UNCHANGED <<cancelled, deadline, turn, consent, mediaVars, issuing, sets,
                   tabVars, drainVars, faultVars>>

\* approveQuestions: approver, time and freeze in one guarded UPDATE.
ApproveQuestions ==
    /\ status = "draft"
    /\ status' = "approved"
    /\ UNCHANGED <<cancelled, questions, deadline, turn, consent, mediaVars,
                   recruiterVars, tabVars, drainVars, faultVars>>

\* issueSession: the checks.
BeginIssue ==
    /\ ~issuing
    /\ ~cancelled
    /\ status \in {"approved", "issued"}
    /\ IF status = "approved" THEN UNCHANGED disturbances ELSE Disturb
    /\ issuing' = TRUE
    /\ UNCHANGED <<sessionRowVars, mediaVars, generating, sets, tabVars, drainVars,
                   died>>

\* UPDATE ... WHERE status IN ('approved','issued') AND started_at IS NULL: a new
\* link and a new deadline; otherwise a refusal.
CommitIssue ==
    /\ issuing
    /\ issuing' = FALSE
    /\ IF status \in {"approved", "issued"}
       THEN status' = "issued" /\ deadline' = "ahead"
       ELSE UNCHANGED <<status, deadline>>
    /\ UNCHANGED <<cancelled, questions, turn, consent, mediaVars, generating,
                   sets, tabVars, drainVars, faultVars>>

\* cancelInterview, which leaves the session's own status alone.
CancelInterview ==
    /\ ~cancelled
    /\ Disturb
    /\ cancelled' = TRUE
    /\ UNCHANGED <<sessionVars, questions, deadline, mediaVars, recruiterVars,
                   tabVars, drainVars, died>>

\* First for the session alone: a link that was verified in time may still be on
\* its way to the row.
DeadlinePasses ==
    /\ \/ /\ deadline = "ahead"
          /\ Disturb
          /\ deadline' = "late"
       \/ /\ deadline = "late"
          /\ deadline' = "past"
          /\ UNCHANGED disturbances
    /\ UNCHANGED <<cancelled, sessionVars, questions, mediaVars, recruiterVars,
                   tabVars, drainVars, died>>

-----------------------------------------------------------------------------
(* The candidate: every request verifies the link and loads the session    *)

TabAt(t, pc) == req[t].pc = pc
Step(t, pc) == req' = [req EXCEPT ![t].pc = pc]
Done(t) == req' = [req EXCEPT ![t] = NoRequest]
InFlight(t) == req[t].pc \notin {"idle", "put", "recorded"}

\* History: a request or a recorder runs beside another.  Once that is known, nobody
\* asks what was acknowledged.
NoteOverlap(now) ==
    /\ overlapped' = (overlapped \/ now)
    /\ acked' = IF overlapped \/ now THEN EmptyTurn.answer ELSE acked
OtherInFlight(t) == \E u \in Tabs \ {t} : InFlight(u)

\* The page shows the first question, which has been answered since it was loaded.
Misses(t) == t \in unaware /\ Answered(turn.answer)

\* The page is shown the round as it is.
Show(t, answer) == unaware' = IF Answered(answer) THEN unaware \ {t} ELSE unaware

\* The first statement that each kind of request reaches.
EntryOf == [start |-> "consent", upload |-> "upsert", typed |-> "write",
            voice |-> "stat", submit |-> "close"]

\* assertActionable and assertAnswerable: what each handler asks of the copy it
\* loaded, and of the consent, which it reads again for every answer.  An answer is
\* for the question the page shows, a spoken one for the question of its upload.
Admitted(t, kind) ==
    /\ ~cancelled
    /\ CASE kind = "start" -> Open
         [] kind = "submit" -> status = "in_progress" /\ Answered(turn.answer)
         [] kind = "upload" -> /\ status = "in_progress" /\ consent = "granted"
                               /\ tape[t] > 0 /\ Current(turn.answer) # 0
         [] kind = "typed" -> /\ status = "in_progress" /\ consent = "granted"
                              /\ Current(turn.answer) # 0
         [] kind = "voice" -> /\ status = "in_progress" /\ consent = "granted"
                              /\ Current(turn.answer) = req[t].q
    /\ kind \in {"upload", "typed"} => ~Misses(t)

\* verifyLink and loadSessionByTokenHash: from here on the request works from its
\* copy.
Load(t, kind) ==
    /\ IF kind = "voice" THEN TabAt(t, "recorded") ELSE TabAt(t, "idle")
    /\ deadline = "ahead"
    /\ Admitted(t, kind)
    /\ req' = [req EXCEPT ![t] = [pc |-> EntryOf[kind], q |-> Current(turn.answer),
                                  kind |-> kind, copy |-> turn]]
    /\ NoteOverlap(OtherInFlight(t))
    /\ UNCHANGED <<sessionRowVars, mediaVars, recruiterVars, pageVars, drainVars,
                   faultVars>>

\* expireIfLapsed: the link was verified in time, the session loaded too late.
Lapse(t) ==
    /\ TabAt(t, "idle")
    /\ deadline = "late"
    /\ Open
    /\ status' = "expired"
    /\ NoteOverlap(OtherInFlight(t))
    /\ UNCHANGED <<cancelled, questions, deadline, turn, consent, mediaVars,
                   recruiterVars, req, pageVars, drainVars, faultVars>>

\* startSession: the consent log and its latest decision, ...
RecordConsent(t, decision) ==
    /\ TabAt(t, "consent")
    /\ IF decision = "granted" THEN UNCHANGED disturbances ELSE Disturb
    /\ consent' = decision
    /\ IF decision = "granted" THEN Step(t, "start") ELSE Done(t)
    /\ UNCHANGED <<cancelled, status, questions, deadline, turn, mediaVars,
                   recruiterVars, pageVars, noteVars, drainVars, died>>

\* ... and the status, WHERE status IN ('issued','in_progress').
Start(t) ==
    /\ TabAt(t, "start")
    /\ status' = IF Open THEN "in_progress" ELSE status
    /\ Done(t)
    /\ Show(t, turn.answer)
    /\ UNCHANGED <<cancelled, questions, deadline, turn, consent, mediaVars,
                   recruiterVars, tape, missed, noteVars, drainVars, faultVars>>

\* Faulty variant: a page that was loaded again records from scratch.
StartRecorderAnytime(t) ==
    /\ TabAt(t, "idle")
    /\ status = "in_progress"
    /\ tape[t] = 0
    /\ tape' = [tape EXCEPT ![t] = 1]
    /\ missed' = (missed \/ Misses(t))
    /\ IF Misses(t) THEN Disturb ELSE UNCHANGED disturbances
    /\ NoteOverlap(\E u \in Tabs \ {t} : tape[u] > 0)
    /\ UNCHANGED <<sessionRowVars, mediaVars, recruiterVars, req, unaware, drainVars,
                   died>>

\* A recorder is started by a page that has been shown no answer, whatever the row says
\* by now (voiceAvailability); on a page that is behind the row this is a disturbance.
StartRecorder(t) ==
    /\ TabAt(t, "idle")
    /\ status = "in_progress"
    /\ tape[t] = 0
    /\ t \in unaware
    /\ tape' = [tape EXCEPT ![t] = 1]
    /\ missed' = (missed \/ Misses(t))
    /\ IF Misses(t) THEN Disturb ELSE UNCHANGED disturbances
    /\ NoteOverlap(\E u \in Tabs \ {t} : tape[u] > 0)
    /\ UNCHANGED <<sessionRowVars, mediaVars, recruiterVars, req, unaware, drainVars,
                   died>>

\* The page is loaded again and its recording is gone.
Reload(t) ==
    /\ TabAt(t, "idle")
    /\ tape[t] > 0
    /\ Disturb
    /\ tape' = [tape EXCEPT ![t] = 0]
    /\ Show(t, turn.answer)
    /\ UNCHANGED <<sessionRowVars, mediaVars, recruiterVars, req, missed, noteVars,
                   drainVars, died>>

\* The page reads the round again after a refusal; a recorder it has started goes on.
Refresh(t) ==
    /\ TabAt(t, "idle")
    /\ Misses(t)
    /\ Show(t, turn.answer)
    /\ UNCHANGED <<sessionRowVars, mediaVars, recruiterVars, req, tape, missed, noteVars,
                   drainVars, faultVars>>

\* createAnswerUploadUrl: INSERT ... ON CONFLICT DO UPDATE ... WHERE not yet taken
\* by the transcript pipeline; then the signed URL.
UpsertRecording(t) ==
    /\ TabAt(t, "upsert")
    /\ recording \in {"absent", "pending", "uploaded"}
    /\ recording' = IF recording = "absent" THEN "pending" ELSE recording
    /\ Step(t, "put")
    /\ UNCHANGED <<sessionRowVars, object, txOutbox, transcript, recruiterVars,
                   pageVars, noteVars, drainVars, faultVars>>

\* The browser PUTs the whole recording of its page over the round's one object;
\* the recording goes on growing.
PutObject(t) ==
    /\ TabAt(t, "put")
    /\ object' = [by |-> t, len |-> tape[t]]
    /\ tape' = [tape EXCEPT ![t] = IF @ < MaxTape THEN @ + 1 ELSE @]
    /\ req' = [req EXCEPT ![t].pc = "recorded", ![t].copy = EmptyTurn]
    /\ UNCHANGED <<sessionRowVars, recording, txOutbox, transcript, recruiterVars,
                   unaware, missed, noteVars, drainVars, faultVars>>

\* recordAnswer, spoken: the object must be there and must not have shrunk.
StatObject(t) ==
    /\ TabAt(t, "stat")
    /\ recording # "absent"
    /\ object.len > 0
    /\ object.len >= req[t].copy.size
    /\ req' = [req EXCEPT ![t].pc = "write", ![t].copy.size = object.len]
    /\ UNCHANGED <<sessionRowVars, mediaVars, recruiterVars, pageVars, noteVars,
                   drainVars, faultVars>>

Mode(t) == IF req[t].kind = "voice" THEN t ELSE "typed"

\* Faulty variant: the new answer without those of the copy.
NextTurnNewestOnly(t) ==
    [answer |-> [EmptyTurn.answer EXCEPT ![req[t].q] = Mode(t)], size |-> req[t].copy.size]

\* The copy with this answer in it.
NextTurn(t) == [req[t].copy EXCEPT !.answer[req[t].q] = Mode(t)]

\* Faulty variant: the UPDATE without its guard on the status.
WriteAnswerUnguarded(t) ==
    /\ TabAt(t, "write")
    /\ turn' = NextTurn(t)
    /\ acked' = IF overlapped THEN acked ELSE [acked EXCEPT ![req[t].q] = Mode(t)]
    /\ Done(t)
    /\ Show(t, turn'.answer)
    /\ UNCHANGED <<cancelled, status, questions, deadline, consent, mediaVars,
                   recruiterVars, tape, missed, overlapped, drainVars, faultVars>>

\* UPDATE turn_state WHERE status = 'in_progress'; the candidate is told the answer
\* was saved whether or not a row was hit.
WriteAnswer(t) ==
    /\ TabAt(t, "write")
    /\ turn' = IF status = "in_progress" THEN NextTurn(t) ELSE turn
    /\ acked' = IF overlapped THEN acked ELSE [acked EXCEPT ![req[t].q] = Mode(t)]
    /\ Done(t)
    /\ Show(t, turn'.answer)
    /\ UNCHANGED <<cancelled, status, questions, deadline, consent, mediaVars,
                   recruiterVars, tape, missed, overlapped, drainVars, faultVars>>

\* submitSession: the status, WHERE status = 'in_progress'; the request goes on
\* whether or not a row was hit.  What the pages show of a round that is over decides
\* nothing any more, and of the copy only whether it has a spoken answer.
CloseSession(t) ==
    /\ TabAt(t, "close")
    /\ status' = IF status = "in_progress" THEN "submitted" ELSE status
    /\ req' = [req EXCEPT ![t].pc = IF HasVoice(req[t].copy.answer) THEN "stamp" ELSE "report",
                          ![t].copy = EmptyTurn]
    /\ unaware' = {}
    /\ UNCHANGED <<cancelled, questions, deadline, turn, consent, mediaVars,
                   recruiterVars, tape, missed, noteVars, drainVars, faultVars>>

\* Faulty variant: only a recording that was stamped before.
StampUploadedOnly(t) ==
    /\ TabAt(t, "stamp")
    /\ recording' = recording
    /\ Step(t, IF recording = "uploaded" THEN "queue" ELSE "report")
    /\ UNCHANGED <<sessionRowVars, object, txOutbox, transcript, recruiterVars,
                   pageVars, noteVars, drainVars, faultVars>>

\* The recording is uploaded, unless the pipeline has taken it.
StampRecording(t) ==
    /\ TabAt(t, "stamp")
    /\ IF recording \in {"pending", "uploaded"}
       THEN recording' = "uploaded" /\ Step(t, "queue")
       ELSE recording' = recording /\ Step(t, "report")
    /\ UNCHANGED <<sessionRowVars, object, txOutbox, transcript, recruiterVars,
                   pageVars, noteVars, drainVars, faultVars>>

\* Faulty variant: the report is queued first.
QueueReportFirst(t) ==
    /\ TabAt(t, "queue")
    /\ IF evidence.status = "none"
       THEN /\ evidence' = [evidence EXCEPT !.status = "pending"]
            /\ txOutbox' = txOutbox /\ Step(t, "queue")
       ELSE /\ txOutbox' = IF txOutbox = "none" THEN "pending" ELSE txOutbox
            /\ evidence' = evidence /\ Done(t)
    /\ UNCHANGED <<sessionRowVars, recording, object, transcript, recruiterVars,
                   pageVars, noteVars, worker, billed, asked, faultVars>>

\* The transcript's row; a second one is a unique violation, absorbed.
QueueTranscript(t) ==
    /\ TabAt(t, "queue")
    /\ txOutbox' = IF txOutbox = "none" THEN "pending" ELSE txOutbox
    /\ Step(t, "report")
    /\ UNCHANGED <<sessionRowVars, recording, object, transcript, recruiterVars,
                   pageVars, noteVars, drainVars, faultVars>>

\* The report's row, ON CONFLICT DO NOTHING.
QueueReport(t) ==
    /\ TabAt(t, "report")
    /\ evidence' = IF evidence.status = "none"
                   THEN [evidence EXCEPT !.status = "pending"] ELSE evidence
    /\ Done(t)
    /\ UNCHANGED <<sessionRowVars, mediaVars, recruiterVars, pageVars, noteVars,
                   worker, billed, asked, faultVars>>

\* A refusal after the copy was loaded, which changes nothing; a PUT that fails, or
\* an answer that is typed instead.
GiveUp(t) ==
    /\ \/ TabAt(t, "upsert") /\ recording \notin {"absent", "pending", "uploaded"}
       \/ TabAt(t, "stat") /\ object.len < req[t].copy.size
       \/ req[t].pc \in {"put", "recorded"}
    /\ Done(t)
    /\ UNCHANGED <<sessionRowVars, mediaVars, recruiterVars, pageVars, noteVars,
                   drainVars, faultVars>>

\* Fault: the API process dies, or a statement fails.
RequestDies(t) ==
    /\ InFlight(t)
    /\ Disturb
    /\ died' = TRUE
    /\ Done(t)
    /\ UNCHANGED <<sessionRowVars, mediaVars, recruiterVars, pageVars, noteVars,
                   drainVars>>

-----------------------------------------------------------------------------
(* The transcript pipeline, by its outcome: Notetaker models it            *)

TakeRecording ==
    /\ txOutbox = "pending"
    /\ recording = "uploaded"
    /\ txOutbox' = "processing"
    /\ recording' = "taken"
    /\ UNCHANGED <<sessionRowVars, object, transcript, recruiterVars, tabVars,
                   drainVars, faultVars>>

StoreTranscript ==
    /\ txOutbox = "processing"
    /\ ~transcript
    /\ transcript' = TRUE
    /\ UNCHANGED <<sessionRowVars, recording, object, txOutbox, recruiterVars, tabVars,
                   drainVars, faultVars>>

\* With readable segments or without.
CompleteTranscript ==
    /\ txOutbox = "processing"
    /\ txOutbox' = "completed"
    /\ UNCHANGED <<sessionRowVars, recording, object, transcript, recruiterVars,
                   tabVars, drainVars, faultVars>>

\* The attempts are used up, or the audio cannot be transcribed.
FailTranscript ==
    /\ txOutbox = "processing"
    /\ txOutbox' = "failed"
    /\ UNCHANGED <<sessionRowVars, recording, object, transcript, recruiterVars,
                   tabVars, drainVars, faultVars>>

-----------------------------------------------------------------------------
(* The evidence drain and the recruiter's "generate again"                 *)

WorkerAt(pc) == worker.pc = pc
Pass(pc) == worker' = [worker EXCEPT !.pc = pc]
EndPass == worker' = NoPass
Report(st) == evidence' = [evidence EXCEPT !.status = st]

\* regenerateEvidence: whatever the row's state, it is queued anew.
Regenerate ==
    /\ status = "submitted"
    /\ Disturb
    /\ asked' = asked + 1
    /\ evidence' = [evidence EXCEPT !.status = "pending", !.attempts = 0]
    /\ NoteOverlap(\E t \in Tabs : InFlight(t))
    /\ UNCHANGED <<sessionRowVars, mediaVars, recruiterVars, req, pageVars, worker,
                   billed,
                   died>>

\* A row that is due, or whose pass died below the cap.
Claimable ==
    \/ evidence.status = "pending"
    \/ evidence.status = "processing" /\ evidence.attempts < AttemptCap

Claim ==
    /\ WorkerAt("idle")
    /\ Claimable
    /\ evidence' = [evidence EXCEPT !.status = "processing", !.attempts = @ + 1]
    /\ worker' = [pc |-> "session", attempt |-> evidence.attempts + 1,
                  of |-> EmptyTurn.answer, blind |-> FALSE]
    /\ UNCHANGED <<sessionRowVars, mediaVars, recruiterVars, tabVars, billed, asked,
                   faultVars>>

\* retireExhaustedLeases.
Retire ==
    /\ WorkerAt("idle")
    /\ evidence.status = "processing"
    /\ evidence.attempts >= AttemptCap
    /\ Report("failed")
    /\ UNCHANGED <<sessionRowVars, mediaVars, recruiterVars, tabVars, worker, billed,
                   asked, faultVars>>

\* The tenant has switched the feature off.
SkipDisabled ==
    /\ WorkerAt("session")
    /\ Report("skipped")
    /\ EndPass
    /\ UNCHANGED <<sessionRowVars, mediaVars, recruiterVars, tabVars, billed, asked,
                   faultVars>>

\* The session, which is a terminal error unless it is submitted, and the transcript.
ReadSession ==
    /\ WorkerAt("session")
    /\ IF status = "submitted"
       THEN /\ worker' = [worker EXCEPT !.of = turn.answer, !.pc =
                    IF HasVoice(turn.answer) /\ ~transcript THEN "outbox" ELSE "model"]
            /\ evidence' = evidence
       ELSE Report("failed") /\ EndPass
    /\ UNCHANGED <<sessionRowVars, mediaVars, recruiterVars, tabVars, billed, asked,
                   faultVars>>

StillComing == txOutbox \in {"pending", "processing"}

\* loadTranscriptOutboxStatus: wait, giving the attempt back, or go on without.
ReadOutbox ==
    /\ WorkerAt("outbox")
    /\ IF StillComing
       THEN /\ evidence' = [evidence EXCEPT !.status = "pending",
                                !.attempts = IF @ > 0 THEN @ - 1 ELSE 0]
            /\ EndPass
       ELSE worker' = [worker EXCEPT !.blind = TRUE, !.pc = "model"] /\ evidence' = evidence
    /\ UNCHANGED <<sessionRowVars, mediaVars, recruiterVars, tabVars, billed, asked,
                   faultVars>>

HasText == (\E q \in Questions : worker.of[q] = "typed")
           \/ (HasVoice(worker.of) /\ ~worker.blind)

\* No answer has any text: a report that says so, and no model call.
SkipEmpty ==
    /\ WorkerAt("model")
    /\ ~HasText
    /\ evidence' = [evidence EXCEPT !.status = "skipped", !.of = worker.of,
                                    !.blind = worker.blind]
    /\ EndPass
    /\ UNCHANGED <<sessionRowVars, mediaVars, recruiterVars, tabVars, billed, asked,
                   faultVars>>

CallModel ==
    /\ WorkerAt("model")
    /\ HasText
    /\ billed' = billed + 1
    /\ Pass("write")
    /\ UNCHANGED <<sessionRowVars, mediaVars, recruiterVars, tabVars, evidence, asked,
                   faultVars>>

WriteReport ==
    /\ WorkerAt("write")
    /\ evidence' = [evidence EXCEPT !.status = "done", !.of = worker.of,
                                    !.blind = worker.blind]
    /\ EndPass
    /\ UNCHANGED <<sessionRowVars, mediaVars, recruiterVars, tabVars, billed, asked,
                   faultVars>>

\* Faulty variant: a retry gives its attempt back, as a deferral does.
RequeueFree ==
    /\ WorkerAt("write")
    /\ evidence' = [evidence EXCEPT !.status = "pending", !.attempts = @ - 1]
    /\ EndPass
    /\ UNCHANGED <<sessionRowVars, mediaVars, recruiterVars, tabVars, billed, asked,
                   faultVars>>

\* The call, the parse or the write failed: again, up to the cap.
Requeue ==
    /\ WorkerAt("write")
    /\ Report(IF worker.attempt >= AttemptCap THEN "failed" ELSE "pending")
    /\ EndPass
    /\ UNCHANGED <<sessionRowVars, mediaVars, recruiterVars, tabVars, billed, asked,
                   faultVars>>

\* The answer broke the strict schema: a terminal error.
Reject ==
    /\ WorkerAt("write")
    /\ Report("failed")
    /\ EndPass
    /\ UNCHANGED <<sessionRowVars, mediaVars, recruiterVars, tabVars, billed, asked,
                   faultVars>>

\* Fault: the worker dies; the lease of its claim runs out before the next pass.
WorkerDies ==
    /\ ~WorkerAt("idle")
    /\ Disturb
    /\ died' = TRUE
    /\ EndPass
    /\ UNCHANGED <<sessionRowVars, mediaVars, recruiterVars, tabVars, evidence, billed,
                   asked>>

-----------------------------------------------------------------------------
Recruiter ==
    \/ BeginGenerate \/ CommitGenerate \/ ApproveQuestions
    \/ BeginIssue \/ CommitIssue \/ CancelInterview \/ Regenerate

Candidate(t) ==
    \/ \E kind \in DOMAIN EntryOf : Load(t, kind)
    \/ Lapse(t) \/ GiveUp(t) \/ RequestDies(t)
    \/ \E d \in {"granted", "declined"} : RecordConsent(t, d)
    \/ Start(t) \/ StartRecorder(t) \/ Reload(t) \/ Refresh(t)
    \/ UpsertRecording(t) \/ PutObject(t) \/ StatObject(t) \/ WriteAnswer(t)
    \/ CloseSession(t) \/ StampRecording(t) \/ QueueTranscript(t) \/ QueueReport(t)

Transcription == TakeRecording \/ StoreTranscript \/ CompleteTranscript \/ FailTranscript

Drain ==
    \/ Claim \/ Retire \/ SkipDisabled \/ ReadSession \/ ReadOutbox
    \/ SkipEmpty \/ CallModel \/ WriteReport \/ Requeue \/ Reject

AiNext ==
    \/ Recruiter \/ DeadlinePasses \/ Transcription \/ Drain \/ WorkerDies
    \/ \E t \in Tabs : Candidate(t)

AiSpec == AiInit /\ [][AiNext]_aiVars

-----------------------------------------------------------------------------
(* Properties                                                              *)

Statuses == {"none", "draft", "approved", "issued", "in_progress", "submitted", "expired"}
TurnType == [answer : [Questions -> Answers], size : 0 .. MaxTape]
RequestType ==
    [pc : {"idle", "consent", "start", "upsert", "put", "recorded", "stat", "write",
           "close", "stamp", "queue", "report"},
     kind : {"none", "start", "upload", "typed", "voice", "submit"},
     q : 0 .. NumQuestions, copy : TurnType]
EvidenceType ==
    [status : {"none", "pending", "processing", "done", "skipped", "failed"},
     attempts : 0 .. AttemptCap, of : [Questions -> Answers], blind : BOOLEAN]
PassType ==
    [pc : {"idle", "session", "outbox", "model", "write"}, attempt : 0 .. AttemptCap,
     of : [Questions -> Answers], blind : BOOLEAN]

\* Every variable keeps the shape of the columns it stands for.
AiTypeOK ==
    /\ {cancelled, transcript, generating, issuing, died, overlapped, missed} \subseteq BOOLEAN
    /\ unaware \in SUBSET Tabs
    /\ status \in Statuses
    /\ questions \in 0 .. MaxDisturbances + 1
    /\ sets \in 0 .. MaxDisturbances + 1
    /\ disturbances \in 0 .. MaxDisturbances
    /\ deadline \in {"none", "ahead", "late", "past"}
    /\ turn \in TurnType
    /\ acked \in [Questions -> Answers]
    /\ consent \in {"none", "granted", "declined"}
    /\ recording \in {"absent", "pending", "uploaded", "taken"}
    /\ object \in [by : Tabs \union {"nobody"}, len : 0 .. MaxTape]
    /\ txOutbox \in {"none", "pending", "processing", "completed", "failed"}
    /\ evidence \in EvidenceType
    /\ tape \in [Tabs -> 0 .. MaxTape]
    /\ req \in [Tabs -> RequestType]
    /\ worker \in PassType
    /\ billed \in Nat
    /\ asked \in 0 .. MaxDisturbances

\* Unless requests of the candidate overlapped, every answer the candidate was told
\* was saved is on the row, as it was given (recordAnswer answers before it knows).
AnswersKept ==
    ~overlapped => \A q \in Questions : acked[q] # "none" => turn.answer[q] = acked[q]

\* With one page recording at a time, started on a page that had missed no answer, and
\* even when it is loaded again, the stored audio is the recording the spoken answers
\* were given in and is as long as it was at the last of them (the upload replaces the
\* round's only object).
AudioKept ==
    ~overlapped /\ ~missed =>
        \A q \in Questions : turn.answer[q] \in Tabs =>
            object.by = turn.answer[q] /\ object.len >= turn.size

\* The questions a human approved are the ones that are asked: a generation that was under
\* way when they were approved does not replace them (the guard of its UPDATE).
ApprovedSetStands == [][status \notin {"none", "draft"} => questions' = questions]_aiVars

\* A round that was submitted undisturbed has its report queued and, with a spoken
\* answer, its transcript (submitSession's statements after the status).
SubmittedIsQueued ==
    (/\ status = "submitted" /\ ~overlapped /\ ~died
     /\ ~\E t \in Tabs : InFlight(t)) =>
        /\ evidence.status # "none"
        /\ HasVoice(turn.answer) => txOutbox # "none"

\* A report that went on without the spoken words did so because the transcript's
\* row was settled, never because it was not there yet (the order of the enqueues).
NeverBlindTooSoon ==
    (~overlapped /\ ~died /\ evidence.blind) => txOutbox \in {"completed", "failed"}

\* A finished report is about the answers the candidate submitted, although they
\* are read while requests loaded before the submission may still be writing.
ReportOfSubmission ==
    evidence.status = "done" => status = "submitted" /\ evidence.of = turn.answer

\* The model is paid at most AttemptCap times each time a report is asked for,
\* however often the drain waits, fails or dies.
ReportBilledWithinCap == billed <= AttemptCap * (1 + asked)

=============================================================================
