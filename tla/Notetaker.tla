------------------------------ MODULE Notetaker ------------------------------
(***************************************************************************)
(* The interview notetaker: one interview, its recording, its transcript.  *)
(*                                                                         *)
(* A recruiter's browser starts an upload, PUTs the audio straight into    *)
(* object storage with a signed URL and completes the upload               *)
(* (apps/api/src/lib/interview-media-upload.ts); completing queues the one *)
(* transcript_outbox row of the recording.  The drain                      *)
(* (apps/workers/src/lib/transcript-drain.ts) has the audio transcribed by *)
(* a paid vendor, stores the transcript and derives the notes.  A daily    *)
(* sweep (apps/workers/src/jobs/interview-media-purge.ts) deletes audio    *)
(* past its retention.                                                     *)
(*                                                                         *)
(* The API library runs on the pool, outside any transaction, so every     *)
(* statement and storage call of the two mutations is an action, as are    *)
(* those of the drain and the sweep.  A mutation that refuses is a GiveUp. *)
(* One worker process; the lease of a claim (45 min) outlasts a live pass  *)
(* (vendor budget 20 min), so only the rows of dead passes are swept.      *)
(***************************************************************************)
EXTENDS Integers

CONSTANTS
    Sessions,       \* recruiters' browser sessions
    Keys,           \* storage keys of the interview, one per audio container
    AttemptCap,     \* attempt_cap of the outbox row
    MaxStarts,      \* bound: uploads started
    MaxFaults       \* bound: crashes, failed statements, failed deletes

ASSUME NotetakerAssumption ==
    /\ "none" \notin Keys
    /\ AttemptCap \in Nat \ {0}
    /\ MaxStarts \in Nat
    /\ MaxFaults \in Nat

VARIABLES
    requested,  \* interviews.recording_requested
    consent,    \* latest interview_recording_consents decision
    rec,        \* the interview_recordings row
    media,      \* media[k]: the upload whose bytes the object holds, 0: no object
    outbox,     \* status and attempt_count of the transcript_outbox row
    transcript, \* the upload the stored transcript was made from, 0: none
    notes,      \* interview_notes exist
    session,    \* program counter and locals of each session's request
    worker,     \* program counter and locals of the drain
    purge,      \* program counter and locals of the retention sweep
    expired,    \* the interview is past its retention window
    starts,     \* uploads started so far
    faults,     \* faults so far
    billed,     \* history: transcriptions the vendor has billed
    permitted,  \* history: recording has been permitted at some time
    reopened,   \* history: a recording may have lost its mark of being transcribed
    crossed     \* history: an upload has overlapped another one in a different
                \* container, or the sweep, or has left an old object behind

dbVars == <<rec, media, outbox, transcript, notes>>
actorVars == <<session, worker, purge>>
consentVars == <<requested, consent, permitted>>
historyVars == <<reopened, crossed>>
countVars == <<expired, starts, faults, billed, historyVars>>
vars == <<dbVars, actorVars, consentVars, countVars>>

NoRecording == [status |-> "absent", key |-> "none", purged |-> FALSE]
NoRequest == [pc |-> "idle", key |-> "none", old |-> "none", upload |-> 0]
NoPass == [pc |-> "idle", key |-> "none", got |-> 0, terminal |-> FALSE]
NoPurge == [pc |-> "idle", key |-> "none"]

Init ==
    /\ requested = FALSE
    /\ consent = "none"
    /\ rec = NoRecording
    /\ media = [k \in Keys |-> 0]
    /\ outbox = [status |-> "absent", attempts |-> 0]
    /\ transcript = 0
    /\ notes = FALSE
    /\ session = [s \in Sessions |-> NoRequest]
    /\ worker = NoPass
    /\ purge = NoPurge
    /\ expired = FALSE
    /\ starts = 0
    /\ faults = 0
    /\ billed = 0
    /\ permitted = FALSE
    /\ reopened = FALSE
    /\ crossed = FALSE

Recording(status) == rec' = [rec EXCEPT !.status = status]
Row(status) == outbox' = [outbox EXCEPT !.status = status]

-----------------------------------------------------------------------------
(* Permission to record: the recruiter's toggle and the candidate's answer *)

\* Faulty variant: the recruiter's toggle is enough.
CanRecordUnasked == requested

\* canRecordInterview: both, or no recording.
CanRecord == requested /\ consent = "granted"

SetRequested(value) ==
    /\ requested' = value
    /\ permitted' = (permitted \/ (value /\ consent = "granted"))
    /\ UNCHANGED <<consent, dbVars, actorVars, countVars>>

\* An append-only log; the latest decision wins.
RecordConsent(decision) ==
    /\ consent' = decision
    /\ permitted' = (permitted \/ (requested /\ decision = "granted"))
    /\ UNCHANGED <<requested, dbVars, actorVars, countVars>>

-----------------------------------------------------------------------------
(* startUpload                                                             *)

At(s, pc) == session[s].pc = pc
Step(s, pc) == session' = [session EXCEPT ![s].pc = pc]

\* Nothing has been derived from the media of such a recording.
Restartable == rec.status \in {"pending", "uploaded"} /\ ~rec.purged

\* The recording of s and the objects of its containers are about to change.
Uploading(s) == session[s].pc \in {"upsert", "clean", "put"}

\* The gate and the read of the row that is there.
StartUpload(s, key) ==
    /\ At(s, "idle")
    /\ starts < MaxStarts
    /\ CanRecord
    /\ rec = NoRecording \/ Restartable
    /\ starts' = starts + 1
    /\ session' = [session EXCEPT ![s] =
            [pc |-> "upsert", key |-> key, old |-> rec.key, upload |-> starts + 1]]
    /\ crossed' = \/ crossed
                  \/ purge # NoPurge
                  \/ \E u \in Sessions \ {s} : Uploading(u) /\ session[u].key # key
    /\ UNCHANGED <<dbVars, worker, purge, consentVars, expired, faults, billed, reopened>>

\* Faulty variant: the key to clean up is read back after the write.
UpsertThenRead(s) ==
    /\ At(s, "upsert")
    /\ rec = NoRecording \/ Restartable
    /\ rec' = [status |-> "pending", key |-> session[s].key, purged |-> FALSE]
    /\ session' = [session EXCEPT ![s].pc = "clean", ![s].old = session[s].key]
    /\ UNCHANGED <<media, outbox, transcript, notes, worker, purge, consentVars, countVars>>

\* INSERT ... ON CONFLICT DO UPDATE ... WHERE still restartable.
UpsertRecording(s) ==
    /\ At(s, "upsert")
    /\ rec = NoRecording \/ Restartable
    /\ rec' = [status |-> "pending", key |-> session[s].key, purged |-> FALSE]
    /\ Step(s, "clean")
    /\ UNCHANGED <<media, outbox, transcript, notes, worker, purge, consentVars, countVars>>

\* The object of an earlier attempt in another container; then the signed URL.
DeleteOldObject(s) ==
    /\ At(s, "clean")
    /\ media' = IF session[s].old \in Keys \ {session[s].key}
                THEN [media EXCEPT ![session[s].old] = 0] ELSE media
    /\ Step(s, "put")
    /\ UNCHANGED <<rec, outbox, transcript, notes, worker, purge, consentVars, countVars>>

\* The browser's PUT; a later upload to the same key replaces the bytes.
Put(s) ==
    /\ At(s, "put")
    /\ media' = [media EXCEPT ![session[s].key] = session[s].upload]
    /\ Step(s, "complete")
    /\ UNCHANGED <<rec, outbox, transcript, notes, worker, purge, consentVars, countVars>>

-----------------------------------------------------------------------------
(* completeUpload                                                          *)

\* The gate again, and the checks on the row that is there.
CompleteUpload(s) ==
    /\ At(s, "complete")
    /\ CanRecord
    /\ rec.key # "none"
    /\ ~rec.purged
    /\ rec.status \notin {"transcribing", "transcribed", "failed"}
    /\ session' = [session EXCEPT ![s].pc = "stat", ![s].key = rec.key]
    /\ UNCHANGED <<dbVars, worker, purge, consentVars, countVars>>

\* An object is there.
StatObject(s) ==
    /\ At(s, "stat")
    /\ media[session[s].key] # 0
    /\ Step(s, "stamp")
    /\ UNCHANGED <<dbVars, worker, purge, consentVars, countVars>>

\* It is over the size cap: it is deleted and the call refused.
RejectObject(s) ==
    /\ At(s, "stat")
    /\ media[session[s].key] # 0
    /\ media' = [media EXCEPT ![session[s].key] = 0]
    /\ session' = [session EXCEPT ![s] = NoRequest]
    /\ UNCHANGED <<rec, outbox, transcript, notes, worker, purge, consentVars, countVars>>

\* UPDATE ... SET status = 'uploaded' WHERE id: whatever the status is by now.
StampUploaded(s) ==
    /\ At(s, "stamp")
    /\ Recording("uploaded")
    /\ Step(s, "enqueue")
    /\ reopened' = (reopened \/ rec.status \notin {"pending", "uploaded"})
    /\ UNCHANGED <<media, outbox, transcript, notes, worker, purge, consentVars,
                   expired, starts, faults, billed, crossed>>

\* At most one row per recording, ever: a second INSERT is absorbed.
EnqueueTranscript(s) ==
    /\ At(s, "enqueue")
    /\ IF outbox.status = "absent" THEN Row("pending") ELSE UNCHANGED outbox
    /\ session' = [session EXCEPT ![s] = NoRequest]
    /\ UNCHANGED <<rec, media, transcript, notes, worker, purge, consentVars, countVars>>

\* The call is refused, or the browser goes away between two of them.
GiveUp(s) ==
    /\ session[s].pc \in {"upsert", "put", "complete", "stat"}
    /\ session' = [session EXCEPT ![s] = NoRequest]
    /\ UNCHANGED <<dbVars, worker, purge, consentVars, countVars>>

\* The API process dies, or a statement fails, inside a call.
RequestDies(s) ==
    /\ session[s].pc \in {"clean", "stamp", "enqueue"}
    /\ faults < MaxFaults
    /\ faults' = faults + 1
    /\ crossed' = (crossed \/ At(s, "clean"))
    /\ session' = [session EXCEPT ![s] = NoRequest]
    /\ UNCHANGED <<dbVars, worker, purge, consentVars, expired, starts, billed, reopened>>

\* The best-effort delete of the old object fails; the upload goes on.
OldObjectStays(s) ==
    /\ At(s, "clean")
    /\ faults < MaxFaults
    /\ faults' = faults + 1
    /\ crossed' = TRUE
    /\ Step(s, "put")
    /\ UNCHANGED <<dbVars, worker, purge, consentVars, expired, starts, billed, reopened>>

-----------------------------------------------------------------------------
(* The transcript drain                                                    *)

Pass(pc) == worker' = [worker EXCEPT !.pc = pc]

Claim ==
    /\ worker = NoPass
    /\ outbox.status = "pending"
    /\ outbox' = [status |-> "processing", attempts |-> outbox.attempts + 1]
    /\ Pass("read")
    /\ UNCHANGED <<rec, media, transcript, notes, session, purge, consentVars, countVars>>

\* Faulty variant: a transcribed recording is taken through the vendor again.
BranchAgain ==
    CASE rec.purged -> IF transcript # 0 THEN "notes" ELSE "complete"
      [] ~rec.purged /\ rec.status = "pending" -> "defer"
      [] ~rec.purged /\ rec.status = "failed" -> "fail"
      [] OTHER -> "advance"

\* What the drain does with the recording it reads.
Branch ==
    CASE rec.purged \/ rec.status = "transcribed" ->
            IF transcript # 0 THEN "notes" ELSE "complete"
      [] ~rec.purged /\ rec.status = "pending" -> "defer"
      [] ~rec.purged /\ rec.status = "failed" -> "fail"
      [] OTHER -> "advance"

ReadRecording ==
    /\ worker.pc = "read"
    /\ worker' = [worker EXCEPT !.pc = Branch, !.key = rec.key]
    /\ UNCHANGED <<dbVars, session, purge, consentVars, countVars>>

\* Nothing was tried: the attempt is given back.
Defer ==
    /\ worker.pc = "defer"
    /\ outbox' = [status |-> "pending",
                  attempts |-> IF outbox.attempts > 0 THEN outbox.attempts - 1 ELSE 0]
    /\ worker' = NoPass
    /\ UNCHANGED <<rec, media, transcript, notes, session, purge, consentVars, countVars>>

\* setRecordingStatus(..., 'transcribing'), by id.
Advance ==
    /\ worker.pc = "advance"
    /\ Recording("transcribing")
    /\ Pass("fetch")
    /\ UNCHANGED <<media, outbox, transcript, notes, session, purge, consentVars, countVars>>

\* A missing object is a terminal error.
FetchMedia ==
    /\ worker.pc = "fetch"
    /\ worker' = IF media[worker.key] # 0
                 THEN [worker EXCEPT !.pc = "asr", !.got = media[worker.key]]
                 ELSE [worker EXCEPT !.pc = "catch", !.terminal = TRUE]
    /\ UNCHANGED <<dbVars, session, purge, consentVars, countVars>>

Transcribe ==
    /\ worker.pc = "asr"
    /\ billed' = billed + 1
    /\ Pass("insert")
    /\ UNCHANGED <<dbVars, session, purge, consentVars, expired, starts, faults, historyVars>>

\* One transcript per interview: the INSERT of a second one is absorbed.
InsertTranscript ==
    /\ worker.pc = "insert"
    /\ transcript' = IF transcript = 0 THEN worker.got ELSE transcript
    /\ Pass("stamp")
    /\ UNCHANGED <<rec, media, outbox, notes, session, purge, consentVars, countVars>>

StampTranscribed ==
    /\ worker.pc = "stamp"
    /\ Recording("transcribed")
    /\ Pass("notes")
    /\ UNCHANGED <<media, outbox, transcript, notes, session, purge, consentVars, countVars>>

\* Notes are generated, or switched off for the tenant.
GenerateNotes ==
    /\ worker.pc = "notes"
    /\ notes' \in {notes, TRUE}
    /\ Pass("complete")
    /\ UNCHANGED <<rec, media, outbox, transcript, session, purge, consentVars, countVars>>

\* The row of a recording found 'failed' is failed; with one row per recording
\* and one worker, no row is left to find it so.
CloseRow ==
    /\ worker.pc \in {"complete", "fail"}
    /\ Row(IF worker.pc = "complete" THEN "completed" ELSE "failed")
    /\ worker' = NoPass
    /\ UNCHANGED <<rec, media, transcript, notes, session, purge, consentVars, countVars>>

-----------------------------------------------------------------------------
(* The drain: errors, crashes and the orphan sweep                         *)

\* Storage, the vendor or the model throws, or its answer does not parse; a vendor
\* that throws may have billed.
VendorThrows(terminal) ==
    /\ worker.pc \in {"fetch", "asr", "insert", "notes"}
    /\ worker.pc = "insert" => terminal
    /\ worker' = [worker EXCEPT !.pc = "catch", !.terminal = terminal]
    /\ billed' \in IF worker.pc = "asr" THEN {billed, billed + 1} ELSE {billed}
    /\ UNCHANGED <<dbVars, session, purge, consentVars, expired, starts, faults, historyVars>>

Statements == {"read", "defer", "fail", "advance", "insert", "stamp", "complete"}

\* A database statement throws: retried up to the cap.
StatementThrows ==
    /\ worker.pc \in Statements
    /\ faults < MaxFaults
    /\ faults' = faults + 1
    /\ reopened' = (reopened \/ worker.pc = "stamp")
    /\ worker' = [worker EXCEPT !.pc = "catch", !.terminal = FALSE]
    /\ UNCHANGED <<dbVars, session, purge, consentVars, expired, starts, billed, crossed>>

\* Faulty variant: one attempt too many.
GivesUpLate == worker.terminal \/ outbox.attempts > AttemptCap

GivesUp == worker.terminal \/ outbox.attempts >= AttemptCap

\* Catch block, nothing left to try: the row first, then the recording.
CatchFail ==
    /\ worker.pc = "catch"
    /\ GivesUp
    /\ Row("failed")
    /\ Pass("relabel_failed")
    /\ UNCHANGED <<rec, media, transcript, notes, session, purge, consentVars, countVars>>

\* setRecordingStatusIfTranscribing.
RelabelIfTranscribing(to) ==
    rec' = IF rec.status = "transcribing" THEN [rec EXCEPT !.status = to] ELSE rec

RelabelFailed ==
    /\ worker.pc = "relabel_failed"
    /\ RelabelIfTranscribing("failed")
    /\ worker' = NoPass
    /\ UNCHANGED <<media, outbox, transcript, notes, session, purge, consentVars, countVars>>

\* Catch block, another try: the recording first, then the row.
CatchRetry ==
    /\ worker.pc = "catch"
    /\ ~GivesUp
    /\ RelabelIfTranscribing("uploaded")
    /\ Pass("requeue")
    /\ UNCHANGED <<media, outbox, transcript, notes, session, purge, consentVars, countVars>>

\* The relabelling itself fails, which the catch block ignores.
RelabelThrows ==
    /\ worker.pc = "catch"
    /\ ~GivesUp
    /\ faults < MaxFaults
    /\ faults' = faults + 1
    /\ Pass("requeue")
    /\ UNCHANGED <<dbVars, session, purge, consentVars, expired, starts, billed, historyVars>>

\* Faulty variant: a failed attempt is given back like a deferred one.
RequeueFree ==
    /\ worker.pc = "requeue"
    /\ outbox' = [status |-> "pending", attempts |-> outbox.attempts - 1]
    /\ worker' = NoPass
    /\ UNCHANGED <<rec, media, transcript, notes, session, purge, consentVars, countVars>>

Requeue ==
    /\ worker.pc = "requeue"
    /\ Row("pending")
    /\ worker' = NoPass
    /\ UNCHANGED <<rec, media, transcript, notes, session, purge, consentVars, countVars>>

\* The worker process dies, with the drain and the sweep, or the catch block's
\* own UPDATE throws out of the pass: the row stays 'processing'.
Crash ==
    /\ worker # NoPass
    /\ faults < MaxFaults
    /\ faults' = faults + 1
    /\ reopened' = (reopened \/ worker.pc = "stamp")
    /\ worker' = NoPass
    /\ purge' \in {purge, NoPurge}
    /\ UNCHANGED <<dbVars, session, consentVars, expired, starts, billed, crossed>>

\* 45 minutes after the claim of a pass that died.
RecoverOrphan ==
    /\ worker = NoPass
    /\ outbox.status = "processing"
    /\ Row(IF outbox.attempts >= AttemptCap THEN "failed" ELSE "pending")
    /\ UNCHANGED <<rec, media, transcript, notes, actorVars, consentVars, countVars>>

-----------------------------------------------------------------------------
(* The retention sweep                                                     *)

\* Retention runs out, counted from the end of the interview.
Expire ==
    /\ ~expired
    /\ expired' = TRUE
    /\ UNCHANGED <<dbVars, actorVars, consentVars, starts, faults, billed, historyVars>>

\* Faulty variant: any outbox row counts as active.
QueuedEver == outbox.status # "absent"

Queued == outbox.status \in {"pending", "processing"}

\* The candidate query spares media with an active outbox row.
PurgeSelect ==
    /\ purge = NoPurge
    /\ expired
    /\ ~rec.purged
    /\ rec.key # "none"
    /\ ~Queued
    /\ purge' = [pc |-> "delete", key |-> rec.key]
    /\ crossed' = (crossed \/ \E s \in Sessions : Uploading(s))
    /\ UNCHANGED <<dbVars, session, worker, consentVars, expired, starts, faults, billed,
                   reopened>>

PurgeDelete ==
    /\ purge.pc = "delete"
    /\ media' = [media EXCEPT ![purge.key] = 0]
    /\ purge' = [purge EXCEPT !.pc = "stamp"]
    /\ UNCHANGED <<rec, outbox, transcript, notes, session, worker, consentVars, countVars>>

PurgeStamp ==
    /\ purge.pc = "stamp"
    /\ rec' = IF rec.purged THEN rec ELSE [rec EXCEPT !.key = "none", !.purged = TRUE]
    /\ purge' = NoPurge
    /\ UNCHANGED <<media, outbox, transcript, notes, session, worker, consentVars, countVars>>

\* Storage refuses the delete: left to the next pass.
PurgeFails ==
    /\ purge # NoPurge
    /\ faults < MaxFaults
    /\ faults' = faults + 1
    /\ purge' = NoPurge
    /\ UNCHANGED <<dbVars, session, worker, consentVars, expired, starts, billed, historyVars>>

-----------------------------------------------------------------------------
Upload(s) ==
    \/ \E key \in Keys : StartUpload(s, key)
    \/ UpsertRecording(s) \/ DeleteOldObject(s) \/ Put(s)
    \/ CompleteUpload(s) \/ StatObject(s) \/ RejectObject(s)
    \/ StampUploaded(s) \/ EnqueueTranscript(s)
    \/ GiveUp(s) \/ RequestDies(s) \/ OldObjectStays(s)

Drain ==
    \/ Claim \/ ReadRecording \/ Defer \/ Advance \/ FetchMedia
    \/ Transcribe \/ InsertTranscript \/ StampTranscribed \/ GenerateNotes
    \/ CloseRow \/ CatchFail \/ RelabelFailed \/ CatchRetry \/ Requeue
    \/ RecoverOrphan

Purge == PurgeSelect \/ PurgeDelete \/ PurgeStamp

Next ==
    \/ \E value \in BOOLEAN : SetRequested(value)
    \/ \E decision \in {"granted", "refused"} : RecordConsent(decision)
    \/ \E s \in Sessions : Upload(s)
    \/ Drain
    \/ \E terminal \in BOOLEAN : VendorThrows(terminal)
    \/ StatementThrows \/ RelabelThrows \/ Crash
    \/ Expire \/ Purge \/ PurgeFails

Spec == Init /\ [][Next]_vars

\* The drain loop and the daily sweep run as long as the worker does.
\* Recruiters and candidates owe nothing, and retention need not run out.
FairSpec == Spec /\ WF_vars(Drain) /\ WF_vars(Purge)

-----------------------------------------------------------------------------
(* Properties                                                              *)

WorkerStep ==
    Statements \union {"idle", "fetch", "asr", "notes", "catch",
                       "relabel_failed", "requeue"}

TypeOK ==
    /\ requested \in BOOLEAN
    /\ consent \in {"none", "granted", "refused"}
    /\ rec \in [status : {"absent", "pending", "uploaded", "transcribing",
                          "transcribed", "failed"},
                key : Keys \union {"none"}, purged : BOOLEAN]
    /\ media \in [Keys -> 0 .. MaxStarts]
    /\ outbox \in [status : {"absent", "pending", "processing", "completed", "failed"},
                   attempts : 0 .. AttemptCap]
    /\ transcript \in 0 .. MaxStarts
    /\ notes \in BOOLEAN
    /\ session \in [Sessions ->
            [pc : {"idle", "upsert", "clean", "put", "complete", "stat", "stamp", "enqueue"},
             key : Keys \union {"none"}, old : Keys \union {"none"}, upload : 0 .. MaxStarts]]
    /\ worker \in [pc : WorkerStep, key : Keys \union {"none"},
                   got : 0 .. MaxStarts, terminal : BOOLEAN]
    /\ purge \in [pc : {"idle", "delete", "stamp"}, key : Keys \union {"none"}]
    /\ expired \in BOOLEAN
    /\ starts \in 0 .. MaxStarts
    /\ faults \in 0 .. MaxFaults
    /\ billed \in Nat
    /\ permitted \in BOOLEAN
    /\ reopened \in BOOLEAN
    /\ crossed \in BOOLEAN

\* No recording enters the pipeline of an interview that nobody was ever
\* allowed to record (interview-recording-consent.ts, canRecordInterview).
ConsentFirst == rec # NoRecording \/ transcript # 0 => permitted

\* Audio whose transcript is stored is not sent to the vendor again, whatever is
\* uploaded again and whatever fails, unless the recording lost the mark that says so:
\* a completion under way wrote 'uploaded' over the pipeline's status, or the pass ended
\* between the INSERT and the mark (transcript-drain.ts, the already-transcribed branch
\* and the error path; interview-media-upload.ts, the UPDATE by id).
NoSecondBill == [][billed' # billed /\ transcript # 0 => reopened]_vars

\* The vendor bills a recording at most attempt_cap times, deferrals, retries, calls
\* that throw and orphaned passes included.
BilledWithinCap == billed <= AttemptCap

\* A stored transcript is never replaced or deleted, whatever is uploaded,
\* retried or purged later.
TranscriptKept == [][transcript # 0 => transcript' = transcript]_vars

\* The row of a recording waits for an upload that has started and not completed: it
\* is deferred, free of charge, for as long as that takes.
AwaitsUpload == Queued /\ rec.status = "pending"

\* A queued recording is finished or given up in the end, through vendor errors, failed
\* statements, crashes and orphaned passes, unless it comes to wait for a re-upload
\* that somebody started (transcript-drain.ts, the catch block and the claim).
OutboxSettles ==
    (outbox.status = "pending") ~> (outbox.status \in {"completed", "failed"} \/ AwaitsUpload)

\* An object is one that the recording names, or one that an upload to another container
\* has just replaced and deletes next: the sweep, which goes by the key of the recording,
\* overlooks no audio, unless an upload to another container, or the sweep, came between
\* the steps of an upload, or the delete of the old object was lost
\* (interview-media-upload.ts, startUpload; interview-media-purge.ts).
AudioIsNamed ==
    ~crossed =>
        \A k \in Keys : media[k] # 0 =>
            \/ rec.key = k /\ ~rec.purged
            \/ \E s \in Sessions : At(s, "clean") /\ session[s].old = k

\* Audio past its retention is deleted in the end, through failed deletes and crashes,
\* unless audio was lost from sight as above, or the row waits for a re-upload
\* (interview-media-purge.ts, the candidate query and its reasons).
RetentionHonoured == expired ~> (crossed \/ (\A k \in Keys : media[k] = 0) \/ AwaitsUpload)
=============================================================================
