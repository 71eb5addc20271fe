-------------------------- MODULE Notetaker_proofs --------------------------
(***************************************************************************)
(* What holds of recordings and their transcripts, for any number of       *)
(* sessions, containers, attempts, uploads and failures.                   *)
(*                                                                         *)
(* The bound on what is paid for is a matter of bookkeeping: an attempt is *)
(* counted when the row is claimed and given back when nothing was tried,  *)
(* so the count runs ahead of the bill exactly while a pass may still      *)
(* reach the vendor, and a row goes back to the queue only below the cap.  *)
(***************************************************************************)
EXTENDS Notetaker, TLAPS

-----------------------------------------------------------------------------
(* Typing                                                                  *)

RecStatus == {"absent", "pending", "uploaded", "transcribing", "transcribed", "failed"}
RowStatus == {"absent", "pending", "processing", "completed", "failed"}
Recordings == [status : RecStatus, key : Keys \union {"none"}, purged : BOOLEAN]
SessionStep == {"idle", "upsert", "clean", "put", "complete", "stat", "stamp", "enqueue"}
SessionStates ==
    [pc : SessionStep, key : Keys \union {"none"}, old : Keys \union {"none"},
     upload : 0 .. MaxStarts]
Passes ==
    [pc : WorkerStep, key : Keys \union {"none"}, got : 0 .. MaxStarts, terminal : BOOLEAN]

ApiTyped ==
    /\ requested \in BOOLEAN /\ consent \in {"none", "granted", "refused"}
    /\ permitted \in BOOLEAN
    /\ session \in [Sessions -> SessionStates]
    /\ starts \in 0 .. MaxStarts

StoreTyped ==
    /\ rec \in Recordings
    /\ media \in [Keys -> 0 .. MaxStarts]
    /\ transcript \in 0 .. MaxStarts
    /\ notes \in BOOLEAN

\* The bounds on attempts are a matter of BillInv.
PassTyped ==
    /\ outbox \in [status : RowStatus, attempts : Nat]
    /\ worker \in Passes
    /\ billed \in Nat

CountsTyped ==
    /\ purge \in [pc : {"idle", "delete", "stamp"}, key : Keys \union {"none"}]
    /\ expired \in BOOLEAN
    /\ faults \in 0 .. MaxFaults
    /\ reopened \in BOOLEAN /\ crossed \in BOOLEAN

TypeInv == ApiTyped /\ StoreTyped /\ PassTyped /\ CountsTyped

\* A recording that is there and not purged has a key; what acts on a recording
\* finds one.  It is why the drain fetches an object by a key it really has.
Keyed ==
    /\ rec.status # "absent" /\ ~rec.purged => rec.key \in Keys
    /\ outbox.status # "absent" => rec.status # "absent"
    /\ \A s \in Sessions :
         /\ session[s].pc = "upsert" => session[s].key \in Keys
         /\ session[s].pc \notin {"idle", "upsert"} => rec.status # "absent"
    /\ worker # NoPass => outbox.status # "absent"
    /\ worker.pc \in {"advance", "fetch"} => worker.key \in Keys

\* A browser's call keeps the types of what it writes.
LEMMA UploadTyped ==
  ASSUME TypeInv, NEW s \in Sessions, Upload(s)
  PROVE  TypeInv'
<1> USE NotetakerAssumption DEF TypeInv, ApiTyped, StoreTyped, PassTyped, CountsTyped
<1> USE DEF dbVars, consentVars, countVars, historyVars
<1>0. /\ session[s] \in SessionStates
      /\ starts < MaxStarts => starts + 1 \in 0 .. MaxStarts
  BY DEF ApiTyped
<1>1. ASSUME NEW key \in Keys, StartUpload(s, key)
      PROVE  TypeInv'
  <2>1. [pc |-> "upsert", key |-> key, old |-> rec.key, upload |-> starts + 1] \in SessionStates
    BY <1>0, <1>1 DEF StartUpload, SessionStates, SessionStep, Recordings
  <2>. QED  BY <1>0, <1>1, <2>1 DEF StartUpload
<1>2. ASSUME NEW pc \in SessionStep, Step(s, pc)
      PROVE  session' \in [Sessions -> SessionStates]
  BY <1>0, <1>2 DEF Step, SessionStates
<1>3. NoRequest \in SessionStates
  BY DEF NoRequest, SessionStates, SessionStep
<1>4. CASE UpsertRecording(s)
  <2>1. [status |-> "pending", key |-> session[s].key, purged |-> FALSE] \in Recordings
    BY <1>0 DEF SessionStates, Recordings, RecStatus
  <2>. QED  BY <1>2, <1>4, <2>1 DEF UpsertRecording, SessionStep
<1>5. CASE DeleteOldObject(s)
  <2>0. 0 \in 0 .. MaxStarts
    OBVIOUS
  <2>1. media' \in [Keys -> 0 .. MaxStarts]
    BY <1>5, <2>0 DEF DeleteOldObject
  <2>. QED  BY <1>2, <1>5, <2>1 DEF DeleteOldObject, SessionStep
<1>6. CASE Put(s)
  <2>1. session[s].upload \in 0 .. MaxStarts
    BY <1>0 DEF SessionStates
  <2>2. media' \in [Keys -> 0 .. MaxStarts]
    BY <1>6, <2>1 DEF Put
  <2>. QED  BY <1>2, <1>6, <2>2 DEF Put, SessionStep
<1>7. CASE CompleteUpload(s)
  <2>1. [session[s] EXCEPT !.pc = "stat", !.key = rec.key] \in SessionStates
    BY <1>0 DEF SessionStates, SessionStep, Recordings
  <2>. QED  BY <1>7, <2>1 DEF CompleteUpload
<1>8. CASE StatObject(s)
  BY <1>2, <1>8 DEF StatObject, SessionStep
<1>9. CASE RejectObject(s)
  <2>0. 0 \in 0 .. MaxStarts
    OBVIOUS
  <2>1. media' \in [Keys -> 0 .. MaxStarts]
    BY <1>9, <2>0 DEF RejectObject
  <2>. QED  BY <1>3, <1>9, <2>1 DEF RejectObject
<1>10. CASE StampUploaded(s)
  <2>1. rec' \in Recordings
    BY <1>10 DEF StampUploaded, Recording, Recordings, RecStatus
  <2>. QED  BY <1>2, <1>10, <2>1 DEF StampUploaded, SessionStep
<1>11. CASE EnqueueTranscript(s)
  <2>1. outbox' \in [status : RowStatus, attempts : Nat]
    BY <1>11 DEF EnqueueTranscript, Row, RowStatus
  <2>. QED  BY <1>3, <1>11, <2>1 DEF EnqueueTranscript
<1>12. CASE GiveUp(s)
  BY <1>3, <1>12 DEF GiveUp
<1>13. CASE OldObjectStays(s)
  BY <1>2, <1>13 DEF OldObjectStays, SessionStep
<1>14. CASE RequestDies(s)
  <2>1. crossed' \in BOOLEAN /\ faults' \in 0 .. MaxFaults
    BY <1>14 DEF RequestDies
  <2>. QED  BY <1>3, <1>14, <2>1 DEF RequestDies
<1>. QED  BY <1>1, <1>4, <1>5, <1>6, <1>7, <1>8, <1>9, <1>10, <1>11, <1>12, <1>13,
             <1>14 DEF Upload

\* A browser's call leaves every recording that is acted on with its key.
LEMMA UploadKeyed ==
  ASSUME TypeInv, Keyed, NEW s \in Sessions, Upload(s)
  PROVE  Keyed'
<1> USE DEF dbVars, consentVars, countVars, Keyed
<1>0. /\ session \in [Sessions -> SessionStates]
      /\ rec \in Recordings
  BY DEF TypeInv, ApiTyped, StoreTyped
<1>1. ASSUME NEW key \in Keys, StartUpload(s, key)
      PROVE  Keyed'
  BY <1>0, <1>1 DEF StartUpload, SessionStates
<1>2. CASE UpsertRecording(s)
  BY <1>0, <1>2 DEF UpsertRecording, At, Step, SessionStates
<1>3. CASE DeleteOldObject(s) \/ Put(s) \/ StatObject(s) \/ OldObjectStays(s)
  BY <1>0, <1>3 DEF DeleteOldObject, Put, StatObject, OldObjectStays, At, Step, SessionStates
<1>4. CASE CompleteUpload(s)
  BY <1>0, <1>4 DEF CompleteUpload, At, SessionStates
<1>5. CASE RejectObject(s) \/ GiveUp(s) \/ RequestDies(s)
  BY <1>0, <1>5 DEF RejectObject, GiveUp, RequestDies, NoRequest, SessionStates
<1>6. CASE StampUploaded(s)
  BY <1>0, <1>6 DEF StampUploaded, Recording, At, Step, SessionStates, Recordings
<1>7. CASE EnqueueTranscript(s)
  BY <1>0, <1>7 DEF EnqueueTranscript, At, Row, NoRequest, SessionStates
<1>. QED  BY <1>1, <1>2, <1>3, <1>4, <1>5, <1>6, <1>7 DEF Upload

\* A step of the drain keeps the types of what it writes; the object it fetches
\* is one of the interview's.
LEMMA DrainTyped ==
  ASSUME TypeInv, Keyed, Drain
  PROVE  TypeInv'
<1> USE NotetakerAssumption DEF TypeInv, ApiTyped, StoreTyped, PassTyped, CountsTyped
<1> USE DEF dbVars, consentVars, countVars, historyVars, actorVars, Passes, Pass
<1>0. ASSUME NEW status \in RecStatus, Recording(status)
      PROVE  rec' \in Recordings
  BY <1>0 DEF Recording, Recordings
<1>1. ASSUME NEW status \in RowStatus, Row(status)
      PROVE  outbox' \in [status : RowStatus, attempts : Nat]
  BY <1>1 DEF Row
<1>2. NoPass \in Passes
  BY DEF NoPass, WorkerStep
<1>3. ASSUME NEW to \in RecStatus, RelabelIfTranscribing(to)
      PROVE  rec' \in Recordings
  BY <1>3 DEF RelabelIfTranscribing, Recordings
<1>4. CASE Claim
  BY <1>4 DEF Claim, WorkerStep, Statements, RowStatus
<1>5. CASE ReadRecording
  <2>1. Branch \in WorkerStep
    BY DEF Branch, WorkerStep, Statements
  <2>2. rec.key \in Keys \union {"none"}
    BY DEF Recordings
  <2>3. [worker EXCEPT !.pc = Branch, !.key = rec.key] \in Passes
    BY <2>1, <2>2
  <2>. QED  BY <1>5, <2>3 DEF ReadRecording
<1>6. CASE Defer
  BY <1>2, <1>6 DEF Defer, RowStatus
<1>7. CASE Advance
  BY <1>0, <1>7 DEF Advance, RecStatus, WorkerStep
<1>8. CASE FetchMedia
  <2>1. media[worker.key] \in 0 .. MaxStarts
    BY <1>8 DEF FetchMedia, Keyed
  <2>2. worker' \in Passes
    BY <1>8, <2>1 DEF FetchMedia, WorkerStep
  <2>. QED  BY <1>8, <2>2 DEF FetchMedia
<1>9. CASE Transcribe
  BY <1>9 DEF Transcribe, WorkerStep, Statements
<1>10. CASE InsertTranscript
  BY <1>10 DEF InsertTranscript, WorkerStep, Statements
<1>11. CASE StampTranscribed
  BY <1>0, <1>11 DEF StampTranscribed, RecStatus, WorkerStep
<1>12. CASE GenerateNotes
  <2>1. notes' \in BOOLEAN
    BY <1>12 DEF GenerateNotes
  <2>2. worker' \in Passes
    BY <1>12 DEF GenerateNotes, WorkerStep, Statements
  <2>. QED  BY <1>12, <2>1, <2>2 DEF GenerateNotes
<1>13. CASE CloseRow
  BY <1>1, <1>2, <1>13 DEF CloseRow, RowStatus
<1>14. CASE CatchFail
  BY <1>1, <1>14 DEF CatchFail, RowStatus, WorkerStep
<1>15. CASE RelabelFailed
  BY <1>2, <1>3, <1>15 DEF RelabelFailed, RecStatus
<1>16. CASE CatchRetry
  BY <1>3, <1>16 DEF CatchRetry, RecStatus, WorkerStep
<1>17. CASE Requeue
  BY <1>1, <1>2, <1>17 DEF Requeue, RowStatus
<1>18. CASE RecoverOrphan
  BY <1>1, <1>18 DEF RecoverOrphan, RowStatus
<1>. QED  BY <1>4, <1>5, <1>6, <1>7, <1>8, <1>9, <1>10, <1>11, <1>12, <1>13, <1>14, <1>15,
             <1>16, <1>17, <1>18 DEF Drain

\* The drain works on the row of a recording that is there.
LEMMA DrainKeyed ==
  ASSUME TypeInv, Keyed, Drain
  PROVE  Keyed'
<1> USE DEF dbVars, consentVars, countVars, actorVars, Keyed, Pass
<1>0. /\ worker \in Passes
      /\ rec \in Recordings
      /\ outbox \in [status : RowStatus, attempts : Nat]
  BY DEF TypeInv, PassTyped, StoreTyped
<1>1. CASE Claim
  BY <1>0, <1>1 DEF Claim, NoPass
<1>2. CASE ReadRecording
  BY <1>0, <1>2 DEF ReadRecording, Branch, NoPass, Passes
<1>3. CASE Advance \/ StampTranscribed
  BY <1>0, <1>3 DEF Advance, StampTranscribed, Recording, NoPass, Passes, Recordings
<1>4. CASE FetchMedia \/ Transcribe \/ InsertTranscript \/ GenerateNotes
  <2>0. worker.pc # "idle"
    BY <1>4 DEF FetchMedia, Transcribe, InsertTranscript, GenerateNotes
  <2>1. outbox.status # "absent"
    BY <2>0 DEF NoPass
  <2>2. worker'.pc \in {"asr", "catch", "insert", "stamp", "complete"}
    <3>1. CASE FetchMedia
      BY <1>0, <3>1 DEF FetchMedia, Passes
    <3>2. CASE Transcribe \/ InsertTranscript \/ GenerateNotes
      BY <1>0, <3>2 DEF Transcribe, InsertTranscript, GenerateNotes, Passes
    <3>. QED  BY <1>4, <3>1, <3>2
  <2>3. UNCHANGED <<rec, outbox, session>>
    BY <1>4 DEF FetchMedia, Transcribe, InsertTranscript, GenerateNotes
  <2>. QED  BY <2>1, <2>2, <2>3
<1>5. CASE Defer \/ CloseRow \/ Requeue
  BY <1>0, <1>5 DEF Defer, CloseRow, Requeue, Row, NoPass
<1>6. CASE CatchFail
  BY <1>0, <1>6 DEF CatchFail, Row, NoPass, Passes
<1>7. CASE RelabelFailed \/ CatchRetry
  BY <1>0, <1>7 DEF RelabelFailed, CatchRetry, RelabelIfTranscribing, NoPass, Passes, Recordings
<1>8. CASE RecoverOrphan
  BY <1>0, <1>8 DEF RecoverOrphan, Row
<1>. QED  BY <1>1, <1>2, <1>3, <1>4, <1>5, <1>6, <1>7, <1>8 DEF Drain

\* The toggle and the consent, the faults of the worker, and the retention sweep.
Around ==
    \/ \E value \in BOOLEAN : SetRequested(value)
    \/ \E decision \in {"granted", "refused"} : RecordConsent(decision)
    \/ \E terminal \in BOOLEAN : VendorThrows(terminal)
    \/ StatementThrows \/ RelabelThrows \/ Crash
    \/ Expire \/ Purge \/ PurgeFails

\* They keep the types of what they write.
LEMMA AroundTyped ==
  ASSUME TypeInv, Around
  PROVE  TypeInv'
<1> USE NotetakerAssumption DEF TypeInv, ApiTyped, StoreTyped, PassTyped, CountsTyped
<1> USE DEF dbVars, consentVars, countVars, historyVars, actorVars
<1>0. faults < MaxFaults => faults + 1 \in 0 .. MaxFaults
  OBVIOUS
<1>1. CASE \E value \in BOOLEAN : SetRequested(value)
  BY <1>1 DEF SetRequested
<1>2. CASE \E decision \in {"granted", "refused"} : RecordConsent(decision)
  BY <1>2 DEF RecordConsent
<1>3. CASE \E terminal \in BOOLEAN : VendorThrows(terminal)
  <2>1. PICK terminal \in BOOLEAN : VendorThrows(terminal)
    BY <1>3
  <2>2. [worker EXCEPT !.pc = "catch", !.terminal = terminal] \in Passes
    BY DEF Passes, WorkerStep
  <2>. QED  BY <2>1, <2>2 DEF VendorThrows
<1>4. CASE StatementThrows \/ RelabelThrows
  <2>1. /\ [worker EXCEPT !.pc = "catch", !.terminal = FALSE] \in Passes
        /\ [worker EXCEPT !.pc = "requeue"] \in Passes
    BY DEF Passes, WorkerStep
  <2>. QED  BY <1>0, <1>4, <2>1 DEF StatementThrows, RelabelThrows, Pass
<1>5. CASE Crash
  BY <1>0, <1>5 DEF Crash, NoPass, NoPurge, Passes, WorkerStep
<1>6. CASE Expire
  BY <1>6 DEF Expire
<1>7. CASE PurgeSelect
  BY <1>7 DEF PurgeSelect, Recordings
<1>8. CASE PurgeDelete
  <2>0. 0 \in 0 .. MaxStarts
    OBVIOUS
  <2>1. media' \in [Keys -> 0 .. MaxStarts]
    BY <1>8, <2>0 DEF PurgeDelete
  <2>. QED  BY <1>8, <2>1 DEF PurgeDelete
<1>9. CASE PurgeStamp
  BY <1>9 DEF PurgeStamp, NoPurge, Recordings
<1>10. CASE PurgeFails
  BY <1>0, <1>10 DEF PurgeFails, NoPurge
<1>. QED  BY <1>1, <1>2, <1>3, <1>4, <1>5, <1>6, <1>7, <1>8, <1>9, <1>10 DEF Around, Purge

\* None of them takes a recording, or its key, from under an actor that needs it.
LEMMA AroundKeyed ==
  ASSUME TypeInv, Keyed, Around
  PROVE  Keyed'
<1> USE DEF dbVars, consentVars, countVars, actorVars, Keyed
<1>0. worker \in Passes /\ rec \in Recordings
  BY DEF TypeInv, PassTyped, StoreTyped
<1>1. CASE \E value \in BOOLEAN : SetRequested(value)
  BY <1>1 DEF SetRequested
<1>2. CASE \E decision \in {"granted", "refused"} : RecordConsent(decision)
  BY <1>2 DEF RecordConsent
<1>3. CASE \E terminal \in BOOLEAN : VendorThrows(terminal)
  BY <1>0, <1>3 DEF VendorThrows, Passes, NoPass
<1>4. CASE StatementThrows \/ RelabelThrows
  <2>1. outbox.status # "absent"
    BY <1>4 DEF StatementThrows, RelabelThrows, Statements, NoPass
  <2>2. worker'.pc \in {"catch", "requeue"}
    BY <1>0, <1>4 DEF StatementThrows, RelabelThrows, Pass, Passes
  <2>3. UNCHANGED <<rec, outbox, session>>
    BY <1>4 DEF StatementThrows, RelabelThrows
  <2>. QED  BY <2>1, <2>2, <2>3
<1>5. CASE Crash
  BY <1>5 DEF Crash, NoPass
<1>6. CASE Expire \/ PurgeSelect \/ PurgeDelete \/ PurgeFails
  BY <1>6 DEF Expire, PurgeSelect, PurgeDelete, PurgeFails
<1>7. CASE PurgeStamp
  BY <1>0, <1>7 DEF PurgeStamp, Recordings
<1>. QED  BY <1>1, <1>2, <1>3, <1>4, <1>5, <1>6, <1>7 DEF Around, Purge

\* Every reachable state is typed and every recording acted on has its key.
THEOREM Typed == Spec => [](TypeInv /\ Keyed)
<1>1. Init => TypeInv /\ Keyed
  <2>. SUFFICES ASSUME Init
                PROVE  TypeInv /\ Keyed
    OBVIOUS
  <2> USE NotetakerAssumption DEF Init
  <2>0. 0 \in 0 .. MaxStarts /\ 0 \in 0 .. MaxFaults
    OBVIOUS
  <2>1. ApiTyped
    BY <2>0 DEF ApiTyped, NoRequest, SessionStates, SessionStep
  <2>2. StoreTyped
    BY <2>0 DEF StoreTyped, NoRecording, Recordings, RecStatus
  <2>3. PassTyped
    BY <2>0 DEF PassTyped, NoPass, Passes, WorkerStep, RowStatus
  <2>4. CountsTyped
    BY <2>0 DEF CountsTyped, NoPurge
  <2>5. Keyed
    BY DEF Keyed, NoRecording, NoRequest, NoPass
  <2>. QED  BY <2>1, <2>2, <2>3, <2>4, <2>5 DEF TypeInv
<1>2. TypeInv /\ Keyed /\ [Next]_vars => (TypeInv /\ Keyed)'
  <2>. SUFFICES ASSUME TypeInv, Keyed, [Next]_vars
                PROVE  TypeInv' /\ Keyed'
    OBVIOUS
  <2>1. CASE \E s \in Sessions : Upload(s)
    BY <2>1, UploadTyped, UploadKeyed
  <2>2. CASE Drain
    BY <2>2, DrainTyped, DrainKeyed
  <2>3. CASE Around
    BY <2>3, AroundTyped, AroundKeyed
  <2>4. CASE UNCHANGED vars
    BY <2>4 DEF vars, dbVars, actorVars, consentVars, countVars, historyVars, TypeInv,
                Keyed, ApiTyped, StoreTyped, PassTyped, CountsTyped
  <2>. QED  BY <2>1, <2>2, <2>3, <2>4 DEF Next, Around
<1>. QED  BY <1>1, <1>2, PTL DEF Spec

-----------------------------------------------------------------------------
(* What is paid for                                                        *)

\* Places of a pass that holds the claimed row, and those before the vendor.
Working == WorkerStep \ {"idle", "relabel_failed"}
Unbilled == {"read", "defer", "advance", "fetch", "asr"}

\* Every bill belongs to an attempt that was counted when the row was claimed.
BillInv ==
    /\ worker.pc = "idle" <=> worker = NoPass
    /\ outbox.attempts <= AttemptCap
    /\ billed <= outbox.attempts
    /\ outbox.status = "absent" => outbox.attempts = 0
    /\ outbox.status = "pending" \/ worker.pc = "requeue" => outbox.attempts < AttemptCap
    /\ worker.pc \in Working => outbox.status = "processing" /\ outbox.attempts > 0
    /\ worker.pc \in Unbilled => billed < outbox.attempts
    /\ worker.pc = "relabel_failed" => outbox.status = "failed"

\* A browser's call adds the row of a recording that never had one.
LEMMA UploadBills ==
  ASSUME TypeInv, BillInv, NEW s \in Sessions, Upload(s)
  PROVE  BillInv'
<1> USE NotetakerAssumption DEF dbVars, consentVars, countVars, BillInv
<1>0. /\ outbox \in [status : RowStatus, attempts : Nat]
      /\ worker \in Passes
      /\ billed \in Nat
  BY DEF TypeInv, PassTyped
<1>1. CASE EnqueueTranscript(s)
  <2>1. CASE outbox.status = "absent"
    <3>1. worker.pc \notin Working /\ worker.pc # "relabel_failed"
      BY <2>1
    <3>2. worker.pc = "idle"
      BY <1>0, <3>1 DEF Passes, Working
    <3>3. outbox' = [status |-> "pending", attempts |-> 0]
      BY <1>0, <1>1, <2>1 DEF EnqueueTranscript, Row
    <3>. QED  BY <1>0, <1>1, <2>1, <3>2, <3>3 DEF EnqueueTranscript, Working, Unbilled, NoPass
  <2>2. CASE outbox.status # "absent"
    BY <1>1, <2>2 DEF EnqueueTranscript, NoPass
  <2>. QED  BY <2>1, <2>2
<1>2. CASE ~EnqueueTranscript(s)
  <2>1. UNCHANGED <<outbox, worker, billed>>
    BY <1>2 DEF Upload, StartUpload, UpsertRecording, DeleteOldObject, Put, CompleteUpload,
                StatObject, RejectObject, StampUploaded, GiveUp, RequestDies, OldObjectStays
  <2>. QED  BY <2>1 DEF NoPass
<1>. QED  BY <1>1, <1>2

\* A claim counts the attempt, the vendor bills at most one per attempt, a
\* deferral takes back an attempt that was not billed.
LEMMA DrainBills ==
  ASSUME TypeInv, BillInv, Drain
  PROVE  BillInv'
<1> USE NotetakerAssumption
    DEF dbVars, consentVars, countVars, actorVars, BillInv, Working, Unbilled, Pass, NoPass
<1>0. /\ outbox \in [status : RowStatus, attempts : Nat]
      /\ worker \in Passes
      /\ billed \in Nat
  BY DEF TypeInv, PassTyped
<1>1. CASE Claim
  BY <1>0, <1>1 DEF Claim, WorkerStep, Statements, Passes
<1>2. CASE ReadRecording
  <2>1. worker'.pc \in {"notes", "complete", "defer", "fail", "advance"}
    BY <1>0, <1>2 DEF ReadRecording, Branch, Passes
  <2>2. UNCHANGED <<outbox, billed>>
    BY <1>2 DEF ReadRecording
  <2>3. worker.pc = "read"
    BY <1>2 DEF ReadRecording
  <2>. QED  BY <1>0, <2>1, <2>2, <2>3 DEF WorkerStep, Statements
<1>3. CASE Defer
  <2>1. worker.pc \in Working /\ worker.pc \in Unbilled
    BY <1>3 DEF Defer, WorkerStep, Statements
  <2>2. outbox' = [status |-> "pending", attempts |-> outbox.attempts - 1]
    BY <1>0, <1>3, <2>1 DEF Defer
  <2>3. UNCHANGED billed /\ worker' = NoPass
    BY <1>3 DEF Defer
  <2>. QED  BY <1>0, <2>1, <2>2, <2>3
<1>4. CASE Advance
  BY <1>0, <1>4 DEF Advance, WorkerStep, Statements, Passes
<1>5. CASE FetchMedia
  <2>1. worker'.pc \in {"asr", "catch"}
    BY <1>0, <1>5 DEF FetchMedia, Passes
  <2>2. UNCHANGED <<outbox, billed>> /\ worker.pc = "fetch"
    BY <1>5 DEF FetchMedia
  <2>. QED  BY <1>0, <2>1, <2>2 DEF WorkerStep, Statements
<1>6. CASE Transcribe
  <2>1. worker'.pc = "insert"
    BY <1>0, <1>6 DEF Transcribe, Passes
  <2>2. UNCHANGED outbox /\ billed' = billed + 1 /\ worker.pc = "asr"
    BY <1>6 DEF Transcribe
  <2>. QED  BY <1>0, <2>1, <2>2 DEF WorkerStep, Statements
<1>7. CASE InsertTranscript
  BY <1>0, <1>7 DEF InsertTranscript, WorkerStep, Statements, Passes
<1>8. CASE StampTranscribed
  BY <1>0, <1>8 DEF StampTranscribed, WorkerStep, Statements, Passes
<1>15. CASE GenerateNotes
  <2>1. worker'.pc = "complete"
    BY <1>0, <1>15 DEF GenerateNotes, Passes
  <2>2. UNCHANGED <<outbox, billed>> /\ worker.pc = "notes"
    BY <1>15 DEF GenerateNotes
  <2>. QED  BY <1>0, <2>1, <2>2 DEF WorkerStep, Statements
<1>9. CASE CloseRow
  BY <1>0, <1>9 DEF CloseRow, Row
<1>10. CASE CatchFail
  <2>1. worker'.pc = "relabel_failed"
    BY <1>0, <1>10 DEF CatchFail, Passes
  <2>2. outbox' = [status |-> "failed", attempts |-> outbox.attempts] /\ UNCHANGED billed
    BY <1>0, <1>10 DEF CatchFail, Row
  <2>. QED  BY <1>0, <2>1, <2>2
<1>11. CASE RelabelFailed
  BY <1>0, <1>11 DEF RelabelFailed
<1>12. CASE CatchRetry
  <2>1. worker'.pc = "requeue"
    BY <1>0, <1>12 DEF CatchRetry, Passes
  <2>2. UNCHANGED <<outbox, billed>> /\ worker.pc = "catch" /\ outbox.attempts < AttemptCap
    BY <1>0, <1>12 DEF CatchRetry, GivesUp
  <2>. QED  BY <1>0, <2>1, <2>2 DEF WorkerStep, Statements
<1>13. CASE Requeue
  BY <1>0, <1>13 DEF Requeue, Row
<1>14. CASE RecoverOrphan
  BY <1>0, <1>14 DEF RecoverOrphan, Row
<1>. QED  BY <1>1, <1>2, <1>3, <1>4, <1>5, <1>6, <1>7, <1>8, <1>9, <1>10, <1>11, <1>12,
             <1>13, <1>14, <1>15 DEF Drain

\* A fault ends a pass, or takes it past the vendor; a vendor that throws may have billed
\* the attempt, once.
LEMMA AroundBills ==
  ASSUME TypeInv, BillInv, Around
  PROVE  BillInv'
<1> USE NotetakerAssumption
    DEF dbVars, consentVars, countVars, actorVars, BillInv, Working, Unbilled, Pass, NoPass
<1>0. /\ outbox \in [status : RowStatus, attempts : Nat]
      /\ worker \in Passes
      /\ billed \in Nat
  BY DEF TypeInv, PassTyped
<1>1. UNCHANGED outbox
  BY DEF Around, SetRequested, RecordConsent, VendorThrows, StatementThrows, RelabelThrows,
         Crash, Expire, Purge, PurgeSelect, PurgeDelete, PurgeStamp, PurgeFails
<1>2. CASE \/ \E terminal \in BOOLEAN : VendorThrows(terminal)
           \/ StatementThrows
  <2>1. worker'.pc = "catch"
    BY <1>0, <1>2 DEF VendorThrows, StatementThrows, Passes
  <2>2. worker.pc \in Working
    BY <1>2 DEF VendorThrows, StatementThrows, WorkerStep, Statements
  <2>3. billed' \in {billed, billed + 1} /\ (billed' = billed \/ worker.pc = "asr")
    BY <1>2 DEF VendorThrows, StatementThrows
  <2>4. billed' \in Nat /\ billed' <= outbox.attempts
    BY <1>0, <2>3
  <2>. QED  BY <1>0, <1>1, <2>1, <2>2, <2>4 DEF WorkerStep, Statements
<1>3. CASE RelabelThrows
  <2>1. worker'.pc = "requeue"
    BY <1>0, <1>3 DEF RelabelThrows, Passes
  <2>2. worker.pc = "catch" /\ outbox.attempts < AttemptCap
    BY <1>0, <1>3 DEF RelabelThrows, GivesUp
  <2>3. UNCHANGED billed
    BY <1>3 DEF RelabelThrows
  <2>. QED  BY <1>0, <1>1, <2>1, <2>2, <2>3 DEF WorkerStep, Statements
<1>4. CASE Crash
  BY <1>0, <1>1, <1>4 DEF Crash
<1>5. CASE \/ \E value \in BOOLEAN : SetRequested(value)
           \/ \E decision \in {"granted", "refused"} : RecordConsent(decision)
           \/ Expire \/ Purge \/ PurgeFails
  <2>1. UNCHANGED <<worker, billed>>
    BY <1>5 DEF SetRequested, RecordConsent, Expire, Purge, PurgeSelect, PurgeDelete,
                PurgeStamp, PurgeFails
  <2>. QED  BY <1>1, <2>1
<1>. QED  BY <1>2, <1>3, <1>4, <1>5 DEF Around

\* The attempts and the bill of every reachable state.
THEOREM AttemptsCoverBills == Spec => []BillInv
<1>1. Init => BillInv
  BY NotetakerAssumption DEF Init, BillInv, Working, Unbilled, NoPass
<1>2. TypeInv /\ Keyed /\ BillInv /\ [Next]_vars => BillInv'
  <2>. SUFFICES ASSUME TypeInv, Keyed, BillInv, [Next]_vars
                PROVE  BillInv'
    OBVIOUS
  <2>1. CASE \E s \in Sessions : Upload(s)
    BY <2>1, UploadBills
  <2>2. CASE Drain
    BY <2>2, DrainBills
  <2>3. CASE Around
    BY <2>3, AroundBills
  <2>4. CASE UNCHANGED vars
    BY <2>4 DEF vars, dbVars, actorVars, consentVars, countVars, BillInv, NoPass
  <2>. QED  BY <2>1, <2>2, <2>3, <2>4 DEF Next, Around
<1>. QED  BY <1>1, <1>2, Typed, PTL DEF Spec

\* The state keeps its types, and no row is tried more often than its cap.
THEOREM TypeCorrect == Spec => []TypeOK
<1>1. TypeInv /\ BillInv => TypeOK
  BY NotetakerAssumption
     DEF TypeInv, ApiTyped, StoreTyped, PassTyped, CountsTyped, BillInv, TypeOK, Recordings,
         RecStatus, RowStatus, SessionStates, SessionStep, Passes
<1>. QED  BY <1>1, Typed, AttemptsCoverBills, PTL

\* The vendor bills a recording at most attempt_cap times, however the passes
\* over it fail, are retried, deferred or orphaned (transcript-drain.ts).
THEOREM BillsBounded == Spec => []BilledWithinCap
<1>1. TypeInv /\ BillInv => BilledWithinCap
  BY NotetakerAssumption DEF TypeInv, PassTyped, BillInv, BilledWithinCap
<1>. QED  BY <1>1, Typed, AttemptsCoverBills, PTL

-----------------------------------------------------------------------------
(* Who may be recorded, and what is kept                                   *)

\* Nothing has happened to an interview that nobody was allowed to record.
ConsentInv ==
    ~permitted =>
        /\ ~CanRecord
        /\ rec = NoRecording /\ transcript = 0
        /\ outbox.status = "absent"
        /\ worker = NoPass /\ purge = NoPurge
        /\ \A s \in Sessions : session[s].pc = "idle"

\* The gate of startUpload is the only way into the pipeline
\* (interview-recording-consent.ts, canRecordInterview).
THEOREM RecordedWithLeave == Spec => []ConsentFirst
<1>1. Init => ConsentInv
  BY DEF Init, ConsentInv, CanRecord, NoRequest
<1>2. TypeInv /\ ConsentInv /\ [Next]_vars => ConsentInv'
  <2>. SUFFICES ASSUME TypeInv, ConsentInv, [Next]_vars, ~permitted'
                PROVE  ConsentInv'
    BY DEF ConsentInv
  <2> USE DEF dbVars, consentVars, countVars, actorVars
  <2>0. /\ permitted \in BOOLEAN
        /\ session \in [Sessions -> SessionStates]
    BY DEF TypeInv, ApiTyped
  <2>1. ~permitted
    BY <2>0 DEF Next, Around, vars, SetRequested, RecordConsent, VendorThrows, StatementThrows,
           RelabelThrows, Crash, Expire, Purge, PurgeSelect, PurgeDelete, PurgeStamp, PurgeFails,
           Upload, StartUpload, UpsertRecording, DeleteOldObject, Put, CompleteUpload,
           StatObject, RejectObject, StampUploaded, EnqueueTranscript, GiveUp, RequestDies,
           OldObjectStays, Drain, Claim, ReadRecording, Defer, Advance, FetchMedia, Transcribe,
           InsertTranscript, StampTranscribed, GenerateNotes, CloseRow, CatchFail,
           RelabelFailed, CatchRetry, Requeue, RecoverOrphan
  <2> USE <2>1 DEF ConsentInv, NoPass, NoRecording, NoPurge
  <2>2. CASE \E s \in Sessions : Upload(s)
    BY <2>2 DEF Upload, StartUpload, UpsertRecording, DeleteOldObject, Put, CompleteUpload,
           StatObject, RejectObject, StampUploaded, EnqueueTranscript, GiveUp, RequestDies,
           OldObjectStays, At
  <2>3. CASE Drain
    <3>1. worker.pc = "idle" /\ outbox.status = "absent"
      OBVIOUS
    <3>2. CASE Claim \/ RecoverOrphan
      BY <3>1, <3>2 DEF Claim, RecoverOrphan
    <3>3. CASE ~(Claim \/ RecoverOrphan)
      BY <2>3, <3>1, <3>3 DEF Drain, ReadRecording, Defer, Advance, FetchMedia, Transcribe,
             InsertTranscript, StampTranscribed, GenerateNotes, CloseRow, CatchFail,
             RelabelFailed, CatchRetry, Requeue
    <3>. QED  BY <3>2, <3>3
  <2>4. CASE \/ \E value \in BOOLEAN : SetRequested(value)
             \/ \E decision \in {"granted", "refused"} : RecordConsent(decision)
    BY <2>4 DEF SetRequested, RecordConsent, CanRecord
  <2>5. CASE \/ \E terminal \in BOOLEAN : VendorThrows(terminal)
             \/ StatementThrows \/ RelabelThrows \/ Crash
    <3>1. worker.pc = "idle" /\ worker = NoPass
      OBVIOUS
    <3>. QED  BY <2>5, <3>1 DEF VendorThrows, StatementThrows, Statements, RelabelThrows, Crash
  <2>6. CASE Expire \/ Purge \/ PurgeFails
    BY <2>6 DEF Expire, Purge, PurgeSelect, PurgeDelete, PurgeStamp, PurgeFails, CanRecord
  <2>7. CASE UNCHANGED vars
    BY <2>7 DEF vars, CanRecord
  <2>. QED  BY <2>2, <2>3, <2>4, <2>5, <2>6, <2>7 DEF Next
<1>3. TypeInv /\ ConsentInv => ConsentFirst
  BY DEF TypeInv, ApiTyped, ConsentInv, ConsentFirst
<1>. QED  BY <1>1, <1>2, <1>3, Typed, PTL DEF Spec

\* The INSERT of a second transcript is absorbed, and nothing else writes one
\* (transcript-drain.ts; one transcript per interview).
THEOREM FirstTranscriptStands == Spec => TranscriptKept
<1>1. [Next]_vars => (transcript # 0 => transcript' = transcript)
  BY DEF Next, vars, dbVars, actorVars, consentVars, countVars, SetRequested, RecordConsent,
         VendorThrows, StatementThrows, RelabelThrows, Crash, Expire, Purge, PurgeSelect,
         PurgeDelete, PurgeStamp, PurgeFails, Upload, StartUpload, UpsertRecording,
         DeleteOldObject, Put, CompleteUpload, StatObject, RejectObject, StampUploaded,
         EnqueueTranscript, GiveUp, RequestDies, OldObjectStays, Drain, Claim, ReadRecording,
         Defer, Advance, FetchMedia, Transcribe, InsertTranscript, StampTranscribed,
         GenerateNotes, CloseRow, CatchFail, RelabelFailed, CatchRetry, Requeue, RecoverOrphan
<1>. QED  BY <1>1, PTL DEF Spec, TranscriptKept

-----------------------------------------------------------------------------
(* No second bill                                                          *)

\* As long as no recording has lost the mark: a stored transcript shows on the recording, or
\* the pass that stored it is about to say so; and a pass on its way to the vendor has found
\* none.
PaidOnce ==
    ~reopened =>
        /\ transcript # 0 => rec.status = "transcribed" \/ rec.purged \/ worker.pc = "stamp"
        /\ worker.pc \in {"advance", "fetch", "asr", "insert"} => transcript = 0

\* A browser's call: an upload starts over only what is not transcribed, and a completion
\* that writes over the pipeline's status is noted.
LEMMA UploadPaysOnce ==
  ASSUME TypeInv, PaidOnce, NEW s \in Sessions, Upload(s)
  PROVE  PaidOnce'
<1> USE DEF PaidOnce
<1>0. rec \in Recordings /\ reopened \in BOOLEAN
  BY DEF TypeInv, StoreTyped, CountsTyped
<1>1. UNCHANGED <<transcript, worker>>
  BY DEF Upload, StartUpload, UpsertRecording, DeleteOldObject, Put, CompleteUpload,
         StatObject, RejectObject, StampUploaded, EnqueueTranscript, GiveUp, RequestDies,
         OldObjectStays, dbVars
<1>2. ~reopened' => ~reopened
  BY <1>0 DEF Upload, StartUpload, UpsertRecording, DeleteOldObject, Put, CompleteUpload,
         StatObject, RejectObject, StampUploaded, EnqueueTranscript, GiveUp, RequestDies,
         OldObjectStays, countVars, historyVars
<1>3. CASE UpsertRecording(s)
  <2>1. rec.status # "transcribed" /\ ~rec.purged
    BY <1>3 DEF UpsertRecording, Restartable, NoRecording
  <2>. QED  BY <1>1, <1>2, <2>1
<1>4. CASE StampUploaded(s)
  <2>1. /\ rec'.purged = rec.purged
        /\ ~reopened' => rec.status # "transcribed"
    BY <1>0, <1>4 DEF StampUploaded, Recording, Recordings
  <2>. QED  BY <1>1, <1>2, <2>1
<1>5. CASE ~UpsertRecording(s) /\ ~StampUploaded(s)
  <2>1. rec' = rec
    BY <1>5 DEF Upload, StartUpload, DeleteOldObject, Put, CompleteUpload, StatObject,
           RejectObject, EnqueueTranscript, GiveUp, RequestDies, OldObjectStays, dbVars
  <2>. QED  BY <1>1, <1>2, <2>1
<1>. QED  BY <1>3, <1>4, <1>5

\* The drain goes to the vendor for a recording that is not transcribed, and relabels one
\* that it is transcribing only.
LEMMA DrainPaysOnce ==
  ASSUME TypeInv, PaidOnce, Drain
  PROVE  PaidOnce'
<1> USE DEF PaidOnce
<1>0. /\ worker \in Passes
      /\ rec \in Recordings
  BY DEF TypeInv, PassTyped, StoreTyped
<1>1. reopened' = reopened
  BY DEF Drain, Claim, ReadRecording, Defer, Advance, FetchMedia, Transcribe,
         InsertTranscript, StampTranscribed, GenerateNotes, CloseRow, CatchFail,
         RelabelFailed, CatchRetry, Requeue, RecoverOrphan, countVars, historyVars
<1>3. CASE ReadRecording
  <2>1. /\ UNCHANGED <<rec, transcript>> /\ worker.pc = "read"
        /\ worker'.pc = Branch
    BY <1>0, <1>3 DEF ReadRecording, Passes, dbVars
  <2>2. /\ Branch = "advance" => rec.status # "transcribed" /\ ~rec.purged
        /\ Branch \notin {"fetch", "asr", "insert"}
    BY DEF Branch
  <2>. QED  BY <1>1, <2>1, <2>2
<1>4. CASE Advance \/ FetchMedia \/ Transcribe
  <2>1. /\ worker.pc \in {"advance", "fetch", "asr"}
        /\ transcript' = transcript
    BY <1>4 DEF Advance, FetchMedia, Transcribe, dbVars
  <2>. QED  BY <1>1, <2>1
<1>6. CASE InsertTranscript
  <2>1. worker'.pc = "stamp"
    BY <1>0, <1>6 DEF InsertTranscript, Pass, Passes
  <2>. QED  BY <1>1, <2>1
<1>7. CASE StampTranscribed
  <2>1. worker'.pc = "notes" /\ rec'.status = "transcribed"
    BY <1>0, <1>7 DEF StampTranscribed, Pass, Passes, Recording, Recordings
  <2>. QED  BY <1>1, <2>1
<1>8. CASE Claim \/ GenerateNotes \/ Defer \/ CloseRow \/ CatchFail \/ RelabelFailed
           \/ CatchRetry \/ Requeue \/ RecoverOrphan
  <2>1. worker.pc # "stamp" /\ transcript' = transcript
    <3>1. CASE Claim \/ RecoverOrphan
      BY <3>1 DEF Claim, RecoverOrphan, NoPass
    <3>2. CASE GenerateNotes \/ Defer \/ CloseRow \/ CatchFail \/ RelabelFailed
               \/ CatchRetry \/ Requeue
      BY <3>2 DEF GenerateNotes, Defer, CloseRow, CatchFail, RelabelFailed, CatchRetry,
                  Requeue
    <3>. QED  BY <1>8, <3>1, <3>2
  <2>2. /\ rec'.purged = rec.purged
        /\ rec' = rec \/ rec.status = "transcribing"
    BY <1>0, <1>8 DEF Claim, GenerateNotes, Defer, CloseRow, CatchFail, RelabelFailed,
           CatchRetry, Requeue, RecoverOrphan, RelabelIfTranscribing, Recordings
  <2>3. worker'.pc \notin {"advance", "fetch", "asr", "insert"}
    <3>1. CASE Claim \/ GenerateNotes \/ CatchFail \/ CatchRetry
      BY <1>0, <3>1 DEF Claim, GenerateNotes, CatchFail, CatchRetry, Pass, Passes
    <3>2. CASE Defer \/ CloseRow \/ RelabelFailed \/ Requeue \/ RecoverOrphan
      BY <3>2 DEF Defer, CloseRow, RelabelFailed, Requeue, RecoverOrphan, NoPass, actorVars
    <3>. QED  BY <1>8, <3>1, <3>2
  <2>. QED  BY <1>1, <2>1, <2>2, <2>3
<1>. QED  BY <1>3, <1>4, <1>6, <1>7, <1>8 DEF Drain

\* A pass that has stored a transcript stamps it, or its end is noted; the purge keeps the
\* status.
LEMMA AroundPaysOnce ==
  ASSUME TypeInv, PaidOnce, Around
  PROVE  PaidOnce'
<1> USE DEF PaidOnce
<1>0. reopened \in BOOLEAN /\ rec \in Recordings /\ worker \in Passes
  BY DEF TypeInv, StoreTyped, PassTyped, CountsTyped
<1>1. UNCHANGED transcript
  BY DEF Around, SetRequested, RecordConsent, VendorThrows, StatementThrows, RelabelThrows,
         Crash, Expire, Purge, PurgeSelect, PurgeDelete, PurgeStamp, PurgeFails, dbVars
<1>2. rec'.status = rec.status /\ (rec.purged => rec'.purged)
  BY <1>0 DEF Around, SetRequested, RecordConsent, VendorThrows, StatementThrows,
         RelabelThrows, Crash, Expire, Purge, PurgeSelect, PurgeDelete, PurgeStamp,
         PurgeFails, dbVars, Recordings
<1>3. ~reopened' => ~reopened
  BY <1>0 DEF Around, SetRequested, RecordConsent, VendorThrows, StatementThrows,
         RelabelThrows, Crash, Expire, Purge, PurgeSelect, PurgeDelete, PurgeStamp,
         PurgeFails, countVars, historyVars
<1>4. CASE StatementThrows \/ Crash
  <2>1. worker'.pc \in {"catch", "idle"}
    <3>1. CASE StatementThrows
      BY <1>0, <3>1 DEF StatementThrows, Passes
    <3>2. CASE Crash
      BY <3>2 DEF Crash, NoPass
    <3>. QED  BY <1>4, <3>1, <3>2
  <2>2. reopened' = (reopened \/ worker.pc = "stamp")
    BY <1>4 DEF StatementThrows, Crash
  <2>3. worker.pc = "stamp" => reopened'
    BY <2>2
  <2>. QED  BY <1>1, <1>2, <1>3, <2>1, <2>3
<1>5. CASE RelabelThrows \/ \E terminal \in BOOLEAN : VendorThrows(terminal)
  <2>1. worker'.pc \in {"catch", "requeue"} /\ worker.pc # "stamp"
    BY <1>0, <1>5 DEF RelabelThrows, VendorThrows, Pass, Passes
  <2>. QED  BY <1>1, <1>2, <1>3, <2>1
<1>6. CASE \/ \E value \in BOOLEAN : SetRequested(value)
           \/ \E decision \in {"granted", "refused"} : RecordConsent(decision)
           \/ Expire \/ Purge \/ PurgeFails
  <2>1. UNCHANGED worker
    BY <1>6 DEF SetRequested, RecordConsent, Expire, Purge, PurgeSelect, PurgeDelete,
           PurgeStamp, PurgeFails, actorVars
  <2>. QED  BY <1>1, <1>2, <1>3, <2>1
<1>. QED  BY <1>4, <1>5, <1>6 DEF Around

\* Audio whose transcript is stored is not sent to the vendor again, for any number of
\* browsers, uploads, retries, crashes and failed statements, unless the recording has lost
\* the mark that says so (transcript-drain.ts; interview-media-upload.ts).
THEOREM NothingBilledTwice == Spec => NoSecondBill
<1>1. Init => PaidOnce
  BY DEF Init, PaidOnce, NoPass
<1>2. TypeInv /\ PaidOnce /\ [Next]_vars => PaidOnce'
  <2> SUFFICES ASSUME TypeInv, PaidOnce, [Next]_vars
               PROVE  PaidOnce'
    OBVIOUS
  <2>1. CASE \E s \in Sessions : Upload(s)
    BY <2>1, UploadPaysOnce
  <2>2. CASE Drain
    BY <2>2, DrainPaysOnce
  <2>3. CASE Around
    BY <2>3, AroundPaysOnce
  <2>4. CASE UNCHANGED vars
    BY <2>4 DEF vars, dbVars, actorVars, countVars, historyVars, PaidOnce
  <2>. QED  BY <2>1, <2>2, <2>3, <2>4 DEF Next, Around
<1>3. PaidOnce /\ [Next]_vars => (billed' # billed /\ transcript # 0 => reopened)
  <2> SUFFICES ASSUME PaidOnce, [Next]_vars, billed' # billed
               PROVE  transcript # 0 => reopened
    OBVIOUS
  <2>1. worker.pc = "asr"
    BY DEF Next, vars, countVars, consentVars, dbVars, actorVars, SetRequested,
         RecordConsent, VendorThrows, StatementThrows, RelabelThrows, Crash, Expire, Purge,
         PurgeSelect, PurgeDelete, PurgeStamp, PurgeFails, Upload, StartUpload,
         UpsertRecording, DeleteOldObject, Put, CompleteUpload, StatObject, RejectObject,
         StampUploaded, EnqueueTranscript, GiveUp, RequestDies, OldObjectStays, Drain, Claim,
         ReadRecording, Defer, Advance, FetchMedia, Transcribe, InsertTranscript,
         StampTranscribed, GenerateNotes, CloseRow, CatchFail, RelabelFailed, CatchRetry,
         Requeue, RecoverOrphan
  <2>. QED  BY <2>1 DEF PaidOnce
<1>. QED  BY <1>1, <1>2, <1>3, Typed, PTL DEF Spec, NoSecondBill
-----------------------------------------------------------------------------
(* No audio that nobody can reach                                          *)

\* The object of key k is named by the recording, or is to be cleaned up next.
Named(k) ==
    \/ rec.key = k /\ ~rec.purged
    \/ \E s \in Sessions : At(s, "clean") /\ session[s].old = k

ObjectsNamed == \A k \in Keys : media[k] # 0 => Named(k)

\* An upload under way meets no sweep and no upload to another container, and finds its own
\* key on the recording, or, before its upsert, the key it has read.
UploadsAlone ==
    \A s \in Sessions : Uploading(s) =>
        /\ purge.pc = "idle" /\ ~rec.purged
        /\ \A u \in Sessions : Uploading(u) => session[u].key = session[s].key
        /\ rec.key = session[s].key \/ (At(s, "upsert") /\ rec.key = session[s].old)

\* The sweep finds the key it has selected.
SweepAlone ==
    /\ purge.pc # "idle" => rec.key = purge.key /\ ~rec.purged
    /\ purge.pc = "stamp" => \A k \in Keys : media[k] = 0

NamedInv == ~crossed => ObjectsNamed /\ UploadsAlone /\ SweepAlone

\* A browser's call: the first of them that crosses another actor is noted.
LEMMA UploadNames ==
  ASSUME TypeInv, NamedInv, NEW s \in Sessions, Upload(s)
  PROVE  NamedInv'
<1> SUFFICES ASSUME ~crossed'
             PROVE  ObjectsNamed' /\ UploadsAlone' /\ SweepAlone'
  BY DEF NamedInv
<1>0. /\ session \in [Sessions -> SessionStates]
      /\ rec \in Recordings /\ media \in [Keys -> 0 .. MaxStarts]
      /\ purge' = purge
  BY DEF TypeInv, ApiTyped, StoreTyped, Upload, StartUpload, UpsertRecording,
         DeleteOldObject, Put, CompleteUpload, StatObject, RejectObject, StampUploaded,
         EnqueueTranscript, GiveUp, RequestDies, OldObjectStays
<1>1. /\ ~crossed
      /\ ~OldObjectStays(s)
      /\ RequestDies(s) => ~At(s, "clean")
  <2>1. CASE \E key \in Keys : StartUpload(s, key)
    BY <2>1 DEF StartUpload, RequestDies, OldObjectStays, At
  <2>2. CASE RequestDies(s) \/ OldObjectStays(s)
    BY <2>2 DEF RequestDies, OldObjectStays
  <2>3. CASE ~(\/ \E key \in Keys : StartUpload(s, key)
               \/ RequestDies(s) \/ OldObjectStays(s))
    <3>1. crossed' = crossed
      BY <2>3 DEF Upload, UpsertRecording, DeleteOldObject, Put, CompleteUpload, StatObject,
         RejectObject, StampUploaded, EnqueueTranscript, GiveUp, countVars, historyVars
    <3>. QED  BY <2>3, <3>1
  <2>. QED  BY <2>1, <2>2, <2>3
<1>2. ObjectsNamed /\ UploadsAlone /\ SweepAlone
  BY <1>1 DEF NamedInv
<1>3. ASSUME NEW key \in Keys, StartUpload(s, key)
      PROVE  ObjectsNamed' /\ UploadsAlone' /\ SweepAlone'
  <2>1. /\ session' = [session EXCEPT ![s] =
                [pc |-> "upsert", key |-> key, old |-> rec.key, upload |-> starts + 1]]
        /\ UNCHANGED <<rec, media>> /\ session[s].pc = "idle"
        /\ purge = NoPurge /\ ~rec.purged
        /\ \A u \in Sessions \ {s} : Uploading(u) => session[u].key = key
    BY <1>3 DEF StartUpload, dbVars, At, Restartable, NoRecording
  <2>2. ObjectsNamed'
    BY <1>0, <1>2, <2>1 DEF ObjectsNamed, Named, At
  <2>3. UploadsAlone'
    BY <1>0, <1>2, <2>1 DEF UploadsAlone, Uploading, At, NoPurge
  <2>4. SweepAlone'
    BY <1>0, <2>1 DEF SweepAlone, NoPurge
  <2>. QED  BY <2>2, <2>3, <2>4
<1>4. CASE UpsertRecording(s)
  <2>1. /\ session' = [session EXCEPT ![s].pc = "clean"] /\ session[s].pc = "upsert"
        /\ media' = media /\ rec'.key = session[s].key /\ ~rec'.purged
    BY <1>4 DEF UpsertRecording, Step, At
  <2>2. /\ purge.pc = "idle"
        /\ \A u \in Sessions : Uploading(u) => session[u].key = session[s].key
        /\ rec.key = session[s].key \/ rec.key = session[s].old
    BY <1>2, <2>1 DEF UploadsAlone, Uploading
  <2>3. ObjectsNamed'
    BY <1>0, <1>2, <2>1, <2>2 DEF ObjectsNamed, Named, At, SessionStates
  <2>4. UploadsAlone'
    BY <1>0, <2>1, <2>2 DEF UploadsAlone, Uploading, At, SessionStates
  <2>5. SweepAlone'
    BY <1>0, <2>2 DEF SweepAlone
  <2>. QED  BY <2>3, <2>4, <2>5
<1>5. CASE DeleteOldObject(s) \/ Put(s)
  <2>1. /\ session[s].pc \in {"clean", "put"} /\ UNCHANGED rec
        /\ session' = [session EXCEPT ![s].pc = IF session[s].pc = "clean" THEN "put"
                                                ELSE "complete"]
    BY <1>5 DEF DeleteOldObject, Put, Step, At
  <2>2. purge.pc = "idle" /\ rec.key = session[s].key /\ ~rec.purged
    BY <1>2, <2>1 DEF UploadsAlone, Uploading, At
  <2>3. ASSUME NEW k \in Keys, media'[k] # 0, rec.key # k
        PROVE  media[k] # 0 /\ (session[s].pc = "clean" => session[s].old # k)
    BY <1>0, <1>5, <2>2, <2>3 DEF DeleteOldObject, Put, At
  <2>4. ObjectsNamed'
    BY <1>0, <1>2, <2>1, <2>2, <2>3 DEF ObjectsNamed, Named, At, SessionStates
  <2>5. UploadsAlone'
    BY <1>0, <1>2, <2>1 DEF UploadsAlone, Uploading, At, SessionStates
  <2>6. SweepAlone'
    BY <1>0, <2>2 DEF SweepAlone
  <2>. QED  BY <2>4, <2>5, <2>6
<1>6. CASE \/ CompleteUpload(s) \/ StatObject(s) \/ RejectObject(s) \/ StampUploaded(s)
           \/ EnqueueTranscript(s) \/ GiveUp(s) \/ RequestDies(s)
  <2>1. /\ session[s].pc # "clean"
        /\ session'[s].pc \in {"stat", "stamp", "enqueue", "idle"}
        /\ \A t \in Sessions \ {s} : session'[t] = session[t]
    BY <1>0, <1>1, <1>6 DEF CompleteUpload, StatObject, RejectObject, StampUploaded,
       EnqueueTranscript, GiveUp, RequestDies, Step, At, NoRequest, SessionStates
  <2>2. rec'.key = rec.key /\ rec'.purged = rec.purged
    BY <1>0, <1>6 DEF CompleteUpload, StatObject, RejectObject, StampUploaded, Recording,
       EnqueueTranscript, GiveUp, RequestDies, dbVars, Recordings
  <2>3. \A k \in Keys : media'[k] # 0 => media[k] # 0
    BY <1>0, <1>6 DEF CompleteUpload, StatObject, RejectObject, StampUploaded,
       EnqueueTranscript, GiveUp, RequestDies, dbVars
  <2>4. \A t \in Sessions : Uploading(t)' => t # s
    BY <2>1 DEF Uploading
  <2>5. ObjectsNamed'
    BY <1>2, <2>1, <2>2, <2>3 DEF ObjectsNamed, Named, At
  <2>6. UploadsAlone'
    BY <1>0, <1>2, <2>1, <2>2, <2>4 DEF UploadsAlone, Uploading, At
  <2>7. SweepAlone'
    BY <1>0, <1>2, <2>2, <2>3 DEF SweepAlone
  <2>. QED  BY <2>5, <2>6, <2>7
<1>. QED  BY <1>1, <1>3, <1>4, <1>5, <1>6 DEF Upload

\* A step that leaves keys, objects and uploads alone.
LEMMA NamesStay ==
  ASSUME NamedInv, UNCHANGED <<media, session, purge>>, rec'.key = rec.key,
         rec'.purged = rec.purged, crossed' = crossed
  PROVE  NamedInv'
BY DEF NamedInv, ObjectsNamed, UploadsAlone, SweepAlone, Named, At, Uploading

\* The drain relabels the recording, and neither moves nor deletes an object.
LEMMA DrainNames ==
  ASSUME TypeInv, NamedInv, Drain
  PROVE  NamedInv'
<1>1. UNCHANGED <<media, session, purge, crossed>>
  BY DEF Drain, Claim, ReadRecording, Defer, Advance, FetchMedia, Transcribe,
         InsertTranscript, StampTranscribed, GenerateNotes, CloseRow, CatchFail,
         RelabelFailed, CatchRetry, Requeue, RecoverOrphan, actorVars, dbVars, countVars,
         historyVars
<1>2. rec'.key = rec.key /\ rec'.purged = rec.purged
  BY DEF Drain, Claim, ReadRecording, Defer, Advance, FetchMedia, Transcribe,
         InsertTranscript, StampTranscribed, GenerateNotes, CloseRow, CatchFail,
         RelabelFailed, CatchRetry, Requeue, RecoverOrphan, dbVars, Recording,
         RelabelIfTranscribing, TypeInv, StoreTyped, Recordings
<1>. QED  BY <1>1, <1>2, NamesStay

\* The sweep deletes the object the recording names, and forgets its key afterwards; a sweep
\* that starts in the middle of an upload is noted, and one that fails leaves things alone.
LEMMA AroundNames ==
  ASSUME TypeInv, NamedInv, Around
  PROVE  NamedInv'
<1> SUFFICES ASSUME ~crossed'
             PROVE  NamedInv'
  BY DEF NamedInv
<1>0. /\ rec \in Recordings /\ media \in [Keys -> 0 .. MaxStarts]
      /\ purge \in [pc : {"idle", "delete", "stamp"}, key : Keys \union {"none"}]
  BY DEF TypeInv, StoreTyped, CountsTyped
<1>1. CASE \/ \E value \in BOOLEAN : SetRequested(value)
           \/ \E decision \in {"granted", "refused"} : RecordConsent(decision)
           \/ \E terminal \in BOOLEAN : VendorThrows(terminal)
           \/ StatementThrows \/ RelabelThrows \/ Expire
  <2>1. UNCHANGED <<media, session, purge, rec, crossed>>
    BY <1>1 DEF SetRequested, RecordConsent, VendorThrows, StatementThrows, RelabelThrows,
       Expire, dbVars, actorVars, countVars, historyVars
  <2>. QED  BY <2>1, NamesStay
<1>2. ~crossed /\ session' = session
  <2>1. CASE PurgeSelect
    BY <2>1 DEF PurgeSelect
  <2>2. CASE ~PurgeSelect
    <3>1. crossed' = crossed /\ session' = session
      BY <2>2 DEF Around, SetRequested, RecordConsent, VendorThrows, StatementThrows,
         RelabelThrows, Crash, Expire, Purge, PurgeDelete, PurgeStamp, PurgeFails, countVars,
         historyVars, actorVars
    <3>. QED  BY <3>1
  <2>. QED  BY <2>1, <2>2
<1>3. ObjectsNamed /\ UploadsAlone /\ SweepAlone
  BY <1>2 DEF NamedInv
<1>4. CASE Crash \/ PurgeFails
  <2>1. UNCHANGED <<media, rec>> /\ purge' \in {purge, NoPurge}
    BY <1>4 DEF Crash, PurgeFails, dbVars
  <2>. QED  BY <1>2, <1>3, <2>1 DEF NamedInv, ObjectsNamed, UploadsAlone, SweepAlone, Named,
            At, Uploading, NoPurge
<1>5. CASE PurgeSelect
  <2>1. /\ ~rec.purged /\ UNCHANGED <<media, rec>>
        /\ purge' = [pc |-> "delete", key |-> rec.key]
        /\ \A s \in Sessions : ~Uploading(s)
    BY <1>5 DEF PurgeSelect, dbVars
  <2>. QED  BY <1>2, <1>3, <2>1 DEF NamedInv, ObjectsNamed, UploadsAlone, SweepAlone, Named,
            At, Uploading
<1>6. CASE PurgeDelete \/ PurgeStamp
  <2>1. /\ purge.pc \in {"delete", "stamp"}
        /\ \A s \in Sessions : ~Uploading(s) /\ ~At(s, "clean")
    BY <1>3, <1>6 DEF PurgeDelete, PurgeStamp, UploadsAlone, Uploading, At
  <2>2. ASSUME NEW k \in Keys
        PROVE  media'[k] = 0
    <3>1. media[k] # 0 => k = purge.key
      BY <1>3, <2>1 DEF ObjectsNamed, Named, SweepAlone
    <3>. QED  BY <1>0, <1>3, <1>6, <3>1 DEF PurgeDelete, PurgeStamp, SweepAlone
  <2>3. SweepAlone'
    <3>1. CASE PurgeDelete
      BY <1>0, <1>3, <2>1, <2>2, <3>1 DEF PurgeDelete, SweepAlone
    <3>2. CASE PurgeStamp
      BY <3>2 DEF PurgeStamp, SweepAlone, NoPurge
    <3>. QED  BY <1>6, <3>1, <3>2
  <2>4. UploadsAlone'
    BY <1>2, <2>1 DEF UploadsAlone, Uploading
  <2>. QED  BY <2>2, <2>3, <2>4 DEF NamedInv, ObjectsNamed
<1>. QED  BY <1>1, <1>4, <1>5, <1>6 DEF Around, Purge

\* No audio is left that the recording does not name and nobody deletes, for any number of
\* browsers, containers, uploads and faults, unless an upload to another container or the
\* sweep crossed an upload, or the delete of an old object was lost (startUpload; the sweep).
THEOREM NoAudioIsLost == Spec => []AudioIsNamed
<1>1. Init => NamedInv
  BY DEF Init, NamedInv, ObjectsNamed, UploadsAlone, SweepAlone, Uploading, NoRequest, NoPurge
<1>2. TypeInv /\ NamedInv /\ [Next]_vars => NamedInv'
  <2> SUFFICES ASSUME TypeInv, NamedInv, [Next]_vars
               PROVE  NamedInv'
    OBVIOUS
  <2>1. CASE \E s \in Sessions : Upload(s)
    BY <2>1, UploadNames
  <2>2. CASE Drain
    BY <2>2, DrainNames
  <2>3. CASE Around
    BY <2>3, AroundNames
  <2>4. CASE UNCHANGED vars
    BY <2>4, NamesStay DEF vars, dbVars, actorVars, countVars, historyVars
  <2>. QED  BY <2>1, <2>2, <2>3, <2>4 DEF Next, Around
<1>3. NamedInv => AudioIsNamed
  BY DEF NamedInv, ObjectsNamed, AudioIsNamed, Named
<1>. QED  BY <1>1, <1>2, <1>3, Typed, PTL DEF Spec
=============================================================================
