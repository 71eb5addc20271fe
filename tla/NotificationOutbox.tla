------------------------- MODULE NotificationOutbox -------------------------
(***************************************************************************)
(* The notification outbox and its consumers.                              *)
(*                                                                         *)
(* Mutations and scheduled jobs insert rows (packages/notifications,       *)
(* enqueue.ts).  Every worker process runs two loops over the table        *)
(* (apps/workers/src/index.ts): a drain pass that claims a batch, sends    *)
(* each row through the e-mail provider and stamps the outcome, and an     *)
(* orphan sweep that re-queues rows 'processing' for too long              *)
(* (apps/workers/src/lib/dispatcher.ts).  The two loops are not ordered    *)
(* with respect to each other, and the outcome of a row is written by id   *)
(* only, with no check of the row's status or of who claimed it.           *)
(*                                                                         *)
(* One action is one SQL statement or one call of the provider.            *)
(***************************************************************************)
EXTENDS Naturals, FiniteSets

CONSTANTS
    Workers,        \* worker processes
    Rows,           \* rows of notification_outbox, by id
    BatchSize,      \* DEFAULT_BATCH
    AttemptCap,     \* DEFAULT_ATTEMPT_CAP
    MaxAbandons     \* bound: drain passes that die half-way in a behaviour

ASSUME OutboxAssumption ==
    /\ BatchSize \in Nat \ {0}
    /\ AttemptCap \in Nat \ {0}
    /\ MaxAbandons \in Nat

VARIABLES
    status,     \* status[r]: the row's status column, "absent" before INSERT
    due,        \* due[r]: scheduled_for is NULL or has passed
    attempts,   \* attempts[r]: attempt_count
    stale,      \* stale[r]: claimed_at is older than the sweep's cutoff
    batch,      \* batch[w]: claimed rows of the pass not yet processed
    claimed,    \* claimed[w][r]: attempt_count the claim returned to w
    sending,    \* sending[w]: rows (at most one) delivered and not stamped
    abandons,   \* passes that died half-way so far
    sends,      \* history: deliveries of the row by the provider
    lost        \* history: deliveries whose 'sent' stamp was lost

vars == <<status, due, attempts, stale, batch, claimed, sending, abandons,
          sends, lost>>

Terminal == {"sent", "failed"}

\* Rows worker w has claimed and not finished with.
Held(w) == batch[w] \union sending[w]

Init ==
    /\ status = [r \in Rows |-> "absent"]
    /\ due = [r \in Rows |-> FALSE]
    /\ attempts = [r \in Rows |-> 0]
    /\ stale = [r \in Rows |-> FALSE]
    /\ batch = [w \in Workers |-> {}]
    /\ claimed = [w \in Workers |-> [r \in Rows |-> 0]]
    /\ sending = [w \in Workers |-> {}]
    /\ abandons = 0
    /\ sends = [r \in Rows |-> 0]
    /\ lost = [r \in Rows |-> 0]

-----------------------------------------------------------------------------
(* Producers                                                               *)

\* A mutation commits the row; scheduled_for may lie in the future.
Enqueue(r, now) ==
    /\ status[r] = "absent"
    /\ status' = [status EXCEPT ![r] = "pending"]
    /\ due' = [due EXCEPT ![r] = now]
    /\ UNCHANGED <<attempts, stale, batch, claimed, sending, abandons, sends, lost>>

\* Time reaches scheduled_for.
ComesDue(r) ==
    /\ status[r] = "pending"
    /\ ~due[r]
    /\ due' = [due EXCEPT ![r] = TRUE]
    /\ UNCHANGED <<status, attempts, stale, batch, claimed, sending, abandons, sends, lost>>

-----------------------------------------------------------------------------
(* The drain loop of one worker                                            *)

Eligible == {r \in Rows : status[r] = "pending" /\ due[r]}

\* A full batch, or all that is eligible.  ORDER BY priority, created_at
\* decides which rows; no property depends on it.
Batches ==
    {S \in SUBSET Eligible :
        /\ S # {}
        /\ Cardinality(S) <= BatchSize
        /\ Cardinality(S) < BatchSize => S = Eligible}

\* The loop starts a pass only when the previous one has ended (inFlight).
Claim(w) ==
    /\ Held(w) = {}
    /\ \E S \in Batches :
        /\ batch' = [batch EXCEPT ![w] = S]
        /\ status' = [r \in Rows |-> IF r \in S THEN "processing" ELSE status[r]]
        /\ stale' = [r \in Rows |-> IF r \in S THEN FALSE ELSE stale[r]]
        /\ attempts' = [r \in Rows |-> IF r \in S THEN attempts[r] + 1 ELSE attempts[r]]
        /\ claimed' = [claimed EXCEPT ![w] =
                          [r \in Rows |-> IF r \in S THEN attempts[r] + 1 ELSE 0]]
    /\ UNCHANGED <<due, sending, abandons, sends, lost>>

\* Rows of a pass are processed one at a time: the provider delivers r.
Deliver(w, r) ==
    /\ sending[w] = {}
    /\ r \in batch[w]
    /\ batch' = [batch EXCEPT ![w] = @ \ {r}]
    /\ sending' = [sending EXCEPT ![w] = {r}]
    /\ sends' = [sends EXCEPT ![r] = @ + 1]
    /\ UNCHANGED <<status, due, attempts, stale, claimed, abandons, lost>>

\* Faulty variant: the delivered row is never stamped.
MarkSentForgotten(w, r) ==
    /\ r \in sending[w]
    /\ sending' = [sending EXCEPT ![w] = {}]
    /\ UNCHANGED <<status, due, attempts, stale, batch, claimed, abandons, sends, lost>>

\* UPDATE ... SET status = 'sent' WHERE id = r.
MarkSent(w, r) ==
    /\ r \in sending[w]
    /\ sending' = [sending EXCEPT ![w] = {}]
    /\ status' = [status EXCEPT ![r] = "sent"]
    /\ UNCHANGED <<due, attempts, stale, batch, claimed, abandons, sends, lost>>

\* Faulty variants: one attempt too many, one too few.
AfterErrorLate(w, r) == IF claimed[w][r] > AttemptCap THEN "failed" ELSE "pending"
AfterErrorEarly(w, r) == IF claimed[w][r] + 1 >= AttemptCap THEN "failed" ELSE "pending"

\* What the catch block writes, decided by the attempt_count of w's claim.
AfterError(w, r) ==
    IF claimed[w][r] >= AttemptCap THEN "failed" ELSE "pending"

\* Loading the overrides, rendering or sending throws before delivery.
SendFails(w, r) ==
    /\ sending[w] = {}
    /\ r \in batch[w]
    /\ batch' = [batch EXCEPT ![w] = @ \ {r}]
    /\ status' = [status EXCEPT ![r] = AfterError(w, r)]
    /\ UNCHANGED <<due, attempts, stale, claimed, sending, abandons, sends, lost>>

\* The provider delivered, but its answer or the 'sent' UPDATE failed: the
\* same catch block treats the row as not sent.
StampFails(w, r) ==
    /\ r \in sending[w]
    /\ sending' = [sending EXCEPT ![w] = {}]
    /\ status' = [status EXCEPT ![r] = AfterError(w, r)]
    /\ lost' = [lost EXCEPT ![r] = @ + 1]
    /\ UNCHANGED <<due, attempts, stale, batch, claimed, abandons, sends>>

\* The process dies (and is restarted), or the catch block's own UPDATE
\* throws out of the pass: the rest of the batch stays 'processing'.
Abandon(w) ==
    /\ Held(w) # {}
    /\ abandons < MaxAbandons
    /\ abandons' = abandons + 1
    /\ batch' = [batch EXCEPT ![w] = {}]
    /\ sending' = [sending EXCEPT ![w] = {}]
    /\ lost' = [r \in Rows |-> IF r \in sending[w] THEN lost[r] + 1 ELSE lost[r]]
    /\ UNCHANGED <<status, due, attempts, stale, claimed, sends>>

-----------------------------------------------------------------------------
(* The orphan-recovery loop                                                *)

\* Five minutes pass after a claim.
GoesStale(r) ==
    /\ status[r] = "processing"
    /\ ~stale[r]
    /\ stale' = [stale EXCEPT ![r] = TRUE]
    /\ UNCHANGED <<status, due, attempts, batch, claimed, sending, abandons, sends, lost>>

\* One UPDATE over every stale row, whether or not its claimant still lives.
RecoverOrphans ==
    /\ \E r \in Rows : status[r] = "processing" /\ stale[r]
    /\ status' = [r \in Rows |-> IF status[r] = "processing" /\ stale[r]
                                 THEN "pending" ELSE status[r]]
    /\ UNCHANGED <<due, attempts, stale, batch, claimed, sending, abandons, sends, lost>>

-----------------------------------------------------------------------------
Finished ==
    /\ \A r \in Rows : status[r] \in Terminal
    /\ \A w \in Workers : Held(w) = {}
    /\ UNCHANGED vars

Next ==
    \/ \E r \in Rows, now \in BOOLEAN : Enqueue(r, now)
    \/ \E r \in Rows : ComesDue(r) \/ GoesStale(r)
    \/ \E w \in Workers : Claim(w) \/ Abandon(w)
    \/ \E w \in Workers, r \in Rows :
        Deliver(w, r) \/ MarkSent(w, r) \/ SendFails(w, r) \/ StampFails(w, r)
    \/ RecoverOrphans
    \/ Finished

Spec == Init /\ [][Next]_vars

\* What a worker does about one row once it has reached it.
Process(w, r) == Deliver(w, r) \/ MarkSent(w, r) \/ SendFails(w, r) \/ StampFails(w, r)

\* The loops tick as long as the process runs, calls of the provider return,
\* and time passes.  Nothing forces a delivery to succeed, or a pass to die.
FairSpec ==
    /\ Spec
    /\ \A w \in Workers : WF_vars(Claim(w)) /\ WF_vars(\E r \in Rows : Process(w, r))
    /\ \A r \in Rows : WF_vars(ComesDue(r)) /\ WF_vars(GoesStale(r))
    /\ WF_vars(RecoverOrphans)

-----------------------------------------------------------------------------
(* Properties                                                              *)

TypeOK ==
    /\ status \in [Rows -> {"absent", "pending", "processing"} \union Terminal]
    /\ due \in [Rows -> BOOLEAN]
    /\ attempts \in [Rows -> Nat]
    /\ stale \in [Rows -> BOOLEAN]
    /\ batch \in [Workers -> SUBSET Rows]
    /\ claimed \in [Workers -> [Rows -> Nat]]
    /\ sending \in [Workers -> SUBSET Rows]
    /\ abandons \in 0 .. MaxAbandons
    /\ sends \in [Rows -> Nat]
    /\ lost \in [Rows -> Nat]

\* A message is delivered again only after a delivery whose 'sent' stamp was
\* lost (dispatcher.ts, drainOutboxOnce and recoverOrphans).
DuplicatesExplained == \A r \in Rows : sends[r] <= lost[r] + 1

\* Only a pass that died half-way lets a row be claimed more often than the
\* attempt cap allows: the orphan sweep does not look at attempt_count.
AttemptsBounded == \A r \in Rows : attempts[r] <= AttemptCap + abandons

\* A row is given up only when its attempts are used up.
FailedOnlyWhenExhausted ==
    \A r \in Rows : status[r] = "failed" => attempts[r] >= AttemptCap

\* The outcome of a row is final: no later stamp of another claimant and no
\* sweep takes a sent or failed row back into the queue.
OutcomeIsFinal ==
    [][\A r \in Rows : status[r] \in Terminal => status'[r] = status[r]]_vars

\* The queue its producers rely on: claims, sweeps and stamps are left out.
Fate(r) == IF status[r] \in {"pending", "processing"} THEN "open" ELSE status[r]

Queue == INSTANCE MessageQueue
    WITH Messages <- Rows, Tries <- AttemptCap, fate <- [r \in Rows |-> Fate(r)],
         tried <- attempts, copies <- sends, lostCopies <- lost

\* The outbox with its claims, batches and sweep implements that queue: one copy per
\* lost receipt, an outcome that is final, and reached (enqueue.ts, dispatcher.ts).
ImplementsQueue == Queue!Spec
=============================================================================
