---------------------- MODULE NotificationOutbox_proofs ----------------------
(***************************************************************************)
(* What holds of the notification outbox for every number of rows, every   *)
(* batch size and every attempt cap.                                       *)
(*                                                                         *)
(* Typing and FailedOnlyWhenExhausted hold for any number of workers.  The *)
(* other results assume the single worker process that fly.toml deploys    *)
(* (SingleInstance).  With a second worker the orphan sweep re-queues a    *)
(* row that the other is still delivering, and DuplicatesExplained and the *)
(* refinement of MessageQueue no longer hold.                              *)
(***************************************************************************)
EXTENDS NotificationOutbox, TLAPS

\* What claiming the batch S does to the table and to the claimant.
ClaimOf(w, S) ==
    /\ batch' = [batch EXCEPT ![w] = S]
    /\ status' = [r \in Rows |-> IF r \in S THEN "processing" ELSE status[r]]
    /\ stale' = [r \in Rows |-> IF r \in S THEN FALSE ELSE stale[r]]
    /\ attempts' = [r \in Rows |-> IF r \in S THEN attempts[r] + 1 ELSE attempts[r]]
    /\ claimed' = [claimed EXCEPT ![w] =
                      [r \in Rows |-> IF r \in S THEN attempts[r] + 1 ELSE 0]]

SingleInstance == \A v, w \in Workers : v = w

\* TypeOK is an invariant: the columns keep their types, whatever is claimed,
\* delivered, swept and abandoned (dispatcher.ts).
THEOREM TypeCorrect == Spec => []TypeOK
<1>1. Init => TypeOK
  BY OutboxAssumption DEF Init, TypeOK, Terminal
<1>2. ASSUME TypeOK, [Next]_vars
      PROVE  TypeOK'
  <2> USE <1>2, OutboxAssumption DEF TypeOK, Terminal
  <2>1. ASSUME NEW r \in Rows, NEW now \in BOOLEAN, Enqueue(r, now)
        PROVE  TypeOK'
    BY <2>1 DEF Enqueue
  <2>2. ASSUME NEW r \in Rows, ComesDue(r) \/ GoesStale(r)
        PROVE  TypeOK'
    BY <2>2 DEF ComesDue, GoesStale
  <2>3. ASSUME NEW w \in Workers, Claim(w)
        PROVE  TypeOK'
    <3>1. PICK S \in Batches : ClaimOf(w, S)
      BY <2>3 DEF Claim, ClaimOf
    <3>2. S \subseteq Rows
      BY DEF Batches, Eligible
    <3>3. batch' \in [Workers -> SUBSET Rows]
      BY <3>1, <3>2 DEF ClaimOf
    <3>4. status' \in [Rows -> {"absent", "pending", "processing"} \union Terminal]
      BY <3>1 DEF ClaimOf
    <3>5. stale' \in [Rows -> BOOLEAN]
      BY <3>1 DEF ClaimOf
    <3>6. attempts' \in [Rows -> Nat]
      BY <3>1 DEF ClaimOf
    <3>7. claimed' \in [Workers -> [Rows -> Nat]]
      <4>1. [r \in Rows |-> IF r \in S THEN attempts[r] + 1 ELSE 0] \in [Rows -> Nat]
        OBVIOUS
      <4>. QED  BY <3>1, <4>1 DEF ClaimOf
    <3>. QED  BY <2>3, <3>3, <3>4, <3>5, <3>6, <3>7 DEF Claim
  <2>4. ASSUME NEW w \in Workers, Abandon(w)
        PROVE  TypeOK'
    BY <2>4 DEF Abandon
  <2>5. ASSUME NEW w \in Workers, NEW r \in Rows, Deliver(w, r)
        PROVE  TypeOK'
    BY <2>5 DEF Deliver
  <2>6. ASSUME NEW w \in Workers, NEW r \in Rows, MarkSent(w, r)
        PROVE  TypeOK'
    BY <2>6 DEF MarkSent
  <2>7. ASSUME NEW w \in Workers, NEW r \in Rows, SendFails(w, r)
        PROVE  TypeOK'
    BY <2>7 DEF SendFails, AfterError
  <2>8. ASSUME NEW w \in Workers, NEW r \in Rows, StampFails(w, r)
        PROVE  TypeOK'
    BY <2>8 DEF StampFails, AfterError
  <2>9. ASSUME RecoverOrphans
        PROVE  TypeOK'
    BY <2>9 DEF RecoverOrphans
  <2>10. CASE UNCHANGED vars
    BY <2>10 DEF vars
  <2>. QED
    BY <1>2, <2>1, <2>2, <2>3, <2>4, <2>5, <2>6, <2>7, <2>8, <2>9, <2>10
       DEF Next, Finished
<1>. QED
  BY <1>1, <1>2, PTL DEF Spec

-----------------------------------------------------------------------------
(* Rows are given up only with their attempts used up                      *)

\* A claim never remembers more attempts than the row has had.
ClaimedInPast == \A w \in Workers, r \in Rows : claimed[w][r] <= attempts[r]

\* A row is given up only when its attempts are used up, for any number of
\* workers (dispatcher.ts, the catch block of drainOutboxOnce).
THEOREM GivenUpLate == Spec => []FailedOnlyWhenExhausted
<1>1. Init => ClaimedInPast /\ FailedOnlyWhenExhausted
  BY OutboxAssumption DEF Init, ClaimedInPast, FailedOnlyWhenExhausted
<1>2. ASSUME TypeOK, ClaimedInPast, FailedOnlyWhenExhausted, [Next]_vars
      PROVE  ClaimedInPast' /\ FailedOnlyWhenExhausted'
  <2> USE <1>2, OutboxAssumption DEF TypeOK, ClaimedInPast, FailedOnlyWhenExhausted
  <2>1. ASSUME NEW w \in Workers, Claim(w)
        PROVE  ClaimedInPast' /\ FailedOnlyWhenExhausted'
    BY <2>1 DEF Claim, Batches, Eligible
  <2>2. ASSUME NEW w \in Workers, NEW r \in Rows, SendFails(w, r) \/ StampFails(w, r)
        PROVE  ClaimedInPast' /\ FailedOnlyWhenExhausted'
    BY <2>2 DEF SendFails, StampFails, AfterError
  <2>3. CASE UNCHANGED <<attempts, claimed>>
             /\ \A r \in Rows : status'[r] = "failed" => status[r] = "failed"
    BY <2>3
  <2>4. ASSUME NEW r \in Rows, NEW now \in BOOLEAN, Enqueue(r, now)
        PROVE  ClaimedInPast' /\ FailedOnlyWhenExhausted'
    BY <2>3, <2>4 DEF Enqueue
  <2>5. ASSUME NEW w \in Workers, NEW r \in Rows, MarkSent(w, r)
        PROVE  ClaimedInPast' /\ FailedOnlyWhenExhausted'
    BY <2>3, <2>5 DEF MarkSent
  <2>6. CASE RecoverOrphans
    BY <2>3, <2>6 DEF RecoverOrphans
  <2>7. CASE UNCHANGED <<attempts, claimed, status>>
    BY <2>7
  <2>. QED
    BY <1>2, <2>1, <2>2, <2>4, <2>5, <2>6, <2>7
       DEF Next, vars, ComesDue, GoesStale, Abandon, Deliver, Finished
<1>. QED
  BY <1>1, <1>2, TypeCorrect, PTL DEF Spec

-----------------------------------------------------------------------------
(* The inductive invariant of a single instance                            *)

\* A row a worker holds is unsettled, and its attempt is the claimed one.
HeldIsOpen ==
    \A w \in Workers : \A r \in Held(w) :
        status[r] \in {"pending", "processing"} /\ claimed[w][r] = attempts[r]

\* A worker delivers the rows of its batch one at a time.
OneAtATime ==
    \A w \in Workers :
        batch[w] \intersect sending[w] = {} /\ \A r, s \in sending[w] : r = s

\* An unexplained delivery is stamped, or is about to be.
SendsAccounted ==
    \A r \in Rows :
        /\ sends[r] <= lost[r] + 1
        /\ sends[r] > lost[r]
            => status[r] = "sent" \/ \E w \in Workers : r \in sending[w]

\* A row that can be claimed again has an attempt left, or a pass has died.
AttemptsAccounted ==
    \A r \in Rows :
        /\ attempts[r] <= AttemptCap + abandons
        /\ status[r] \notin Terminal /\ (\A w \in Workers : r \notin Held(w))
            => attempts[r] < AttemptCap + abandons

SingleInv ==
    /\ TypeOK
    /\ HeldIsOpen
    /\ OneAtATime
    /\ SendsAccounted
    /\ AttemptsAccounted

\* One worker's claim preserves the invariant.
LEMMA ClaimKeeps ==
  ASSUME SingleInstance, SingleInv, TypeOK', NEW w \in Workers, Claim(w)
  PROVE  SingleInv'
<1> USE OutboxAssumption DEF TypeOK
<1>1. PICK S \in Batches : ClaimOf(w, S)
  BY DEF Claim, ClaimOf
<1>2. S \subseteq Rows /\ \A r \in S : status[r] = "pending"
  BY DEF Batches, Eligible
<1>3. Held(w) = {} /\ UNCHANGED <<sending, abandons, sends, lost>>
  BY DEF Claim
<1>4. batch'[w] = S /\ sending'[w] = {}
  BY <1>1, <1>3 DEF ClaimOf, SingleInv, Held
<1>5. \A r \in S : status'[r] = "processing" /\ attempts'[r] = attempts[r] + 1
                    /\ claimed'[w][r] = attempts[r] + 1
  BY <1>1, <1>2 DEF ClaimOf, SingleInv
<1>6. \A r \in Rows \ S : status'[r] = status[r] /\ attempts'[r] = attempts[r]
  BY <1>1 DEF ClaimOf, SingleInv
<1>7. HeldIsOpen'
  BY <1>4, <1>5 DEF HeldIsOpen, Held, SingleInstance
<1>8. OneAtATime'
  BY <1>4 DEF OneAtATime, SingleInstance
<1>9. SendsAccounted'
  <2>1. \A r \in Rows : status[r] = "sent" => status'[r] = "sent"
    BY <1>2, <1>6
  <2>. QED  BY <1>3, <2>1 DEF SendsAccounted, SingleInv
<1>10. AttemptsAccounted'
  <2>1. \A r \in S : attempts[r] < AttemptCap + abandons
    BY <1>2, <1>3 DEF SingleInv, AttemptsAccounted, SingleInstance, Terminal
  <2>2. \A r \in Rows \ S : \A v \in Workers : r \notin Held(v)
    BY <1>3 DEF SingleInstance
  <2>3. \A r \in S : \E v \in Workers : r \in Held(v)'
    BY <1>4 DEF Held
  <2>4. ASSUME NEW r \in S
        PROVE  attempts'[r] <= AttemptCap + abandons /\ \E v \in Workers : r \in Held(v)'
    BY <1>2, <1>5, <2>1, <2>3 DEF SingleInv
  <2>5. ASSUME NEW r \in Rows \ S
        PROVE  /\ attempts'[r] <= AttemptCap + abandons
               /\ status'[r] \notin Terminal => attempts'[r] < AttemptCap + abandons
    BY <1>6, <2>2 DEF SingleInv, AttemptsAccounted
  <2>. QED
    BY <1>3, <2>4, <2>5 DEF AttemptsAccounted
<1>. QED  BY <1>7, <1>8, <1>9, <1>10 DEF SingleInv

\* Delivering the next row of the batch preserves the invariant.
LEMMA DeliverKeeps ==
  ASSUME SingleInstance, SingleInv, TypeOK', NEW w \in Workers, NEW r \in Rows,
         Deliver(w, r)
  PROVE  SingleInv'
<1> USE OutboxAssumption DEF TypeOK
<1>1. /\ batch'[w] = batch[w] \ {r}
      /\ sending[w] = {}
      /\ sending'[w] = {r}
      /\ r \in batch[w]
      /\ sends'[r] = sends[r] + 1
      /\ \A q \in Rows \ {r} : sends'[q] = sends[q]
      /\ UNCHANGED <<status, attempts, claimed, abandons, lost>>
  BY DEF Deliver, SingleInv
<1>2. Held(w)' = Held(w)
  BY <1>1 DEF Held
<1>3. HeldIsOpen' /\ AttemptsAccounted'
  BY <1>1, <1>2 DEF HeldIsOpen, AttemptsAccounted, SingleInv, SingleInstance
<1>4. OneAtATime'
  BY <1>1 DEF OneAtATime, SingleInv, SingleInstance
<1>5. SendsAccounted'
  <2>1. sends[r] <= lost[r]
    <3>1. status[r] # "sent"
      BY <1>1 DEF SingleInv, HeldIsOpen, Held
    <3>. QED  BY <1>1, <3>1 DEF SingleInv, SendsAccounted, SingleInstance
  <2>2. \A q \in Rows \ {r} : sends[q] > lost[q] => status[q] = "sent"
    BY <1>1 DEF SingleInv, SendsAccounted, SingleInstance
  <2>3. sends'[r] <= lost'[r] + 1 /\ r \in sending'[w]
    BY <1>1, <2>1 DEF SingleInv
  <2>4. ASSUME NEW q \in Rows \ {r}
        PROVE  sends'[q] <= lost'[q] + 1 /\ (sends'[q] > lost'[q] => status'[q] = "sent")
    BY <1>1, <2>2 DEF SingleInv, SendsAccounted
  <2>. QED  BY <2>3, <2>4 DEF SendsAccounted
<1>. QED  BY <1>3, <1>4, <1>5 DEF SingleInv

\* Stamping the delivered row 'sent' preserves the invariant.
LEMMA MarkSentKeeps ==
  ASSUME SingleInstance, SingleInv, TypeOK', NEW w \in Workers, NEW r \in Rows,
         MarkSent(w, r)
  PROVE  SingleInv'
<1> USE OutboxAssumption DEF TypeOK
<1>1. /\ sending[w] = {r}
      /\ sending'[w] = {}
      /\ r \notin batch[w]
      /\ status'[r] = "sent"
      /\ \A q \in Rows \ {r} : status'[q] = status[q]
      /\ UNCHANGED <<batch, attempts, claimed, abandons, sends, lost>>
  BY DEF MarkSent, SingleInv, OneAtATime
<1>2. Held(w) = batch[w] \union {r} /\ Held(w)' = batch[w]
  BY <1>1 DEF Held
<1>3. HeldIsOpen'
  BY <1>1, <1>2 DEF HeldIsOpen, SingleInv, SingleInstance
<1>4. OneAtATime'
  BY <1>1 DEF OneAtATime, SingleInv, SingleInstance
<1>5. SendsAccounted'
  BY <1>1 DEF SendsAccounted, SingleInv, SingleInstance
<1>6. AttemptsAccounted'
  BY <1>1, <1>2 DEF AttemptsAccounted, SingleInv, SingleInstance, Terminal
<1>. QED  BY <1>3, <1>4, <1>5, <1>6 DEF SingleInv

\* The catch block preserves the invariant, before and after the delivery.
LEMMA CatchKeeps ==
  ASSUME SingleInstance, SingleInv, TypeOK', NEW w \in Workers, NEW r \in Rows,
         SendFails(w, r) \/ StampFails(w, r)
  PROVE  SingleInv'
<1> USE OutboxAssumption DEF TypeOK
<1>1. /\ r \in Held(w)
      /\ Held(w)' = Held(w) \ {r}
      /\ batch'[w] = batch[w] \ {r}
      /\ sending'[w] = sending[w] \ {r}
      /\ status'[r] = IF attempts[r] >= AttemptCap THEN "failed" ELSE "pending"
      /\ \A q \in Rows \ {r} : status'[q] = status[q] /\ lost'[q] = lost[q]
      /\ UNCHANGED <<attempts, claimed, abandons, sends>>
  <2>1. r \in Held(w) /\ claimed[w][r] = attempts[r]
    BY DEF SendFails, StampFails, Held, SingleInv, HeldIsOpen
  <2>2. CASE SendFails(w, r)
    BY <2>1, <2>2 DEF SendFails, AfterError, Held, SingleInv
  <2>3. CASE StampFails(w, r)
    BY <2>1, <2>3 DEF StampFails, AfterError, Held, SingleInv, OneAtATime
  <2>. QED  BY <2>2, <2>3
<1>2. HeldIsOpen'
  <2>1. ASSUME NEW q \in Held(w)'
        PROVE  status'[q] \in {"pending", "processing"} /\ claimed'[w][q] = attempts'[q]
    <3>1. q \in Held(w) /\ q # r /\ q \in Rows
      BY <1>1 DEF SingleInv, Held
    <3>. QED  BY <1>1, <3>1 DEF HeldIsOpen, SingleInv
  <2>. QED  BY <2>1 DEF HeldIsOpen, SingleInstance
<1>3. OneAtATime'
  BY <1>1 DEF OneAtATime, SingleInv, SingleInstance
<1>4. SendsAccounted'
  <2>1. sends[r] <= lost'[r]
    <3>1. status[r] # "sent"
      BY <1>1 DEF SingleInv, HeldIsOpen
    <3>2. CASE SendFails(w, r)
      BY <3>1, <3>2 DEF SendFails, SingleInv, SendsAccounted, SingleInstance
    <3>3. CASE StampFails(w, r)
      BY <3>3 DEF StampFails, SingleInv, SendsAccounted
    <3>. QED  BY <3>2, <3>3
  <2>. QED  BY <1>1, <2>1 DEF SendsAccounted, SingleInv, SingleInstance
<1>5. AttemptsAccounted'
  BY <1>1 DEF AttemptsAccounted, SingleInv, SingleInstance, Terminal
<1>. QED  BY <1>2, <1>3, <1>4, <1>5 DEF SingleInv

\* A pass that dies preserves the invariant: the row it was delivering has
\* its delivery recorded as lost.
LEMMA AbandonKeeps ==
  ASSUME SingleInstance, SingleInv, TypeOK', NEW w \in Workers, Abandon(w)
  PROVE  SingleInv'
<1> USE OutboxAssumption DEF TypeOK
<1>1. /\ batch'[w] = {} /\ sending'[w] = {}
      /\ abandons' = abandons + 1
      /\ \A r \in Rows : lost'[r] = IF r \in sending[w] THEN lost[r] + 1 ELSE lost[r]
      /\ UNCHANGED <<status, attempts, claimed, sends>>
  BY DEF Abandon, SingleInv
<1>2. HeldIsOpen' /\ OneAtATime'
  BY <1>1 DEF HeldIsOpen, OneAtATime, Held, SingleInstance
<1>3. SendsAccounted'
  BY <1>1 DEF SendsAccounted, SingleInv, SingleInstance
<1>4. AttemptsAccounted'
  BY <1>1 DEF AttemptsAccounted, SingleInv
<1>. QED  BY <1>2, <1>3, <1>4 DEF SingleInv

\* A single instance keeps SingleInv: it is true at the start and no step of
\* the worker, of a producer or of the sweep breaks it.
THEOREM SingleInvariant == SingleInstance => (Spec => []SingleInv)
<1>1. ASSUME Init, TypeOK
      PROVE  SingleInv
  BY <1>1, OutboxAssumption
     DEF Init, SingleInv, TypeOK, HeldIsOpen, OneAtATime, SendsAccounted,
         AttemptsAccounted, Held
<1>2. ASSUME SingleInstance, SingleInv, TypeOK', [Next]_vars
      PROVE  SingleInv'
  <2> USE <1>2
  <2>1. ASSUME NEW r \in Rows, NEW now \in BOOLEAN, Enqueue(r, now)
        PROVE  SingleInv'
    <3>1. /\ status[r] = "absent" /\ status'[r] = "pending"
          /\ \A q \in Rows \ {r} : status'[q] = status[q]
          /\ UNCHANGED <<attempts, batch, claimed, sending, abandons, sends, lost>>
      BY <2>1 DEF Enqueue, SingleInv, TypeOK
    <3>2. HeldIsOpen' /\ OneAtATime'
      BY <3>1 DEF HeldIsOpen, OneAtATime, Held, SingleInv, TypeOK
    <3>3. SendsAccounted' /\ AttemptsAccounted'
      BY <3>1 DEF SendsAccounted, AttemptsAccounted, Held, SingleInv, Terminal
    <3>. QED  BY <3>2, <3>3 DEF SingleInv
  <2>2. CASE RecoverOrphans
    <3>1. /\ \A q \in Rows : \/ status'[q] = status[q]
                             \/ /\ status[q] = "processing"
                                /\ status'[q] = "pending"
          /\ UNCHANGED <<attempts, batch, claimed, sending, abandons, sends, lost>>
      BY <2>2 DEF RecoverOrphans, SingleInv, TypeOK
    <3>2. HeldIsOpen' /\ OneAtATime'
      BY <3>1 DEF HeldIsOpen, OneAtATime, Held, SingleInv, TypeOK
    <3>3. SendsAccounted' /\ AttemptsAccounted'
      BY <3>1 DEF SendsAccounted, AttemptsAccounted, Held, SingleInv, Terminal
    <3>. QED  BY <3>2, <3>3 DEF SingleInv
  <2>3. CASE UNCHANGED <<status, attempts, batch, claimed, sending, abandons, sends, lost>>
    BY <2>3 DEF SingleInv, HeldIsOpen, OneAtATime, SendsAccounted, AttemptsAccounted, Held
  <2>. QED
    BY <2>1, <2>2, <2>3, ClaimKeeps, DeliverKeeps, MarkSentKeeps, CatchKeeps, AbandonKeeps
       DEF Next, vars, ComesDue, GoesStale, Finished
<1>3. SUFFICES ASSUME SingleInstance
                PROVE  Spec => []SingleInv
  OBVIOUS
<1>4. SingleInv /\ TypeOK' /\ [Next]_vars => SingleInv'
  BY <1>2, <1>3
<1>5. Init /\ TypeOK => SingleInv
  BY <1>1
<1>. QED
  BY <1>4, <1>5, TypeCorrect, PTL DEF Spec

\* With one worker instance a message is delivered again only after a
\* delivery whose stamp was lost (dispatcher.ts, drainOutboxOnce).
THEOREM SingleInstanceExplained == SingleInstance => (Spec => []DuplicatesExplained)
<1>1. SingleInv => DuplicatesExplained
  BY DEF SingleInv, SendsAccounted, DuplicatesExplained
<1>. QED  BY <1>1, SingleInvariant, PTL

\* With one worker instance only a pass that died lets a row be claimed more
\* often than the cap (dispatcher.ts, recoverOrphans).
THEOREM SingleInstanceBounded == SingleInstance => (Spec => []AttemptsBounded)
<1>1. SingleInv => AttemptsBounded
  BY DEF SingleInv, AttemptsAccounted, AttemptsBounded
<1>. QED  BY <1>1, SingleInvariant, PTL

\* With one worker instance the outcome of a row is final: the sweep and the
\* stamps by id never reopen a settled row (dispatcher.ts).
THEOREM SingleInstanceFinal == SingleInstance => (Spec => OutcomeIsFinal)
<1> DEFINE Final == \A r \in Rows : status[r] \in Terminal => status'[r] = status[r]
<1>1. ASSUME SingleInv, [Next]_vars
      PROVE  [Final]_vars
  <2> USE <1>1 DEF SingleInv, TypeOK, Terminal
  <2>1. ASSUME NEW w \in Workers, Claim(w)
        PROVE  Final
    <3>1. PICK S \in Batches : ClaimOf(w, S)
      BY <2>1 DEF Claim, ClaimOf
    <3>. QED  BY <3>1 DEF ClaimOf, Batches, Eligible
  <2>2. ASSUME NEW w \in Workers, NEW r \in Rows,
               MarkSent(w, r) \/ SendFails(w, r) \/ StampFails(w, r)
        PROVE  Final
    <3>1. status[r] \in {"pending", "processing"}
      BY <2>2 DEF MarkSent, SendFails, StampFails, HeldIsOpen, Held
    <3>. QED  BY <2>2, <3>1 DEF MarkSent, SendFails, StampFails
  <2>3. ASSUME NEW r \in Rows, NEW now \in BOOLEAN, Enqueue(r, now)
        PROVE  Final
    BY <2>3 DEF Enqueue
  <2>4. CASE RecoverOrphans
    BY <2>4 DEF RecoverOrphans
  <2>5. CASE UNCHANGED status
    BY <2>5
  <2>. QED
    BY <2>1, <2>2, <2>3, <2>4, <2>5
       DEF Next, vars, ComesDue, GoesStale, Abandon, Deliver, Finished
<1>. QED  BY <1>1, SingleInvariant, PTL DEF Spec, OutcomeIsFinal

-----------------------------------------------------------------------------
(* The refinement                                                          *)

\* Every lost stamp is one of a delivery, and a delivery in progress has not lost its.
ReceiptsOwed ==
    \A r \in Rows :
        /\ lost[r] <= sends[r]
        /\ \A w \in Workers : r \in sending[w] => lost[r] < sends[r]

\* With one worker instance ReceiptsOwed is an invariant (dispatcher.ts).
LEMMA ReceiptsKept == SingleInstance => (Spec => []ReceiptsOwed)
<1>1. Init => ReceiptsOwed
  BY DEF Init, ReceiptsOwed
<1>2. ASSUME SingleInstance, SingleInv, ReceiptsOwed, TypeOK', [Next]_vars
      PROVE  ReceiptsOwed'
  <2> USE <1>2 DEF SingleInv, TypeOK, ReceiptsOwed, SingleInstance
  <2>1. ASSUME NEW w \in Workers, NEW r \in Rows, Deliver(w, r)
        PROVE  ReceiptsOwed'
    BY <2>1 DEF Deliver
  <2>2. ASSUME NEW w \in Workers, NEW r \in Rows, StampFails(w, r)
        PROVE  ReceiptsOwed'
    BY <2>2 DEF StampFails, OneAtATime
  <2>3. ASSUME NEW w \in Workers, NEW r \in Rows, MarkSent(w, r)
        PROVE  ReceiptsOwed'
    BY <2>3 DEF MarkSent
  <2>4. ASSUME NEW w \in Workers, Abandon(w)
        PROVE  ReceiptsOwed'
    BY <2>4 DEF Abandon
  <2>5. CASE UNCHANGED <<sending, sends, lost>>
    BY <2>5
  <2>. QED
    BY <2>1, <2>2, <2>3, <2>4, <2>5
       DEF Next, vars, Enqueue, ComesDue, GoesStale, Claim, SendFails, RecoverOrphans, Finished
<1>3. SUFFICES ASSUME SingleInstance
                PROVE  Spec => []ReceiptsOwed
  OBVIOUS
<1>4. SingleInv /\ ReceiptsOwed /\ TypeOK' /\ [Next]_vars => ReceiptsOwed'
  BY <1>2, <1>3
<1>. QED  BY <1>1, <1>3, <1>4, SingleInvariant, TypeCorrect, PTL DEF Spec

\* The stamps and failures of one row are steps of the queue.
LEMMA OutcomeRefines ==
  ASSUME SingleInstance, SingleInv, ReceiptsOwed, TypeOK',
         NEW w \in Workers, NEW r \in Rows,
         MarkSent(w, r) \/ SendFails(w, r) \/ StampFails(w, r)
  PROVE  \/ Queue!Succeed(r) \/ Queue!LoseReceipt(r) \/ Queue!GiveUp(r)
         \/ UNCHANGED Queue!queueVars
<1> USE OutboxAssumption
    DEF SingleInv, TypeOK, Fate, Queue!queueVars, Queue!Open, Queue!Unnoted
<1>1. status[r] \in {"pending", "processing"} /\ claimed[w][r] = attempts[r]
  BY DEF MarkSent, SendFails, StampFails, HeldIsOpen, Held
<1>2. CASE MarkSent(w, r)
  <2>1. sends[r] > lost[r]
    BY <1>2 DEF MarkSent, ReceiptsOwed
  <2>. QED  BY <1>1, <1>2, <2>1 DEF MarkSent, Queue!Succeed
<1>3. CASE SendFails(w, r)
  <2>1. ~(sends[r] > lost[r])
    BY <1>1, <1>3 DEF SendFails, SendsAccounted, SingleInstance
  <2>2. CASE attempts[r] >= AttemptCap
    BY <1>1, <1>3, <2>1, <2>2 DEF SendFails, AfterError, Queue!GiveUp
  <2>3. CASE attempts[r] < AttemptCap
    BY <1>1, <1>3, <2>3 DEF SendFails, AfterError
  <2>. QED  BY <2>2, <2>3
<1>4. CASE StampFails(w, r)
  <2>1. sends[r] > lost[r]
    BY <1>4 DEF StampFails, ReceiptsOwed
  <2>2. CASE attempts[r] >= AttemptCap
    BY <1>1, <1>4, <2>1, <2>2 DEF StampFails, AfterError, Queue!LoseReceipt
  <2>3. CASE attempts[r] < AttemptCap
    BY <1>1, <1>4, <2>1, <2>3 DEF StampFails, AfterError, Queue!LoseReceipt
  <2>. QED  BY <2>2, <2>3
<1>. QED  BY <1>2, <1>3, <1>4

\* A pass that dies loses the receipt of the copy it was delivering, if any.
LEMMA AbandonRefines ==
  ASSUME SingleInstance, SingleInv, ReceiptsOwed, TypeOK', NEW w \in Workers, Abandon(w)
  PROVE  (\E r \in Rows : Queue!LoseReceipt(r)) \/ UNCHANGED Queue!queueVars
<1> USE DEF SingleInv, TypeOK, Fate, Queue!queueVars, Queue!Open, Queue!Unnoted
<1>1. CASE sending[w] = {}
  <2>1. lost' = lost
    BY <1>1 DEF Abandon
  <2>. QED  BY <2>1 DEF Abandon
<1>2. CASE sending[w] # {}
  <2>1. PICK r \in Rows : sending[w] = {r}
    <3>1. PICK r \in sending[w] : TRUE
      BY <1>2
    <3>2. r \in Rows
      BY <3>1
    <3>3. \A q \in sending[w] : q = r
      BY <3>1 DEF OneAtATime
    <3>4. sending[w] = {r}
      BY <3>1, <3>3
    <3>. QED  BY <3>2, <3>4
  <2>2. status[r] \in {"pending", "processing"}
    BY <2>1 DEF HeldIsOpen, Held
  <2>3. sends[r] > lost[r]
    BY <2>1 DEF ReceiptsOwed
  <2>4. lost' = [lost EXCEPT ![r] = @ + 1]
    BY <2>1 DEF Abandon
  <2>5. Queue!LoseReceipt(r)
    BY <2>2, <2>3, <2>4 DEF Abandon, Queue!LoseReceipt
  <2>. QED  BY <2>5
<1>. QED  BY <1>1, <1>2

\* With one worker instance the outbox implements the queue its producers rely on, as
\* far as safety goes: every statement of the workers is a step of the queue or none
\* (enqueue.ts, dispatcher.ts).
THEOREM SingleInstanceImplements == SingleInstance => (Spec => Queue!SafeSpec)
<1>1. Init => Queue!Init
  BY DEF Init, Queue!Init, Fate
<1>2. ASSUME SingleInstance, SingleInv, ReceiptsOwed, TypeOK', [Next]_vars
      PROVE  [Queue!Next]_(Queue!queueVars)
  <2> USE <1>2, OutboxAssumption
      DEF SingleInv, TypeOK, Queue!queueVars, Queue!Open, Queue!Unnoted
  <2>1. ASSUME NEW r \in Rows, NEW now \in BOOLEAN, Enqueue(r, now)
        PROVE  Queue!Post(r)
    BY <2>1 DEF Enqueue, Queue!Post, Fate
  <2>2. ASSUME NEW w \in Workers, Claim(w)
        PROVE  Queue!Try
    <3>1. PICK S \in Batches : ClaimOf(w, S)
      BY <2>2 DEF Claim, ClaimOf
    <3>2. \A r \in S : r \in Rows /\ status[r] = "pending"
      BY DEF Batches, Eligible
    <3>3. \A r \in Rows : Fate(r)' = Fate(r)
      BY <3>1, <3>2 DEF ClaimOf, Fate
    <3>4. \A r \in Rows : attempts'[r] = attempts[r]
                          \/ (Fate(r) = "open" /\ attempts'[r] = attempts[r] + 1)
      BY <3>1, <3>2 DEF ClaimOf, Fate
    <3>. QED  BY <2>2, <3>3, <3>4 DEF Claim, Queue!Try
  <2>3. ASSUME NEW w \in Workers, NEW r \in Rows, Deliver(w, r)
        PROVE  Queue!HandOver(r)
    <3>1. status[r] \in {"pending", "processing"}
      BY <2>3 DEF Deliver, HeldIsOpen, Held
    <3>2. sends[r] <= lost[r]
      BY <2>3, <3>1 DEF Deliver, SendsAccounted, SingleInstance
    <3>. QED  BY <2>3, <3>1, <3>2 DEF Deliver, Queue!HandOver, Fate
  <2>4. CASE RecoverOrphans
    BY <2>4 DEF RecoverOrphans, Fate
  <2>5. CASE UNCHANGED <<status, attempts, sends, lost>>
    BY <2>5 DEF Fate
  <2>. QED
    BY <2>1, <2>2, <2>3, <2>4, <2>5, OutcomeRefines, AbandonRefines
       DEF Next, vars, ComesDue, GoesStale, Finished, Queue!Next
<1>3. SUFFICES ASSUME SingleInstance
                PROVE  Spec => Queue!SafeSpec
  OBVIOUS
<1>4. SingleInv /\ ReceiptsOwed /\ TypeOK' /\ [Next]_vars => [Queue!Next]_(Queue!queueVars)
  BY <1>2, <1>3
<1>. QED
  BY <1>1, <1>3, <1>4, SingleInvariant, ReceiptsKept, TypeCorrect, PTL DEF Spec, Queue!SafeSpec
=============================================================================
