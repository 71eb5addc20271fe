-------------------------- MODULE Interviews_proofs --------------------------
(***************************************************************************)
(* What holds of the rounds of an application, of its stages and of its AI *)
(* interview, for any plan, panel, tabs, questions and number of requests. *)
(*                                                                         *)
(* Of the rounds that people hold, typing and OneLiveRound hold however    *)
(* requests overlap.  The other results are about requests that write on   *)
(* what they have read; what that is, a transaction keeps from its Begin   *)
(* on (SawEnough).                                                         *)
(*                                                                         *)
(* Of the AI interview, the report's cap and what the report is about hold *)
(* however its tabs overlap, and the rest is about tabs that take turns.   *)
(* The two share the application and no variable here.                     *)
(***************************************************************************)
EXTENDS Interviews, AiInterview, WellFoundedInduction, TLAPS

-----------------------------------------------------------------------------
(* Stages and requests                                                     *)

\* The five stages, and the ones that rounds belong to and lead to (interviewStageContext).
LEMMA StageFacts ==
  /\ Stages = {"shortlisted", "tech_interview", "hr_round", "offer_drafted",
               "recruiter_rejected"}
  /\ \A r : BelongsTo(r) \in Stages /\ NextStage(r) \in Stages
  /\ "none" \notin Stages
<1>1. Stages = {"shortlisted", "tech_interview", "hr_round", "offer_drafted",
                "recruiter_rejected"}
  <2>1. Len(Pipeline) = 5
    BY DEF Pipeline
  <2>2. 1 .. 5 = {1, 2, 3, 4, 5}
    OBVIOUS
  <2>3. /\ Pipeline[1] = "shortlisted" /\ Pipeline[2] = "tech_interview"
        /\ Pipeline[3] = "hr_round" /\ Pipeline[4] = "offer_drafted"
        /\ Pipeline[5] = "recruiter_rejected"
    BY DEF Pipeline
  <2>. QED  BY <2>1, <2>2, <2>3 DEF Stages
<1>. QED  BY <1>1 DEF BelongsTo, NextStage

\* The order of a stage is a number (STAGE_ORDER_INDEX).
LEMMA OrderIsNat ==
  ASSUME NEW st \in Stages
  PROVE  Order(st) \in Nat
<1>1. \E n \in 1 .. Len(Pipeline) : Pipeline[n] = st
  BY DEF Stages
<1>2. Order(st) \in 1 .. Len(Pipeline)
  BY <1>1 DEF Order
<1>3. Len(Pipeline) \in Nat
  BY DEF Pipeline
<1>. QED  BY <1>2, <1>3

\* What a request is about.
LEMMA RequestFields ==
  ASSUME NEW ask \in Requests
  PROVE  /\ ask.op \in {"schedule", "reschedule"} => ask.round \in Rounds /\ ask.panel \in Panels
         /\ ask.op \in {"cancel", "no_show", "complete", "force", "advance", "confirm"}
                => ask.i \in Booked
         /\ ask.op \in {"save", "submit", "reopen"} => ask.i \in Booked /\ ask.p \in Panelists
         /\ ask.op = "move" => ask.to \in Targets
         /\ ask.op # "idle"
BY DEF Requests, Bookings, RoundRequests, CardRequests, StageRequests

\* A request stays one when more interviews are booked.
LEMMA RequestsGrow ==
  ASSUME booked \in Nat, booked' \in Nat, booked' >= booked
  PROVE  Requests \subseteq Requests'
<1>1. Booked \subseteq Booked'
  BY DEF Booked
<1>. QED
  BY <1>1 DEF Requests, Bookings, RoundRequests, CardRequests, StageRequests

-----------------------------------------------------------------------------
(* Typing                                                                  *)

Rows ==
    [round : Rounds \union {"none"},
     status : {"none", "scheduled", "completed", "no_show", "cancelled"},
     panel : SUBSET Panelists, confirmed : BOOLEAN]

\* What a transaction has read, as far as its writes and the properties depend on it.
SawEnough(s) ==
    /\ At(s, {"schedule", "reschedule", "advance", "move"}) => tx[s].saw.stage \in Stages
    /\ At(s, {"revert"}) => tx[s].saw.last \in [from : Stages, to : Stages]
    /\ At(s, {"complete"}) =>
            /\ iv[tx[s].req.i].panel # {}
            /\ \A p \in iv[tx[s].req.i].panel : tx[s].saw.cards[p] = "submitted"
    /\ At(s, {"save", "submit"}) =>
            tx[s].req.p \in iv[tx[s].req.i].panel /\ tx[s].saw.card # "submitted"
    /\ At(s, {"reopen"}) => tx[s].saw.status # "completed"

TypeInv == TypeOK /\ \A s \in Sessions : SawEnough(s)

\* The transactions of the others, and what they have read, outlive a step of s that ends
\* its own and keeps the panels of the booked rounds.
LEMMA OthersKeep ==
  ASSUME TypeInv, NEW s \in Sessions, tx' = [tx EXCEPT ![s] = NoTx],
         booked' \in Nat, booked' >= booked,
         \A i \in Booked : iv'[i].panel = iv[i].panel
  PROVE  /\ DOMAIN tx' = Sessions
         /\ \A u \in Sessions : Idle(u)' \/ tx'[u].req \in Requests'
         /\ \A u \in Sessions : SawEnough(u)'
<1>1. Requests \subseteq Requests'
  BY RequestsGrow DEF TypeInv, TypeOK
<1>2. tx'[s] = NoTx /\ \A u \in Sessions \ {s} : tx'[u] = tx[u]
  BY DEF TypeInv, TypeOK
<1>3. SawEnough(s)'
  BY <1>2 DEF SawEnough, At, NoTx
<1>4. ASSUME NEW u \in Sessions \ {s}
      PROVE  SawEnough(u)'
  <2>1. CASE Idle(u)
    BY <1>2, <2>1 DEF SawEnough, At, NoTx, Idle
  <2>2. CASE tx[u].req \in Requests
    <3>1. At(u, {"complete", "save", "submit"}) => tx[u].req.i \in Booked
      BY <2>2, RequestFields DEF At
    <3>. QED  BY <1>2, <3>1 DEF SawEnough, At, TypeInv
  <2>. QED  BY <2>1, <2>2 DEF TypeInv, TypeOK
<1>. QED  BY <1>1, <1>2, <1>3, <1>4 DEF TypeInv, TypeOK, Idle

\* A request begins with what is true.
LEMMA BeginsTyped ==
  ASSUME TypeInv, NEW s \in Sessions, Begin(s)
  PROVE  TypeInv'
<1>1. PICK ask \in Requests :
        Passes(ask) /\ tx' = [tx EXCEPT ![s] = [req |-> ask, saw |-> Reads(ask)]]
  BY DEF Begin
<1>2. UNCHANGED <<iv, booked, card, forced, stage, last, proceed>>
  BY DEF Begin, roundVars, stageVars
<1>3. /\ tx'[s] = [req |-> ask, saw |-> Reads(ask)]
      /\ \A u \in Sessions \ {s} : tx'[u] = tx[u]
  BY <1>1 DEF TypeInv, TypeOK
<1>4. SawEnough(s)'
  <2>1. ask.op \in {"schedule", "reschedule", "advance", "move"} => Reads(ask).stage = stage
    BY DEF Reads
  <2>2. ask.op = "revert" => Reads(ask).last = last /\ last.from # "none"
    BY <1>1 DEF Reads, Passes
  <2>3. ask.op = "complete" =>
            /\ Reads(ask).cards = card[ask.i]
            /\ iv[ask.i].panel # {}
            /\ \A p \in iv[ask.i].panel : card[ask.i][p] = "submitted"
    BY <1>1 DEF Reads, Passes, MayComplete, AllSubmitted
  <2>4. ask.op \in {"save", "submit"} =>
            /\ Reads(ask).card = card[ask.i][ask.p]
            /\ ask.p \in iv[ask.i].panel /\ card[ask.i][ask.p] # "submitted"
    BY <1>1 DEF Reads, Passes
  <2>5. ask.op = "reopen" => Reads(ask).status = iv[ask.i].status /\ iv[ask.i].status # "completed"
    BY <1>1 DEF Reads, Passes, MayReopen
  <2>. QED
    BY <1>2, <1>3, <2>1, <2>2, <2>3, <2>4, <2>5 DEF SawEnough, At, TypeInv, TypeOK
<1>5. \A u \in Sessions \ {s} : SawEnough(u)'
  BY <1>2, <1>3 DEF SawEnough, At, TypeInv
<1>6. Requests' = Requests
  BY <1>2 DEF Requests, RoundRequests, CardRequests, StageRequests, Booked
<1>7. DOMAIN tx' = Sessions /\ \A u \in Sessions : Idle(u)' \/ tx'[u].req \in Requests'
  BY <1>1, <1>3, <1>6 DEF TypeInv, TypeOK, Idle
<1>8. requests' \in 0 .. MaxRequests
  BY InterviewsAssumption DEF Begin, TypeInv, TypeOK
<1>. QED
  BY <1>2, <1>4, <1>5, <1>7, <1>8 DEF Begin, TypeInv, TypeOK

\* A booking keeps the rounds that are there, but for the one it replaces
\* (doScheduleRound, rescheduleInterview).
LEMMA BookingRows ==
  ASSUME TypeInv, NEW s \in Sessions, CommitBooking(s)
  PROVE  /\ iv' \in [Interviews -> Rows]
         /\ booked' = booked + 1 /\ booked' \in 0 .. MaxInterviews
         /\ iv'[booked'].status = "scheduled"
         /\ \A i \in Booked : /\ iv'[i].round = iv[i].round /\ iv'[i].panel = iv[i].panel
                              /\ iv'[i].status \in {iv[i].status, "cancelled"}
<1> DEFINE ask == tx[s].req
           old == IF ask.op = "reschedule" THEN tx[s].saw.live ELSE {}
           rows == [i \in Interviews |->
                        IF i \in old THEN [iv[i] EXCEPT !.status = "cancelled"] ELSE iv[i]]
           new == [round |-> ask.round, status |-> "scheduled", panel |-> ask.panel,
                   confirmed |-> FALSE]
<1>1. iv' = [rows EXCEPT ![booked + 1] = new] /\ booked' = booked + 1 /\ booked < MaxInterviews
  BY DEF CommitBooking
<1>2. ask \in Requests
  BY DEF CommitBooking, At, TypeInv, TypeOK, Idle, NoTx
<1>3. new \in Rows
  <2>1. ask.round \in Rounds /\ ask.panel \in Panels
    BY <1>2, RequestFields DEF CommitBooking, At
  <2>. QED  BY <2>1, InterviewsAssumption DEF Rows
<1>4. rows \in [Interviews -> Rows]
  <2>1. iv \in [Interviews -> Rows]
    BY DEF TypeInv, TypeOK, Rows
  <2>2. \A i \in Interviews : [iv[i] EXCEPT !.status = "cancelled"] \in Rows
    BY <2>1 DEF Rows
  <2>. QED  BY <2>1, <2>2
<1>5. booked + 1 \in Interviews
  BY <1>1, InterviewsAssumption DEF Interviews, TypeInv, TypeOK
<1>6. \A i \in Booked : i \in Interviews /\ i # booked + 1
  BY InterviewsAssumption DEF Booked, Interviews, TypeInv, TypeOK
<1>7. \A i \in Interviews : /\ rows[i].round = iv[i].round /\ rows[i].panel = iv[i].panel
                            /\ rows[i].status \in {iv[i].status, "cancelled"}
  BY DEF TypeInv, TypeOK
<1> HIDE DEF rows, new
<1>8. iv' \in [Interviews -> Rows]
  BY <1>1, <1>3, <1>4
<1>9. \A i \in Booked : iv'[i] = rows[i]
  BY <1>1, <1>4, <1>6
<1>10. iv'[booked'] = new
  BY <1>1, <1>4, <1>5
<1>11. iv'[booked'].status = "scheduled"
  BY <1>10 DEF new
<1>12. booked' \in 0 .. MaxInterviews
  BY <1>1, InterviewsAssumption DEF TypeInv, TypeOK
<1>. QED
  BY <1>1, <1>6, <1>7, <1>8, <1>9, <1>11, <1>12

\* The rounds are rows of the table, those that are booked among them.
LEMMA RowsTyped ==
  ASSUME TypeInv
  PROVE  iv \in [Interviews -> Rows] /\ Booked \subseteq Interviews
<1>1. Booked \subseteq Interviews
  BY InterviewsAssumption DEF TypeInv, TypeOK, Booked, Interviews
<1>. QED  BY <1>1 DEF TypeInv, TypeOK, Rows

\* Setting a status or a confirmation changes nothing else of a round.
LEMMA StatusRows ==
  ASSUME TypeInv, NEW i \in Booked, NEW st \in {"completed", "no_show", "cancelled"},
         iv' = [iv EXCEPT ![i].status = st]
  PROVE  /\ iv' \in [Interviews -> Rows]
         /\ iv'[i].status = st
         /\ \A j \in Interviews \ {i} : iv'[j] = iv[j]
         /\ \A j \in Interviews : iv'[j].round = iv[j].round /\ iv'[j].panel = iv[j].panel
         /\ Booked \subseteq Interviews
<1>1. iv \in [Interviews -> Rows] /\ i \in Interviews /\ Booked \subseteq Interviews
  BY RowsTyped
<1>2. [iv[i] EXCEPT !.status = st] \in Rows
  BY <1>1 DEF Rows
<1>. QED  BY <1>1, <1>2 DEF Rows

\* A confirmation changes nothing else of a round (confirm by link).
LEMMA ConfirmRows ==
  ASSUME TypeInv, NEW i \in Booked, iv' = [iv EXCEPT ![i].confirmed = TRUE]
  PROVE  /\ iv' \in [Interviews -> Rows]
         /\ \A j \in Interviews : /\ iv'[j].round = iv[j].round /\ iv'[j].panel = iv[j].panel
                                  /\ iv'[j].status = iv[j].status
         /\ Booked \subseteq Interviews
<1>1. iv \in [Interviews -> Rows] /\ i \in Interviews /\ Booked \subseteq Interviews
  BY RowsTyped
<1>2. [iv[i] EXCEPT !.confirmed = TRUE] \in Rows
  BY <1>1 DEF Rows
<1>. QED  BY <1>1, <1>2 DEF Rows

\* The request of a commit is one about a booked round.
LEMMA CommitsBooked ==
  ASSUME TypeInv, NEW s \in Sessions
  PROVE  /\ At(s, {"cancel", "no_show", "complete", "force", "confirm", "advance"})
                => tx[s].req.i \in Booked
         /\ At(s, {"save", "submit", "reopen"})
                => tx[s].req.i \in Booked /\ tx[s].req.p \in Panelists
         /\ At(s, {"move"}) => tx[s].req.to \in Targets
BY RequestFields DEF At, TypeInv, TypeOK, Idle, NoTx

\* TypeOK is an invariant of the interview and stage procedures (router.ts), together with
\* what their transactions have read.
LEMMA TypeInvariant == Spec => []TypeInv
<1>1. Init => TypeInv
  <2>1. 0 \in 0 .. MaxInterviews /\ 0 \in 0 .. MaxRequests
    BY InterviewsAssumption
  <2>2. NoInterview \in Rows
    BY DEF NoInterview, Rows
  <2>3. "shortlisted" \in Stages
    BY StageFacts
  <2>4. Init => \A s \in Sessions : SawEnough(s)
    <3>1. Init => \A s \in Sessions : tx[s].req.op = "idle"
      <4>1. NoTx.req.op = "idle"
        BY DEF NoTx
      <4>. QED  BY <4>1 DEF Init
    <3>. QED  BY <3>1 DEF SawEnough, At
  <2>5. ASSUME Init
        PROVE  TypeOK
    <3>1. iv \in [Interviews -> Rows]
      BY <2>2, <2>5 DEF Init
    <3>2. card \in [Interviews -> [Panelists -> {"none", "draft", "submitted"}]]
      BY <2>5 DEF Init
    <3>3. DOMAIN tx = Sessions /\ \A s \in Sessions : Idle(s)
      BY <2>5 DEF Init, Idle
    <3>. QED  BY <2>1, <2>3, <2>5, <3>1, <3>2, <3>3 DEF Init, TypeOK, Rows
  <2>. QED  BY <2>4, <2>5 DEF TypeInv
<1>2. ASSUME TypeInv, [Next]_vars
      PROVE  TypeInv'
  <2> USE <1>2
  <2>1. ASSUME NEW s \in Sessions, CommitBooking(s)
        PROVE  TypeInv'
    <3>1. tx' = [tx EXCEPT ![s] = NoTx] /\ UNCHANGED <<card, forced, proceed, requests>>
          /\ stale' \in BOOLEAN
      BY <2>1 DEF CommitBooking, Finish, TypeInv, TypeOK
    <3>2. tx[s].saw.stage \in Stages
      BY <2>1 DEF CommitBooking, SawEnough, At, TypeInv
    <3>3. stage' \in Stages /\ last' \in [from : Stages \union {"none"}, to : Stages]
      BY <2>1, <3>2, StageFacts
         DEF CommitBooking, SyncStage, Transition, stageVars, TypeInv, TypeOK
    <3>4. booked' \in Nat /\ booked' >= booked
      BY <2>1, BookingRows DEF TypeInv, TypeOK
    <3>. QED
      BY <2>1, <3>1, <3>3, <3>4, BookingRows, OthersKeep DEF TypeInv, TypeOK, Rows
  <2>2. ASSUME NEW s \in Sessions, CommitCancel(s) \/ CommitNoShow(s) \/ CommitComplete(s)
        PROVE  TypeInv'
    <3>1. PICK st \in {"cancelled", "no_show", "completed"} :
            iv' = [iv EXCEPT ![tx[s].req.i].status = st]
      BY <2>2 DEF CommitCancel, CommitNoShow, CommitComplete, SetStatus
    <3>2. tx[s].req.i \in Booked
      BY <2>2, CommitsBooked DEF CommitCancel, CommitNoShow, CommitComplete, At
    <3>3. /\ tx' = [tx EXCEPT ![s] = NoTx]
          /\ UNCHANGED <<booked, card, stage, last, proceed, requests>>
          /\ stale' \in BOOLEAN /\ forced' \subseteq forced \union {tx[s].req.i}
      BY <2>2 DEF CommitCancel, CommitNoShow, CommitComplete, Finish, stageVars, TypeInv, TypeOK
    <3>4. booked' \in Nat /\ booked' >= booked
      BY <3>3 DEF TypeInv, TypeOK
    <3>5. /\ iv' \in [Interviews -> Rows] /\ forced' \subseteq Interviews
          /\ \A i \in Booked : iv'[i].panel = iv[i].panel
      <4>1. /\ iv' \in [Interviews -> Rows] /\ Booked \subseteq Interviews
            /\ \A j \in Interviews : iv'[j].panel = iv[j].panel
        BY <3>1, <3>2, StatusRows
      <4>. QED  BY <3>2, <3>3, <4>1 DEF TypeInv, TypeOK
    <3>6. /\ DOMAIN tx' = Sessions
          /\ \A u \in Sessions : Idle(u)' \/ tx'[u].req \in Requests'
          /\ \A u \in Sessions : SawEnough(u)'
      BY <3>3, <3>4, <3>5, OthersKeep
    <3>. QED
      BY <3>3, <3>5, <3>6 DEF TypeInv, TypeOK, Rows
  <2>3. ASSUME NEW s \in Sessions, CommitConfirm(s)
        PROVE  TypeInv'
    <3>1. tx[s].req.i \in Booked
      BY <2>3, CommitsBooked DEF CommitConfirm, At
    <3>2. /\ iv' = [iv EXCEPT ![tx[s].req.i].confirmed = TRUE]
          /\ tx' = [tx EXCEPT ![s] = NoTx]
          /\ UNCHANGED <<booked, card, forced, stage, last, proceed, requests>>
          /\ stale' \in BOOLEAN
      BY <2>3 DEF CommitConfirm, Finish, stageVars, TypeInv, TypeOK
    <3>3. booked' \in Nat /\ booked' >= booked
      BY <3>2 DEF TypeInv, TypeOK
    <3>. QED
      BY <3>1, <3>2, <3>3, ConfirmRows, OthersKeep DEF TypeInv, TypeOK, Rows
  <2>4. ASSUME NEW s \in Sessions, CommitSave(s) \/ CommitReopen(s)
        PROVE  TypeInv'
    <3>1. /\ tx' = [tx EXCEPT ![s] = NoTx]
          /\ UNCHANGED <<iv, booked, forced, stage, last, proceed, requests>>
          /\ stale' \in BOOLEAN
      BY <2>4 DEF CommitSave, CommitReopen, Finish, stageVars, TypeInv, TypeOK
    <3>2. card' \in [Interviews -> [Panelists -> {"none", "draft", "submitted"}]]
      <4>1. PICK v \in {"draft", "submitted"} :
              card' = [card EXCEPT ![tx[s].req.i][tx[s].req.p] = v]
        BY <2>4 DEF CommitSave, CommitReopen
      <4>. QED  BY <4>1 DEF TypeInv, TypeOK
    <3>3. booked' \in Nat /\ booked' >= booked
      BY <3>1 DEF TypeInv, TypeOK
    <3>. QED
      BY <3>1, <3>2, <3>3, OthersKeep DEF TypeInv, TypeOK
  <2>5. ASSUME NEW s \in Sessions, CommitAdvance(s) \/ CommitMove(s) \/ CommitRevert(s)
        PROVE  TypeInv'
    <3>1. /\ tx' = [tx EXCEPT ![s] = NoTx]
          /\ UNCHANGED <<iv, booked, card, forced, proceed, requests>>
          /\ stale' \in BOOLEAN
      BY <2>5 DEF CommitAdvance, CommitMove, CommitRevert, Finish, roundVars, TypeInv, TypeOK
    <3>2. stage' \in Stages /\ last' \in [from : Stages \union {"none"}, to : Stages]
      <4>1. CASE CommitAdvance(s)
        BY <4>1, StageFacts DEF CommitAdvance, Transition, SawEnough, At, TypeInv
      <4>2. CASE CommitMove(s)
        BY <4>2, CommitsBooked, TargetsAssumption
           DEF CommitMove, Transition, SawEnough, At, TypeInv
      <4>3. CASE CommitRevert(s)
        BY <4>3 DEF CommitRevert, Reverted, Transition, SawEnough, At, TypeInv
      <4>. QED  BY <2>5, <4>1, <4>2, <4>3
    <3>3. booked' \in Nat /\ booked' >= booked
      BY <3>1 DEF TypeInv, TypeOK
    <3>. QED
      BY <3>1, <3>2, <3>3, OthersKeep DEF TypeInv, TypeOK
  <2>6. ASSUME NEW s \in Sessions, Abort(s)
        PROVE  TypeInv'
    <3>1. /\ tx' = [tx EXCEPT ![s] = NoTx]
          /\ UNCHANGED <<iv, booked, card, forced, stage, last, proceed, requests, stale>>
      BY <2>6 DEF Abort, roundVars, stageVars
    <3>2. booked' \in Nat /\ booked' >= booked
      BY <3>1 DEF TypeInv, TypeOK
    <3>. QED
      BY <3>1, <3>2, OthersKeep DEF TypeInv, TypeOK
  <2>7. ASSUME NEW i \in Booked, ConfirmByLink(i)
        PROVE  TypeInv'
    <3>1. /\ iv' = [iv EXCEPT ![i].confirmed = TRUE]
          /\ UNCHANGED <<booked, card, forced, stage, last, proceed, tx, requests, stale>>
      BY <2>7 DEF ConfirmByLink, stageVars
    <3>2. \A s \in Sessions : SawEnough(s)'
      <4>1. ASSUME NEW s \in Sessions
            PROVE  SawEnough(s)'
        <5>1. \A j \in Interviews : iv'[j].panel = iv[j].panel
          BY <3>1, ConfirmRows
        <5>2. At(s, {"complete", "save", "submit"}) => tx[s].req.i \in Interviews
          BY CommitsBooked, RowsTyped DEF At
        <5>. QED  BY <3>1, <5>1, <5>2 DEF SawEnough, At, TypeInv
      <4>. QED  BY <4>1
    <3>3. Requests' = Requests
      BY <3>1 DEF Requests, RoundRequests, CardRequests, StageRequests, Booked
    <3>. QED
      BY <3>1, <3>2, <3>3, ConfirmRows DEF TypeInv, TypeOK, Rows, Idle
  <2>8. CASE Assess \/ UNCHANGED vars
    <3>1. UNCHANGED <<iv, booked, card, forced, stage, last, tx, requests, stale>>
          /\ proceed' \in BOOLEAN
      BY <2>8 DEF Assess, vars, roundVars, stageVars, TypeInv, TypeOK
    <3>2. Requests' = Requests
      BY <3>1 DEF Requests, RoundRequests, CardRequests, StageRequests, Booked
    <3>. QED
      BY <3>1, <3>2 DEF TypeInv, TypeOK, SawEnough, At, Idle
  <2>. QED
    BY <2>1, <2>2, <2>3, <2>4, <2>5, <2>6, <2>7, <2>8, BeginsTyped DEF Next
<1>. QED  BY <1>1, <1>2, PTL DEF Spec

\* TypeOK is an invariant of the interview and stage procedures (router.ts).
THEOREM TypeCorrect == Spec => []TypeOK
BY TypeInvariant, PTL DEF TypeInv

-----------------------------------------------------------------------------
(* One live interview per round                                            *)

\* What the index has admitted, and no booked row is unused.
RowsAdmitted == Admits(iv) /\ \A i \in Booked : iv[i].status # "none"

\* The index admits the rows after every step (uniq_interviews_application_round_active).
LEMMA AdmittedInvariant == Spec => []RowsAdmitted
<1>1. Init => RowsAdmitted
  <2>1. Init => \A i \in Interviews : iv[i].status = "none"
    BY DEF Init, NoInterview
  <2>2. Init => Booked = {}
    BY DEF Init, Booked
  <2>. QED  BY <2>1, <2>2 DEF RowsAdmitted, Admits
<1>2. ASSUME TypeInv, RowsAdmitted, [Next]_vars
      PROVE  RowsAdmitted'
  <2> USE <1>2
  <2>1. ASSUME NEW s \in Sessions, CommitBooking(s)
        PROVE  RowsAdmitted'
    <3>1. Admits(iv)'
      BY <2>1 DEF CommitBooking, Admits
    <3>2. \A i \in Booked' : i \in Booked \/ i = booked'
      <4>1. booked' = booked + 1 /\ booked \in Nat
        BY <2>1, BookingRows DEF TypeInv, TypeOK
      <4>. QED  BY <4>1 DEF Booked
    <3>3. \A i \in Booked : iv'[i].status \in {iv[i].status, "cancelled"}
      BY <2>1, BookingRows
    <3>4. iv'[booked'].status = "scheduled"
      BY <2>1, BookingRows
    <3>. QED  BY <3>1, <3>2, <3>3, <3>4 DEF RowsAdmitted
  <2>2. ASSUME NEW s \in Sessions, CommitCancel(s) \/ CommitNoShow(s) \/ CommitComplete(s)
        PROVE  RowsAdmitted'
    <3>1. PICK st \in {"cancelled", "no_show", "completed"} :
            iv' = [iv EXCEPT ![tx[s].req.i].status = st]
      BY <2>2 DEF CommitCancel, CommitNoShow, CommitComplete, SetStatus
    <3>2. tx[s].req.i \in Booked
      BY <2>2, CommitsBooked DEF CommitCancel, CommitNoShow, CommitComplete, At
    <3>3. Admits(iv)' /\ booked' = booked
      BY <2>2 DEF CommitCancel, CommitNoShow, CommitComplete, SetStatus, Admits
    <3>4. /\ iv'[tx[s].req.i].status = st
          /\ \A j \in Interviews \ {tx[s].req.i} : iv'[j] = iv[j]
          /\ Booked \subseteq Interviews
      BY <3>1, <3>2, StatusRows
    <3>. QED  BY <3>3, <3>4 DEF RowsAdmitted, Booked
  <2>3. ASSUME NEW i \in Booked, iv' = [iv EXCEPT ![i].confirmed = TRUE], booked' = booked
        PROVE  RowsAdmitted'
    <3>1. /\ \A j \in Interviews : iv'[j].round = iv[j].round /\ iv'[j].status = iv[j].status
          /\ Booked \subseteq Interviews
      BY <2>3, ConfirmRows
    <3>. QED  BY <2>3, <3>1 DEF RowsAdmitted, Admits, Booked
  <2>4. ASSUME NEW s \in Sessions, CommitConfirm(s)
        PROVE  RowsAdmitted'
    BY <2>3, <2>4, CommitsBooked DEF CommitConfirm, At
  <2>5. CASE UNCHANGED <<iv, booked>>
    BY <2>5 DEF RowsAdmitted, Admits, Booked
  <2>. QED
    BY <2>1, <2>2, <2>3, <2>4, <2>5
       DEF Next, vars, roundVars, Begin, Abort, CommitSave, CommitReopen, CommitAdvance,
           CommitMove, CommitRevert, ConfirmByLink, Assess
<1>. QED  BY <1>1, <1>2, TypeInvariant, PTL DEF Spec

\* OneLiveRound holds however bookings, rebookings, cancellations and completions overlap
\* (doScheduleRound, rescheduleInterview).
THEOREM RoundsLiveOnce == Spec => []OneLiveRound
<1>1. TypeInv /\ RowsAdmitted => OneLiveRound
  BY RowsTyped DEF RowsAdmitted, Admits, OneLiveRound, Rows
<1>. QED  BY <1>1, TypeInvariant, AdmittedInvariant, PTL

-----------------------------------------------------------------------------
(* The log of the stages                                                   *)

\* The last transition has led to the stage the application is at.
LogIsCurrent == last.to = stage

\* LogIsCurrent holds: a stage is written together with its transition (SyncStage, Transition).
LEMMA LogStaysCurrent == Spec => []LogIsCurrent
<1>1. Init => LogIsCurrent
  BY DEF Init, LogIsCurrent
<1>2. ASSUME LogIsCurrent, [Next]_vars
      PROVE  LogIsCurrent'
  <2> USE <1>2 DEF LogIsCurrent
  <2>1. ASSUME NEW s \in Sessions, CommitBooking(s)
        PROVE  LogIsCurrent'
    BY <2>1 DEF CommitBooking, SyncStage, Transition, stageVars
  <2>2. ASSUME NEW s \in Sessions, CommitAdvance(s) \/ CommitMove(s) \/ CommitRevert(s)
        PROVE  LogIsCurrent'
    BY <2>2 DEF CommitAdvance, CommitMove, CommitRevert, Reverted, Transition
  <2>3. CASE UNCHANGED <<stage, last>>
    BY <2>3
  <2>. QED
    BY <2>1, <2>2, <2>3
       DEF Next, vars, stageVars, Begin, Abort, CommitCancel, CommitNoShow, CommitComplete,
           CommitConfirm, CommitSave, CommitReopen, ConfirmByLink, Assess
<1>. QED  BY <1>1, <1>2, PTL DEF Spec

\* Who writes without having become stale writes on what still holds.
LEMMA FreshReads ==
  ASSUME TypeInv, NEW s \in Sessions, Finish(s), ~stale'
  PROVE  /\ ~stale
         /\ At(s, {"schedule", "reschedule", "advance", "move"}) => tx[s].saw.stage = stage
         /\ At(s, {"revert"}) => tx[s].saw.last = last
         /\ At(s, {"complete"}) => tx[s].saw.cards = card[tx[s].req.i]
         /\ At(s, {"save", "submit"}) => tx[s].saw.card = card[tx[s].req.i][tx[s].req.p]
         /\ At(s, {"reopen"}) => tx[s].saw.status = iv[tx[s].req.i].status
<1>1. ~stale /\ Reads(tx[s].req) = tx[s].saw
  BY DEF Finish, TypeInv, TypeOK
<1>2. CASE At(s, {"schedule", "reschedule"})
  BY <1>1, <1>2 DEF Reads, At
<1>3. CASE At(s, {"advance", "move"})
  BY <1>1, <1>3 DEF Reads, At
<1>4. CASE At(s, {"revert"})
  BY <1>1, <1>4 DEF Reads, At
<1>5. CASE At(s, {"complete"})
  BY <1>1, <1>5 DEF Reads, At
<1>6. CASE At(s, {"save", "submit"})
  BY <1>1, <1>6 DEF Reads, At
<1>7. CASE At(s, {"reopen"})
  BY <1>1, <1>7 DEF Reads, At
<1>. QED  BY <1>1, <1>2, <1>3, <1>4, <1>5, <1>6, <1>7 DEF At

\* LogIsChain holds for any number of requests that write on what they have read
\* (transitionApplicationStage, syncStageForRound, revertApplicationStage).
THEOREM LogChained == Spec => LogIsChain
<1> DEFINE Chained == (<<stage, last>>' # <<stage, last>> /\ ~stale') => last'.from = stage
<1>1. ASSUME TypeInv, LogIsCurrent, [Next]_vars
      PROVE  Chained
  <2> USE <1>1
  <2>1. ASSUME NEW s \in Sessions, CommitBooking(s)
        PROVE  Chained
    BY <2>1, FreshReads DEF CommitBooking, SyncStage, Transition, stageVars, At
  <2>2. ASSUME NEW s \in Sessions, CommitAdvance(s) \/ CommitMove(s)
        PROVE  Chained
    <3>1. At(s, {"schedule", "reschedule", "advance", "move"}) /\ Finish(s)
      BY <2>2 DEF CommitAdvance, CommitMove, At
    <3>2. last'.from = tx[s].saw.stage
      BY <2>2 DEF CommitAdvance, CommitMove, Transition
    <3>. QED  BY <3>1, <3>2, FreshReads
  <2>3. ASSUME NEW s \in Sessions, CommitRevert(s)
        PROVE  Chained
    BY <2>3, FreshReads DEF CommitRevert, Reverted, Transition, At, LogIsCurrent
  <2>4. CASE UNCHANGED <<stage, last>>
    BY <2>4
  <2>. QED
    BY <2>1, <2>2, <2>3, <2>4
       DEF Next, vars, stageVars, Begin, Abort, CommitCancel, CommitNoShow, CommitComplete,
           CommitConfirm, CommitSave, CommitReopen, ConfirmByLink, Assess
<1>. QED  BY <1>1, TypeInvariant, LogStaysCurrent, PTL DEF Spec, LogIsChain

\* BookingNeverMovesBack holds for any number of requests that write on what they have
\* read (syncStageForRound).
THEOREM BookingsForward == Spec => BookingNeverMovesBack
<1> DEFINE Forward == (booked' # booked /\ ~stale') => Order(stage') >= Order(stage)
<1>1. ASSUME TypeInv, TypeInv', [Next]_vars
      PROVE  Forward
  <2> USE <1>1
  <2>1. Order(stage) \in Nat /\ Order(stage') \in Nat
    BY OrderIsNat DEF TypeInv, TypeOK
  <2>2. ASSUME NEW s \in Sessions, CommitBooking(s), ~stale'
        PROVE  Order(stage') >= Order(stage)
    <3>1. tx[s].saw.stage = stage
      BY <2>2, FreshReads DEF CommitBooking, At
    <3>2. CASE Order(BelongsTo(tx[s].req.round)) <= Order(stage)
      BY <2>1, <2>2, <3>1, <3>2 DEF CommitBooking, SyncStage, stageVars
    <3>3. CASE ~(Order(BelongsTo(tx[s].req.round)) <= Order(stage))
      <4>1. stage' = BelongsTo(tx[s].req.round)
        BY <2>2, <3>1, <3>3 DEF CommitBooking, SyncStage, Transition
      <4>. QED  BY <2>1, <3>3, <4>1
    <3>. QED  BY <3>2, <3>3
  <2>3. CASE UNCHANGED booked
    BY <2>3
  <2>. QED
    BY <2>2, <2>3
       DEF Next, vars, roundVars, Begin, Abort, CommitCancel, CommitNoShow, CommitComplete,
           CommitConfirm, CommitSave, CommitReopen, CommitAdvance, CommitMove, CommitRevert,
           ConfirmByLink, Assess
<1>. QED  BY <1>1, TypeInvariant, PTL DEF Spec, BookingNeverMovesBack

-----------------------------------------------------------------------------
(* The basis of a decision                                                 *)

\* DecisionBasis holds for any number of requests that write on what they have read
\* (completeInterview, saveInterviewFeedback, reopenInterviewFeedback).
THEOREM BasisKept == Spec => []DecisionBasis
<1>1. Init => DecisionBasis
  BY DEF Init, DecisionBasis, Booked
<1>2. ASSUME TypeInv, DecisionBasis, [Next]_vars
      PROVE  DecisionBasis'
  <2> USE <1>2
  <2>1. ASSUME NEW s \in Sessions, CommitBooking(s)
        PROVE  DecisionBasis'
    <3>1. \A i \in Booked' : i \in Booked \/ i = booked'
      <4>1. booked' = booked + 1 /\ booked \in Nat
        BY <2>1, BookingRows DEF TypeInv, TypeOK
      <4>. QED  BY <4>1 DEF Booked
    <3>2. iv'[booked'].status = "scheduled"
      BY <2>1, BookingRows
    <3>3. \A i \in Booked : /\ iv'[i].panel = iv[i].panel
                            /\ iv'[i].status = "completed" => iv[i].status = "completed"
      BY <2>1, BookingRows
    <3>4. UNCHANGED <<card, forced>> /\ (stale => stale')
      BY <2>1 DEF CommitBooking, Finish
    <3>. QED  BY <3>1, <3>2, <3>3, <3>4 DEF DecisionBasis, AllSubmitted
  <2>2. ASSUME NEW s \in Sessions, CommitCancel(s) \/ CommitNoShow(s)
        PROVE  DecisionBasis'
    <3>1. PICK st \in {"cancelled", "no_show"} : iv' = [iv EXCEPT ![tx[s].req.i].status = st]
      BY <2>2 DEF CommitCancel, CommitNoShow, SetStatus
    <3>2. tx[s].req.i \in Booked
      BY <2>2, CommitsBooked DEF CommitCancel, CommitNoShow, At
    <3>3. UNCHANGED <<booked, card, forced>> /\ (stale => stale')
      BY <2>2 DEF CommitCancel, CommitNoShow, Finish
    <3>4. /\ iv'[tx[s].req.i].status = st
          /\ \A j \in Interviews \ {tx[s].req.i} : iv'[j] = iv[j]
          /\ Booked \subseteq Interviews
      BY <3>1, <3>2, StatusRows
    <3>. QED  BY <3>3, <3>4 DEF DecisionBasis, AllSubmitted, Booked
  <2>3. ASSUME NEW s \in Sessions, CommitComplete(s)
        PROVE  DecisionBasis'
    <3> DEFINE i == tx[s].req.i
    <3>1. /\ i \in Booked
          /\ iv' = [iv EXCEPT ![i].status = "completed"]
          /\ UNCHANGED <<booked, card>>
          /\ forced' = IF At(s, {"force"}) THEN forced \union {i} ELSE forced
          /\ Finish(s) /\ (stale => stale')
      BY <2>3, CommitsBooked DEF CommitComplete, SetStatus, Finish, At
    <3>2. /\ \A j \in Interviews \ {i} : iv'[j] = iv[j]
          /\ iv'[i].panel = iv[i].panel
          /\ Booked \subseteq Interviews
      BY <3>1, StatusRows, RowsTyped
    <3>3. (~stale' /\ ~At(s, {"force"})) => AllSubmitted(i)
      <4>1. At(s, {"force"}) \/ At(s, {"complete"})
        BY <2>3 DEF CommitComplete, At
      <4>. QED  BY <3>1, <4>1, FreshReads DEF AllSubmitted, SawEnough, TypeInv
    <3>4. ASSUME ~stale', NEW j \in Booked \ forced', iv'[j].status = "completed"
          PROVE  AllSubmitted(j)'
      <4>1. CASE j = i
        BY <3>1, <3>2, <3>3, <3>4, <4>1 DEF AllSubmitted
      <4>2. CASE j # i
        BY <3>1, <3>2, <3>4, <4>2 DEF AllSubmitted, DecisionBasis
      <4>. QED  BY <4>1, <4>2
    <3>. QED  BY <3>1, <3>4 DEF DecisionBasis, Booked
  <2>4. ASSUME NEW i \in Booked, iv' = [iv EXCEPT ![i].confirmed = TRUE],
               UNCHANGED <<booked, card, forced>>, stale => stale'
        PROVE  DecisionBasis'
    <3>1. /\ \A j \in Interviews : iv'[j].panel = iv[j].panel /\ iv'[j].status = iv[j].status
          /\ Booked \subseteq Interviews
      BY <2>4, ConfirmRows
    <3>. QED  BY <2>4, <3>1 DEF DecisionBasis, AllSubmitted, Booked
  <2>5. ASSUME NEW s \in Sessions, CommitSave(s) \/ CommitReopen(s)
        PROVE  DecisionBasis'
    <3> DEFINE i == tx[s].req.i
               p == tx[s].req.p
    <3>1. /\ i \in Booked /\ p \in Panelists
          /\ UNCHANGED <<iv, booked, forced>>
          /\ Finish(s) /\ (stale => stale')
      BY <2>5, CommitsBooked DEF CommitSave, CommitReopen, Finish, At
    <3>2. \A j \in Interviews \ {i} : card'[j] = card[j]
      BY <2>5 DEF CommitSave, CommitReopen, TypeInv, TypeOK
    <3>3. ~stale' => ~(iv[i].status = "completed" /\ i \notin forced)
      <4>1. CASE CommitSave(s)
        <5>1. ~stale' => p \in iv[i].panel /\ card[i][p] # "submitted"
          BY <3>1, <4>1, FreshReads DEF CommitSave, SawEnough, TypeInv, At
        <5>. QED  BY <3>1, <5>1 DEF DecisionBasis, AllSubmitted
      <4>2. CASE CommitReopen(s)
        BY <3>1, <4>2, FreshReads DEF CommitReopen, SawEnough, TypeInv
      <4>. QED  BY <2>5, <4>1, <4>2
    <3>4. Booked \subseteq Interviews
      BY RowsTyped
    <3>. QED  BY <3>1, <3>2, <3>3, <3>4 DEF DecisionBasis, AllSubmitted, Booked
  <2>6. CASE UNCHANGED <<iv, booked, card, forced, stale>>
    BY <2>6 DEF DecisionBasis, AllSubmitted, Booked
  <2>7. ASSUME NEW s \in Sessions, CommitAdvance(s) \/ CommitMove(s) \/ CommitRevert(s)
        PROVE  DecisionBasis'
    <3>1. UNCHANGED <<iv, booked, card, forced>> /\ (stale => stale')
      BY <2>7 DEF CommitAdvance, CommitMove, CommitRevert, roundVars, Finish
    <3>. QED  BY <3>1 DEF DecisionBasis, AllSubmitted, Booked
  <2>8. ASSUME NEW s \in Sessions, CommitConfirm(s)
        PROVE  DecisionBasis'
    BY <2>4, <2>8, CommitsBooked DEF CommitConfirm, At, Finish
  <2>9. ASSUME NEW i \in Booked, ConfirmByLink(i)
        PROVE  DecisionBasis'
    BY <2>4, <2>9 DEF ConfirmByLink
  <2>. QED
    BY <2>1, <2>2, <2>3, <2>5, <2>6, <2>7, <2>8, <2>9
       DEF Next, vars, roundVars, Begin, Abort, Assess
<1>. QED  BY <1>1, <1>2, TypeInvariant, PTL DEF Spec

-----------------------------------------------------------------------------
(* The AI interview: its state                                             *)

\* The question that is asked, if one is open (currentQuestionIndex).
LEMMA CurrentQuestion ==
  ASSUME NEW answer
  PROVE  /\ Current(answer) \in 0 .. NumQuestions
         /\ Current(answer) # 0 => /\ Current(answer) \in Questions
                                   /\ answer[Current(answer)] = "none"
         /\ Current(answer) = 0 => \A q \in Questions : answer[q] # "none"
<1> DEFINE open == {q \in Questions : answer[q] = "none"}
           less == {ss \in Nat \X Nat : ss[1] < ss[2]}
<1> USE AiInterviewAssumption
<1>1. CASE open = {}
  BY <1>1 DEF Current
<1>2. CASE open # {}
  <2>1. open \subseteq Nat
    BY DEF Questions
  <2>2. IsWellFoundedOn(less, Nat)
    BY NatLessThanWellFounded DEF OpToRel
  <2>3. PICK q \in open : \A r \in open : ~(<<r, q>> \in less)
    <3> HIDE DEF open, less
    <3>. QED  BY <1>2, <2>1, <2>2, WFMin
  <2>4. \A r \in open : q <= r
    <3> SUFFICES ASSUME NEW r \in open PROVE ~(r < q)
      BY <2>1
    <3>1. r \in Nat /\ q \in Nat
      BY <2>1
    <3>2. r < q => <<r, q>> \in less
      BY <3>1
    <3>. QED  BY <2>3, <3>2
  <2>5. Current(answer) \in open
    <3>1. Current(answer) = CHOOSE n \in open : \A r \in open : n <= r
      BY <1>2 DEF Current
    <3> HIDE DEF open
    <3>. QED  BY <2>4, <3>1
  <2>. QED  BY <2>5 DEF Questions
<1>. QED  BY <1>1, <1>2

\* AiTypeOK by the parts of the state, with what their types rest on.  An answer is given
\* to a question; an attempt is taken before a pass starts and given back at most once; a
\* report asked for again, and a question set after the first, are disturbances.
RowTypes ==
    /\ {cancelled, generating, issuing, died} \subseteq BOOLEAN
    /\ status \in Statuses
    /\ deadline \in {"none", "ahead", "late", "past"}
    /\ consent \in {"none", "granted", "declined"}
    /\ turn \in TurnType
MediaTypes ==
    /\ transcript \in BOOLEAN
    /\ recording \in {"absent", "pending", "uploaded", "taken"}
    /\ object \in [by : Tabs \union {"nobody"}, len : 0 .. MaxTape]
    /\ txOutbox \in {"none", "pending", "processing", "completed", "failed"}
AsksForAudio == {"upsert", "put", "recorded", "stat", "write"}
PageTypes == missed \in BOOLEAN /\ unaware \subseteq Tabs
TabTypes ==
    /\ overlapped \in BOOLEAN
    /\ acked \in [Questions -> Answers]
    /\ tape \in [Tabs -> 0 .. MaxTape]
    /\ req \in [Tabs -> RequestType]
    /\ \A t \in Tabs : req[t].pc \in AsksForAudio => req[t].q \in Questions
DrainTypes ==
    /\ evidence \in EvidenceType
    /\ worker \in PassType
    /\ billed \in Nat
    /\ evidence.status = "none" => evidence.attempts = 0
    /\ evidence.status = "pending" => evidence.attempts < AttemptCap
    /\ worker.pc # "idle" => evidence.attempts \in {0, worker.attempt} /\ worker.attempt > 0
CountTypes ==
    /\ disturbances \in Nat /\ disturbances <= MaxDisturbances
    /\ asked \in Nat /\ asked <= disturbances
    /\ sets \in Nat /\ sets <= disturbances + 1
    /\ questions \in Nat /\ questions <= sets

RoundTypes == RowTypes /\ MediaTypes /\ TabTypes /\ PageTypes /\ DrainTypes /\ CountTypes

\* What is read of a tab's request, and what a request starts and ends with.
LEMMA RequestTypes ==
  /\ EmptyTurn \in TurnType /\ EmptyTurn.answer \in [Questions -> Answers]
  /\ NoRequest \in RequestType /\ NoRequest.pc = "idle"
  /\ NoEvidence \in EvidenceType /\ NoEvidence.status = "none" /\ NoEvidence.attempts = 0
  /\ NoPass \in PassType /\ NoPass.pc = "idle"
<1>1. EmptyTurn \in TurnType /\ EmptyTurn.answer \in [Questions -> Answers]
  BY AiInterviewAssumption DEF EmptyTurn, TurnType, Answers
<1>. QED
  BY <1>1, AiInterviewAssumption
     DEF NoRequest, RequestType, NoEvidence, EvidenceType, NoPass, PassType

\* A request that moves on stays a request (every handler of the candidate).
LEMMA StepTypes ==
  ASSUME TabTypes, NEW t \in Tabs,
         NEW pc \in {"consent", "start", "put", "queue", "report", "stamp"},
         Step(t, pc), pc = "put" => req[t].pc = "upsert"
  PROVE  /\ req' \in [Tabs -> RequestType]
         /\ \A u \in Tabs : req'[u].pc \in AsksForAudio => req'[u].q \in Questions
<1>1. [req[t] EXCEPT !.pc = pc] \in RequestType
  BY DEF TabTypes, RequestType
<1>2. /\ req' = [req EXCEPT ![t] = [req[t] EXCEPT !.pc = pc]]
  BY DEF Step
<1>. QED  BY <1>1, <1>2 DEF TabTypes, AsksForAudio, RequestType

\* A request that ends is no request any more.
LEMMA DoneTypes ==
  ASSUME TabTypes, NEW t \in Tabs, Done(t)
  PROVE  /\ req' \in [Tabs -> RequestType]
         /\ \A u \in Tabs : req'[u].pc \in AsksForAudio => req'[u].q \in Questions
BY RequestTypes DEF TabTypes, AsksForAudio, Done

\* The submission goes on to the stamp or to the report, and drops its copy.
LEMMA CloseTypes ==
  ASSUME TabTypes, NEW t \in Tabs, CloseSession(t)
  PROVE  /\ req' \in [Tabs -> RequestType]
         /\ \A u \in Tabs : req'[u].pc \in AsksForAudio => req'[u].q \in Questions
         /\ req'[t].pc \in {"stamp", "report"}
         /\ \A u \in Tabs \ {t} : req'[u] = req[u]
<1>1. PICK pc \in {"stamp", "report"} :
          req' = [req EXCEPT ![t] = [req[t] EXCEPT !.pc = pc, !.copy = EmptyTurn]]
  BY DEF CloseSession
<1>2. /\ [req[t] EXCEPT !.pc = pc, !.copy = EmptyTurn] \in RequestType
      /\ [req[t] EXCEPT !.pc = pc, !.copy = EmptyTurn].pc = pc
  BY RequestTypes DEF TabTypes, RequestType
<1>. QED  BY <1>1, <1>2 DEF TabTypes, AsksForAudio

\* A step of the round keeps the session's row typed.
LEMMA RowTyped ==
  ASSUME RowTypes, TabTypes, [AiNext]_aiVars
  PROVE  RowTypes'
<1>1. ASSUME NEW t \in Tabs, WriteAnswer(t)
      PROVE  RowTypes'
  <2>1. /\ req[t].copy \in TurnType /\ req[t].q \in Questions /\ Mode(t) \in Answers
    BY <1>1 DEF TabTypes, WriteAnswer, TabAt, AsksForAudio, RequestType, Mode, Answers
  <2>2. NextTurn(t) \in TurnType
    BY <2>1 DEF NextTurn, TurnType
  <2>. QED  BY <1>1, <2>2 DEF WriteAnswer, RowTypes, recruiterVars, faultVars
<1>2. ASSUME UNCHANGED turn
      PROVE  turn' \in TurnType
  BY <1>2 DEF RowTypes
<1>3. ASSUME NEW t \in Tabs,
             Lapse(t) \/ Start(t) \/ CloseSession(t)
             \/ \E d \in {"granted", "declined"} : RecordConsent(t, d)
      PROVE  RowTypes'
  BY <1>2, <1>3
     DEF RowTypes, Lapse, Start, CloseSession, RecordConsent, recruiterVars, faultVars,
         Statuses
<1>4. CASE Recruiter \/ DeadlinePasses
  BY <1>2, <1>4
     DEF RowTypes, Recruiter, BeginGenerate, CommitGenerate, ApproveQuestions, BeginIssue,
         CommitIssue, CancelInterview, Regenerate, DeadlinePasses, sessionRowVars,
         sessionVars, recruiterVars, faultVars, Statuses
<1>5. CASE UNCHANGED <<sessionRowVars, recruiterVars>> /\ (died' = TRUE \/ UNCHANGED died)
  BY <1>5 DEF RowTypes, sessionRowVars, recruiterVars
<1>. QED
  BY <1>1, <1>3, <1>4, <1>5
     DEF AiNext, Candidate, Transcription, Drain, aiVars, faultVars, Load, GiveUp, RequestDies,
         StartRecorder, Reload, Refresh, UpsertRecording, PutObject, StatObject, StampRecording,
         QueueTranscript, QueueReport, TakeRecording, StoreTranscript, CompleteTranscript,
         FailTranscript, Claim, Retire, SkipDisabled, ReadSession, ReadOutbox, SkipEmpty,
         CallModel, WriteReport, Requeue, Reject, WorkerDies

\* A step of the round keeps the recording and its transcript typed.
LEMMA MediaTyped ==
  ASSUME MediaTypes, TabTypes, [AiNext]_aiVars
  PROVE  MediaTypes'
<1>1. ASSUME NEW t \in Tabs, PutObject(t)
      PROVE  MediaTypes'
  BY <1>1 DEF PutObject, MediaTypes, TabTypes
<1>2. ASSUME NEW t \in Tabs, UpsertRecording(t) \/ StampRecording(t) \/ QueueTranscript(t)
      PROVE  MediaTypes'
  BY <1>2 DEF UpsertRecording, StampRecording, QueueTranscript, MediaTypes
<1>3. CASE Transcription
  BY <1>3 DEF Transcription, TakeRecording, StoreTranscript, CompleteTranscript,
              FailTranscript, MediaTypes
<1>4. CASE UNCHANGED mediaVars
  BY <1>4 DEF MediaTypes, mediaVars
<1>. QED
  BY <1>1, <1>2, <1>3, <1>4
     DEF AiNext, Recruiter, Candidate, Drain, aiVars, BeginGenerate, CommitGenerate,
         ApproveQuestions, BeginIssue, CommitIssue, CancelInterview, Regenerate,
         DeadlinePasses, Load, Lapse, GiveUp, RequestDies, RecordConsent, Start,
         StartRecorder, Reload, Refresh, StatObject, WriteAnswer, CloseSession, QueueReport, Claim,
         Retire, SkipDisabled, ReadSession, ReadOutbox, SkipEmpty, CallModel, WriteReport,
         Requeue, Reject, WorkerDies

\* A step of the round keeps the tabs typed.
LEMMA TabTyped ==
  ASSUME RowTypes, MediaTypes, TabTypes, [AiNext]_aiVars
  PROVE  TabTypes'
<1> DEFINE TypedReq ==
        /\ req' \in [Tabs -> RequestType]
        /\ \A u \in Tabs : req'[u].pc \in AsksForAudio => req'[u].q \in Questions
<1>1. ASSUME NEW now \in BOOLEAN, NoteOverlap(now)
      PROVE  overlapped' \in BOOLEAN /\ acked' \in [Questions -> Answers]
  BY <1>1, RequestTypes DEF NoteOverlap, TabTypes
<1>2. ASSUME NEW t \in Tabs, NEW kind \in DOMAIN EntryOf, Load(t, kind)
      PROVE  TabTypes'
  <2> DEFINE new == [pc |-> EntryOf[kind], q |-> Current(turn.answer), kind |-> kind,
                     copy |-> turn]
  <2>1. kind \in {"start", "upload", "typed", "voice", "submit"}
    BY DEF EntryOf
  <2>2. EntryOf[kind] \in {"consent", "upsert", "write", "stat", "close"}
    BY <2>1 DEF EntryOf
  <2>3. new \in RequestType
    BY <2>1, <2>2, CurrentQuestion DEF RequestType, RowTypes
  <2>4. new.pc \in AsksForAudio => new.q \in Questions
    <3>1. CASE kind \in {"start", "submit"}
      BY <3>1 DEF EntryOf, AsksForAudio
    <3>2. CASE kind \in {"upload", "typed"}
      BY <1>2, <3>2, CurrentQuestion DEF Load, Admitted
    <3>3. CASE kind = "voice"
      BY <1>2, <3>3 DEF Load, Admitted, TabAt, TabTypes, AsksForAudio
    <3>. QED  BY <2>1, <3>1, <3>2, <3>3
  <2>5. req' = [req EXCEPT ![t] = new]
    BY <1>2 DEF Load
  <2>6. TypedReq
    <3> HIDE DEF new
    <3>. QED  BY <2>3, <2>4, <2>5 DEF TabTypes
  <2>. QED  BY <1>1, <1>2, <2>6 DEF Load, OtherInFlight, pageVars, TabTypes
<1>3. ASSUME NEW t \in Tabs,
             Start(t) \/ QueueReport(t) \/ GiveUp(t) \/ RequestDies(t)
             \/ \E d \in {"granted", "declined"} : RecordConsent(t, d)
      PROVE  TabTypes'
  <2>1. UNCHANGED <<tape, acked, overlapped>>
    BY <1>3 DEF Start, QueueReport, GiveUp, RequestDies, RecordConsent, pageVars, noteVars
  <2>2. Step(t, "start") \/ Done(t)
    BY <1>3 DEF Start, QueueReport, GiveUp, RequestDies, RecordConsent
  <2>3. TypedReq
    BY <2>2, StepTypes, DoneTypes
  <2>. QED  BY <2>1, <2>3 DEF TabTypes
<1>4. ASSUME NEW t \in Tabs, UpsertRecording(t) \/ StampRecording(t) \/ QueueTranscript(t)
                             \/ CloseSession(t)
      PROVE  TabTypes'
  <2>1. UNCHANGED <<tape, acked, overlapped>>
    BY <1>4 DEF UpsertRecording, StampRecording, QueueTranscript, CloseSession, pageVars,
                noteVars
  <2>2. CloseSession(t) \/ \E pc \in {"put", "queue", "report"} :
            Step(t, pc) /\ (pc = "put" => req[t].pc = "upsert")
    BY <1>4 DEF UpsertRecording, StampRecording, QueueTranscript, TabAt
  <2>3. TypedReq
    BY <2>2, StepTypes, CloseTypes
  <2>. QED  BY <2>1, <2>3 DEF TabTypes
<1>5. ASSUME NEW t \in Tabs, PutObject(t)
      PROVE  TabTypes'
  <2> DEFINE new == [req[t] EXCEPT !.pc = "recorded", !.copy = EmptyTurn]
  <2>1. new \in RequestType /\ new.q = req[t].q
    BY RequestTypes DEF TabTypes, RequestType
  <2>2. req[t].q \in Questions
    BY <1>5 DEF PutObject, TabAt, TabTypes, AsksForAudio
  <2>3. req' = [req EXCEPT ![t] = new]
    BY <1>5 DEF PutObject
  <2>4. TypedReq
    <3> HIDE DEF new
    <3>. QED  BY <2>1, <2>2, <2>3 DEF TabTypes
  <2>5. tape' \in [Tabs -> 0 .. MaxTape]
    BY <1>5, AiInterviewAssumption DEF PutObject, TabTypes
  <2>. QED  BY <1>5, <2>4, <2>5 DEF PutObject, noteVars, TabTypes
<1>6. ASSUME NEW t \in Tabs, StatObject(t)
      PROVE  TabTypes'
  <2> DEFINE new == [req[t] EXCEPT !.pc = "write",
                        !.copy = [req[t].copy EXCEPT !.size = object.len]]
  <2>1. new \in RequestType /\ new.q = req[t].q
    <3>1. [req[t].copy EXCEPT !.size = object.len] \in TurnType
      BY DEF TabTypes, MediaTypes, RequestType, TurnType
    <3>. QED  BY <3>1 DEF TabTypes, RequestType
  <2>2. req[t].q \in Questions
    BY <1>6 DEF StatObject, TabAt, TabTypes, AsksForAudio
  <2>3. req' = [req EXCEPT ![t] = new]
    BY <1>6 DEF StatObject
  <2>4. TypedReq
    <3> HIDE DEF new
    <3>. QED  BY <2>1, <2>2, <2>3 DEF TabTypes
  <2>. QED  BY <1>6, <2>4 DEF StatObject, pageVars, noteVars, TabTypes
<1>7. ASSUME NEW t \in Tabs, WriteAnswer(t)
      PROVE  TabTypes'
  <2>1. TypedReq
    BY <1>7, DoneTypes DEF WriteAnswer
  <2>2. Mode(t) \in Answers
    BY DEF Mode, Answers
  <2>3. acked' \in [Questions -> Answers]
    BY <1>7, <2>2 DEF WriteAnswer, TabTypes
  <2>. QED  BY <1>7, <2>1, <2>3 DEF WriteAnswer, TabTypes
<1>8. ASSUME NEW t \in Tabs, StartRecorder(t) \/ Reload(t) \/ Refresh(t) \/ Lapse(t)
      PROVE  TabTypes'
  <2>1. tape' \in [Tabs -> 0 .. MaxTape]
    <3>1. tape \in [Tabs -> 0 .. MaxTape] /\ {0, 1} \subseteq 0 .. MaxTape
      BY AiInterviewAssumption DEF TabTypes
    <3>. QED  BY <1>8, <3>1 DEF StartRecorder, Reload, Refresh, Lapse, pageVars
  <2>2. overlapped' \in BOOLEAN /\ acked' \in [Questions -> Answers]
    BY <1>1, <1>8 DEF StartRecorder, Reload, Refresh, Lapse, OtherInFlight, noteVars,
                     TabTypes
  <2>. QED  BY <1>8, <2>1, <2>2 DEF StartRecorder, Reload, Refresh, Lapse, TabTypes
<1>9. CASE Regenerate
  <2>1. overlapped' \in BOOLEAN /\ acked' \in [Questions -> Answers]
    BY <1>1, <1>9 DEF Regenerate
  <2>. QED  BY <1>9, <2>1 DEF Regenerate, pageVars, TabTypes
<1>10. CASE UNCHANGED tabVars
  BY <1>10 DEF tabVars, pageVars, noteVars, TabTypes
<1>. QED
  BY <1>2, <1>3, <1>4, <1>5, <1>6, <1>7, <1>8, <1>9, <1>10
     DEF AiNext, Recruiter, Candidate, Transcription, Drain, aiVars, BeginGenerate,
         CommitGenerate, ApproveQuestions, BeginIssue, CommitIssue, CancelInterview,
         DeadlinePasses, TakeRecording, StoreTranscript, CompleteTranscript,
         FailTranscript, Claim, Retire, SkipDisabled, ReadSession, ReadOutbox, SkipEmpty,
         CallModel, WriteReport, Requeue, Reject, WorkerDies

\* A step of the round keeps what the pages show typed, and a recorder that was started
\* on a stale page stays known as one.
LEMMA PageTyped ==
  ASSUME PageTypes, [AiNext]_aiVars
  PROVE  PageTypes' /\ (missed => missed')
<1> USE DEF PageTypes
<1>1. ASSUME NEW t \in Tabs, StartRecorder(t)
      PROVE  PageTypes' /\ (missed => missed')
  BY <1>1 DEF StartRecorder
<1>2. ASSUME NEW t \in Tabs, Start(t) \/ Reload(t) \/ Refresh(t) \/ WriteAnswer(t)
      PROVE  PageTypes' /\ (missed => missed')
  BY <1>2 DEF Start, Reload, Refresh, WriteAnswer, Show
<1>3. ASSUME NEW t \in Tabs, PutObject(t)
      PROVE  PageTypes' /\ (missed => missed')
  BY <1>3 DEF PutObject
<1>4. CASE UNCHANGED pageVars
  BY <1>4 DEF pageVars
<1>. QED
  BY <1>1, <1>2, <1>3, <1>4
     DEF AiNext, Recruiter, Candidate, Transcription, Drain, aiVars, tabVars, BeginGenerate,
         CommitGenerate, ApproveQuestions, BeginIssue, CommitIssue, CancelInterview,
         Regenerate, DeadlinePasses, Load, Lapse, GiveUp, RequestDies, RecordConsent,
         UpsertRecording, StatObject, CloseSession, StampRecording, QueueTranscript,
         QueueReport, TakeRecording, StoreTranscript, CompleteTranscript, FailTranscript,
         Claim, Retire, SkipDisabled, ReadSession, ReadOutbox, SkipEmpty, CallModel,
         WriteReport, Requeue, Reject, WorkerDies

\* The report's row and its pass are touched by the drain, by the statement that queues the
\* report and by the recruiter who asks for it again.
LEMMA DrainAside ==
  ASSUME [AiNext]_aiVars
  PROVE  \/ UNCHANGED drainVars
         \/ Regenerate \/ Drain \/ WorkerDies
         \/ \E t \in Tabs : QueueReport(t)
<1>1. ASSUME NEW t \in Tabs, Candidate(t)
      PROVE  UNCHANGED drainVars \/ QueueReport(t)
  BY <1>1
     DEF Candidate, Load, Lapse, GiveUp, RequestDies, RecordConsent, Start, StartRecorder,
         Reload, Refresh, UpsertRecording, PutObject, StatObject, WriteAnswer, CloseSession,
         StampRecording, QueueTranscript
<1>2. CASE Recruiter \/ DeadlinePasses \/ Transcription \/ UNCHANGED aiVars
  BY <1>2
     DEF Recruiter, Transcription, aiVars, BeginGenerate, CommitGenerate,
         ApproveQuestions, BeginIssue, CommitIssue, CancelInterview, DeadlinePasses,
         TakeRecording, StoreTranscript, CompleteTranscript, FailTranscript
<1>. QED  BY <1>1, <1>2 DEF AiNext

\* A step of the round keeps the drain's row and pass typed (drainAiInterviewEvidence).
LEMMA DrainTyped ==
  ASSUME RowTypes, DrainTypes, [AiNext]_aiVars
  PROVE  DrainTypes'
<1> USE DEF DrainTypes, EvidenceType
<1>a. AttemptCap \in Nat /\ 0 < AttemptCap /\ 0 \in 0 .. AttemptCap
  BY AiInterviewAssumption
<1>1. CASE Regenerate
  BY <1>1, <1>a DEF Regenerate
<1>2. ASSUME NEW t \in Tabs, QueueReport(t)
      PROVE  DrainTypes'
  BY <1>2, <1>a DEF QueueReport
<1>3. CASE Claim
  <2>1. evidence.attempts + 1 \in 0 .. AttemptCap /\ evidence.attempts \in Nat
    BY <1>3, <1>a DEF Claim, Claimable
  <2>2. evidence' \in EvidenceType
    BY <1>3, <2>1 DEF Claim
  <2>3. worker' \in PassType
    BY <1>3, <2>1, RequestTypes DEF Claim, PassType
  <2>. QED  BY <1>3, <2>1, <2>2, <2>3 DEF Claim
<1>4. CASE Retire
  BY <1>4, <1>a DEF Retire, Report, WorkerAt
<1>5. CASE SkipDisabled \/ Reject \/ Requeue
  <2>1. \E st \in {"skipped", "failed", "pending"} :
            Report(st) /\ (st = "pending" => Requeue /\ worker.attempt < AttemptCap)
    BY <1>5, <1>a DEF SkipDisabled, Reject, Requeue, PassType
  <2>2. worker' = NoPass /\ UNCHANGED billed
    BY <1>5 DEF SkipDisabled, Reject, Requeue, EndPass
  <2>3. Requeue => worker.pc = "write"
    BY DEF Requeue, WorkerAt
  <2>. QED  BY <1>a, <2>1, <2>2, <2>3, RequestTypes DEF Report
<1>6. CASE ReadSession
  <2>1. CASE status = "submitted"
    <3>1. \E pc \in {"outbox", "model"} :
            worker' = [worker EXCEPT !.of = turn.answer, !.pc = pc]
      BY <1>6, <2>1 DEF ReadSession
    <3>2. turn.answer \in [Questions -> Answers]
      BY DEF RowTypes, TurnType
    <3>3. worker' \in PassType /\ worker'.attempt = worker.attempt
      BY <3>1, <3>2 DEF PassType
    <3>. QED  BY <1>6, <2>1, <3>3 DEF ReadSession, WorkerAt
  <2>2. CASE status # "submitted"
    BY <1>6, <1>a, <2>2, RequestTypes DEF ReadSession, Report, EndPass
  <2>. QED  BY <2>1, <2>2
<1>7. CASE ReadOutbox
  <2>1. CASE StillComing
    <3> DEFINE n == IF evidence.attempts > 0 THEN evidence.attempts - 1 ELSE 0
    <3>1. n \in 0 .. AttemptCap /\ n < AttemptCap
      BY <1>a
    <3>2. evidence' = [evidence EXCEPT !.status = "pending", !.attempts = n]
      BY <1>7, <2>1 DEF ReadOutbox
    <3>3. evidence' \in EvidenceType
      BY <3>1, <3>2
    <3>. QED  BY <1>7, <2>1, <3>1, <3>2, <3>3, RequestTypes DEF ReadOutbox, EndPass
  <2>2. CASE ~StillComing
    BY <1>7, <2>2 DEF ReadOutbox, WorkerAt, PassType
  <2>. QED  BY <2>1, <2>2
<1>8. CASE SkipEmpty \/ WriteReport
  BY <1>8, RequestTypes DEF SkipEmpty, WriteReport, EndPass, WorkerAt, PassType
<1>9. CASE CallModel \/ WorkerDies
  BY <1>9, RequestTypes DEF CallModel, WorkerDies, Pass, EndPass, WorkerAt, PassType
<1>10. CASE UNCHANGED <<evidence, worker, billed>>
  BY <1>10
<1>. QED
  BY <1>1, <1>2, <1>3, <1>4, <1>5, <1>6, <1>7, <1>8, <1>9, <1>10, DrainAside
     DEF Drain, drainVars

\* A step of the round counts on within its bounds.
LEMMA CountTyped ==
  ASSUME CountTypes, [AiNext]_aiVars
  PROVE  CountTypes'
<1> USE DEF CountTypes
<1>a. MaxDisturbances \in Nat
  BY AiInterviewAssumption
<1>1. CASE BeginGenerate
  BY <1>1, <1>a DEF BeginGenerate, Disturb, sessionRowVars, drainVars
<1>2. CASE CommitGenerate
  BY <1>2, <1>a DEF CommitGenerate, drainVars, faultVars
<1>3. CASE Regenerate
  BY <1>3, <1>a DEF Regenerate, Disturb, sessionRowVars, recruiterVars
<1>4. CASE /\ UNCHANGED <<questions, sets, asked>>
           /\ Disturb \/ UNCHANGED disturbances
  <2>1. disturbances' \in Nat /\ disturbances' <= MaxDisturbances
        /\ disturbances <= disturbances'
    BY <1>4, <1>a DEF Disturb
  <2>2. questions' = questions /\ sets' = sets /\ asked' = asked
    BY <1>4
  <2>3. \A a, b, c \in Nat : b <= c => /\ a <= b + 1 => a <= c + 1
                                       /\ a <= b => a <= c
    OBVIOUS
  <2>4. /\ sets' \in Nat /\ sets' <= disturbances' + 1
        /\ asked' \in Nat /\ asked' <= disturbances'
    BY <2>1, <2>2, <2>3
  <2>. QED  BY <2>1, <2>2, <2>4
<1>5. ASSUME NEW t \in Tabs, Candidate(t)
      PROVE  CountTypes'
  BY <1>4, <1>5
     DEF Candidate, sessionRowVars, recruiterVars, drainVars, faultVars, Load, Lapse,
         GiveUp, RequestDies, RecordConsent, Start, StartRecorder, Reload, Refresh,
         UpsertRecording, PutObject, StatObject, WriteAnswer, CloseSession,
         StampRecording, QueueTranscript, QueueReport
<1>6. CASE Drain \/ WorkerDies
  BY <1>4, <1>6
     DEF Drain, sessionRowVars, recruiterVars, faultVars, Claim, Retire, SkipDisabled,
         ReadSession, ReadOutbox, SkipEmpty, CallModel, WriteReport, Requeue, Reject,
         WorkerDies
<1>. QED
  BY <1>1, <1>2, <1>3, <1>4, <1>5, <1>6
     DEF AiNext, Recruiter, Transcription, aiVars, sessionRowVars, recruiterVars,
         drainVars, faultVars, ApproveQuestions, BeginIssue, CommitIssue,
         CancelInterview, DeadlinePasses, TakeRecording, StoreTranscript,
         CompleteTranscript, FailTranscript

\* RoundTypes is an invariant of the AI round.
LEMMA RoundTyped == AiSpec => []RoundTypes
<1>1. AiInit => RoundTypes
  <2> SUFFICES ASSUME AiInit PROVE RoundTypes
    OBVIOUS
  <2>1. RowTypes /\ MediaTypes
    <3>1. 0 \in 0 .. MaxTape
      BY AiInterviewAssumption
    <3>. QED  BY <3>1, RequestTypes DEF AiInit, RowTypes, MediaTypes, Statuses
  <2>2. TabTypes
    <3>1. 0 \in 0 .. MaxTape
      BY AiInterviewAssumption
    <3>. QED  BY <3>1, RequestTypes DEF AiInit, TabTypes, AsksForAudio
  <2>3. DrainTypes
    BY RequestTypes DEF AiInit, DrainTypes
  <2>4. CountTypes
    <3>1. MaxDisturbances \in Nat
      BY AiInterviewAssumption
    <3>. QED  BY <3>1 DEF AiInit, CountTypes
  <2>5. PageTypes
    BY DEF AiInit, PageTypes
  <2>. QED  BY <2>1, <2>2, <2>3, <2>4, <2>5 DEF RoundTypes
<1>2. RoundTypes /\ [AiNext]_aiVars => RoundTypes'
  BY RowTyped, MediaTyped, TabTyped, PageTyped, DrainTyped, CountTyped DEF RoundTypes
<1>. QED  BY <1>1, <1>2, PTL DEF AiSpec

\* AiTypeOK is an invariant of the AI round, whatever requests overlap or die.
THEOREM AiTypeCorrect == AiSpec => []AiTypeOK
<1>1. RoundTypes => AiTypeOK
  BY AiInterviewAssumption
     DEF RoundTypes, RowTypes, MediaTypes, TabTypes, PageTypes, DrainTypes, CountTypes,
         AiTypeOK
<1>. QED  BY <1>1, RoundTyped, PTL

\* ApprovedSetStands holds however many generations and issues are under way (the guards of
\* the statements of generateQuestions, approveQuestions and issueSession).
THEOREM ApprovedSetIsKept == AiSpec => ApprovedSetStands
<1>1. ASSUME [AiNext]_aiVars, status \notin {"none", "draft"}
      PROVE  questions' = questions
  <2>1. ASSUME NEW t \in Tabs, Candidate(t)
        PROVE  questions' = questions
    BY <2>1
       DEF Candidate, sessionRowVars, Load, Lapse, GiveUp, RequestDies, RecordConsent,
           Start, StartRecorder, Reload, Refresh, UpsertRecording, PutObject, StatObject,
           WriteAnswer, CloseSession, StampRecording, QueueTranscript, QueueReport
  <2>2. CASE Recruiter \/ DeadlinePasses \/ UNCHANGED aiVars
    BY <1>1, <2>2
       DEF Recruiter, aiVars, sessionRowVars, BeginGenerate, CommitGenerate,
           ApproveQuestions, BeginIssue, CommitIssue, CancelInterview, Regenerate,
           DeadlinePasses
  <2>3. CASE Transcription \/ Drain \/ WorkerDies
    BY <2>3
       DEF Transcription, Drain, sessionRowVars, TakeRecording, StoreTranscript,
           CompleteTranscript, FailTranscript, Claim, Retire, SkipDisabled, ReadSession,
           ReadOutbox, SkipEmpty, CallModel, WriteReport, Requeue, Reject, WorkerDies
  <2>. QED  BY <1>1, <2>1, <2>2, <2>3 DEF AiNext
<1>. QED  BY <1>1, PTL DEF AiSpec, ApprovedSetStands

-----------------------------------------------------------------------------
(* The report                                                              *)

\* A submitted round stays submitted, with the answers it was submitted with (the guards
\* of the statements that write the session's row).
LEMMA SubmittedStays ==
  ASSUME status = "submitted", [AiNext]_aiVars
  PROVE  status' = "submitted" /\ turn' = turn
<1>1. ASSUME NEW t \in Tabs, Candidate(t)
      PROVE  status' = "submitted" /\ turn' = turn
  BY <1>1
     DEF Candidate, sessionRowVars, Open, Load, Lapse, GiveUp, RequestDies, RecordConsent,
         Start, StartRecorder, Reload, Refresh, UpsertRecording, PutObject, StatObject,
         WriteAnswer, CloseSession, StampRecording, QueueTranscript, QueueReport
<1>2. CASE Recruiter \/ DeadlinePasses \/ UNCHANGED aiVars
  BY <1>2
     DEF Recruiter, aiVars, sessionRowVars, sessionVars, BeginGenerate, CommitGenerate,
         ApproveQuestions, BeginIssue, CommitIssue, CancelInterview, Regenerate,
         DeadlinePasses
<1>3. CASE Transcription \/ Drain \/ WorkerDies
  BY <1>3
     DEF Transcription, Drain, sessionRowVars, TakeRecording, StoreTranscript,
         CompleteTranscript, FailTranscript, Claim, Retire, SkipDisabled, ReadSession,
         ReadOutbox, SkipEmpty, CallModel, WriteReport, Requeue, Reject, WorkerDies
<1>. QED  BY <1>1, <1>2, <1>3 DEF AiNext

\* A pass that is past its read of the session, and a report, are about the answers on
\* the row, which is submitted.
AboutSubmission ==
    /\ worker.pc \in {"outbox", "model", "write"} =>
            status = "submitted" /\ worker.of = turn.answer
    /\ evidence.status = "done" => status = "submitted" /\ evidence.of = turn.answer

\* AboutSubmission is an invariant of the AI round.
LEMMA AboutSubmissionKept == AiSpec => []AboutSubmission
<1>1. AiInit => AboutSubmission
  BY DEF AiInit, AboutSubmission, NoPass, NoEvidence
<1>2. ASSUME RoundTypes, AboutSubmission, [AiNext]_aiVars
      PROVE  AboutSubmission'
  <2> USE <1>2, SubmittedStays DEF AboutSubmission
  <2>a. worker \in PassType /\ evidence \in EvidenceType
    BY DEF RoundTypes, DrainTypes
  <2>1. CASE ReadSession
    BY <2>1, <2>a, RequestTypes
       DEF ReadSession, Report, EndPass, WorkerAt, sessionRowVars, PassType, EvidenceType
  <2>2. CASE ReadOutbox
    BY <2>2, <2>a, RequestTypes DEF ReadOutbox, EndPass, WorkerAt, PassType, EvidenceType
  <2>3. CASE SkipEmpty \/ WriteReport \/ WorkerDies
    BY <2>3, <2>a, RequestTypes
       DEF SkipEmpty, WriteReport, WorkerDies, EndPass, WorkerAt, EvidenceType
  <2>4. CASE SkipDisabled \/ Requeue \/ Reject
    BY <2>4, <2>a, RequestTypes
       DEF SkipDisabled, Requeue, Reject, Report, EndPass, EvidenceType
  <2>5. CASE CallModel
    BY <2>5, <2>a DEF CallModel, Pass, WorkerAt, PassType
  <2>6. CASE Claim \/ Retire \/ Regenerate
    <3>1. evidence'.status # "done"
      BY <2>6, <2>a DEF Claim, Retire, Regenerate, Report, EvidenceType
    <3>2. worker'.pc = "session" \/ worker' = worker
      <4>1. Claim => worker'.pc = "session"
        BY DEF Claim
      <4>2. Retire \/ Regenerate => worker' = worker
        BY DEF Retire, Regenerate
      <4>. QED  BY <2>6, <4>1, <4>2
    <3>3. UNCHANGED <<status, turn>>
      BY <2>6 DEF Claim, Retire, Regenerate, sessionRowVars
    <3>. QED  BY <3>1, <3>2, <3>3
  <2>7. ASSUME NEW t \in Tabs, QueueReport(t)
        PROVE  AboutSubmission'
    BY <2>7, <2>a DEF QueueReport, EvidenceType
  <2>8. CASE UNCHANGED <<worker, evidence>>
    BY <2>8
  <2>. QED
    BY <2>1, <2>2, <2>3, <2>4, <2>5, <2>6, <2>7, <2>8, DrainAside DEF Drain, drainVars
<1>. QED  BY <1>1, <1>2, RoundTyped, PTL DEF AiSpec

\* ReportOfSubmission holds for any number of tabs and disturbances, also while requests
\* loaded before the submission are still on their way (generateEvidenceReport).
THEOREM ReportsTheSubmission == AiSpec => []ReportOfSubmission
<1>1. AboutSubmission => ReportOfSubmission
  BY DEF AboutSubmission, ReportOfSubmission
<1>. QED  BY <1>1, AboutSubmissionKept, PTL

\* Every model call has been paid for by an attempt: those of the reports asked for
\* before, and those of the row, of which a pass on its way to the model holds one.
Quota == AttemptCap * asked
Paid ==
    /\ billed <= Quota + evidence.attempts
    /\ worker.pc \in {"session", "outbox", "model"} => billed < Quota + evidence.attempts

\* The arithmetic of the attempts.
LEMMA QuotaFacts ==
  ASSUME CountTypes
  PROVE  /\ Quota \in Nat
         /\ asked' = asked + 1 => Quota' = Quota + AttemptCap
         /\ asked' = asked => Quota' = Quota
         /\ Quota + AttemptCap = AttemptCap * (1 + asked)
<1>1. \A c, a \in Nat : /\ c * a \in Nat
                        /\ c * (a + 1) = c * a + c
                        /\ c * a + c = c * (1 + a)
  OBVIOUS
<1>2. AttemptCap \in Nat /\ asked \in Nat
  BY AiInterviewAssumption DEF CountTypes
<1>. QED  BY <1>1, <1>2 DEF Quota

\* Paid is an invariant of the AI round.
LEMMA PaidKept == AiSpec => []Paid
<1>1. AiInit => Paid
  BY AiInterviewAssumption DEF AiInit, Paid, Quota, NoPass, NoEvidence
<1>2. ASSUME RoundTypes, Paid, [AiNext]_aiVars
      PROVE  Paid'
  <2> USE <1>2 DEF Paid
  <2>a. /\ worker \in PassType /\ evidence \in EvidenceType
        /\ billed \in Nat /\ Quota \in Nat /\ evidence.attempts \in Nat
        /\ AttemptCap \in Nat /\ evidence.attempts <= AttemptCap
    BY QuotaFacts, AiInterviewAssumption DEF RoundTypes, DrainTypes, EvidenceType
  <2>b. /\ asked' = asked + 1 => Quota' = Quota + AttemptCap
        /\ asked' = asked => Quota' = Quota
    BY QuotaFacts DEF RoundTypes
  <2>c. \A b, n, q, c \in Nat :
            /\ b <= q + n => b < q + (n + 1)
            /\ b < q + n => /\ b + 1 <= q + n
                            /\ n > 0 => b <= q + (n - 1)
                            /\ n <= c => b < (q + c) + 0
            /\ b <= q + n /\ n <= c => b <= (q + c) + 0
    OBVIOUS
  <2>1. CASE Regenerate
    <3>1. /\ billed' = billed /\ Quota' = Quota + AttemptCap /\ evidence'.attempts = 0
          /\ worker' = worker
      BY <2>1, <2>a, <2>b DEF Regenerate, EvidenceType
    <3>. QED  BY <2>a, <2>c, <3>1
  <2>2. CASE Claim
    <3>1. /\ billed' = billed /\ Quota' = Quota
          /\ evidence'.attempts = evidence.attempts + 1
      BY <2>2, <2>a, <2>b DEF Claim, EvidenceType
    <3>. QED  BY <2>a, <2>c, <3>1
  <2>3. CASE ReadOutbox
    <3>1. billed' = billed /\ Quota' = Quota /\ worker.pc = "outbox"
      BY <2>3, <2>b DEF ReadOutbox, WorkerAt
    <3>2. CASE StillComing
      <4>1. /\ evidence'.attempts = IF evidence.attempts > 0 THEN evidence.attempts - 1 ELSE 0
            /\ worker'.pc = "idle"
        BY <2>3, <2>a, <3>2, RequestTypes DEF ReadOutbox, EndPass, EvidenceType
      <4>2. evidence'.attempts = evidence.attempts - 1 \/ evidence'.attempts = evidence.attempts
        BY <2>a, <4>1
      <4>. QED  BY <2>a, <2>c, <3>1, <4>1, <4>2
    <3>3. CASE ~StillComing
      <4>1. evidence' = evidence
        BY <2>3, <3>3 DEF ReadOutbox
      <4>. QED  BY <3>1, <4>1
    <3>. QED  BY <3>2, <3>3
  <2>4. CASE CallModel
    <3>1. /\ billed' = billed + 1 /\ Quota' = Quota /\ evidence' = evidence
          /\ worker.pc = "model" /\ worker'.pc = "write"
      BY <2>4, <2>a, <2>b DEF CallModel, Pass, WorkerAt, PassType
    <3>. QED  BY <2>a, <2>c, <3>1
  <2>5. CASE /\ UNCHANGED <<billed, asked>>
             /\ evidence'.attempts = evidence.attempts
             /\ worker'.pc \in {"session", "outbox", "model"} =>
                    worker.pc \in {"session", "outbox", "model"}
    BY <2>5, <2>b
  <2>6. CASE Retire \/ SkipDisabled \/ ReadSession
    BY <2>5, <2>6, <2>a, RequestTypes
       DEF Retire, SkipDisabled, ReadSession, Report, EndPass, WorkerAt, EvidenceType,
           PassType
  <2>7. CASE SkipEmpty \/ WriteReport \/ Requeue \/ Reject \/ WorkerDies
    BY <2>5, <2>7, <2>a, RequestTypes
       DEF SkipEmpty, WriteReport, Requeue, Reject, WorkerDies, Report, EndPass,
           EvidenceType
  <2>8. ASSUME NEW t \in Tabs, QueueReport(t)
        PROVE  Paid'
    BY <2>5, <2>8, <2>a DEF QueueReport, EvidenceType
  <2>9. CASE UNCHANGED drainVars
    BY <2>5, <2>9 DEF drainVars
  <2>. QED
    BY <2>1, <2>2, <2>3, <2>4, <2>6, <2>7, <2>8, <2>9, DrainAside DEF Drain
<1>. QED  BY <1>1, <1>2, RoundTyped, PTL DEF AiSpec

\* ReportBilledWithinCap holds for any cap and any number of disturbances: deferrals,
\* failed calls and deaths never pay for the model more than AttemptCap times a report.
THEOREM BilledWithinCap == AiSpec => []ReportBilledWithinCap
<1>1. ASSUME RoundTypes, Paid
      PROVE  ReportBilledWithinCap
  <2>1. /\ Quota \in Nat /\ Quota + AttemptCap = AttemptCap * (1 + asked)
        /\ billed \in Nat /\ evidence.attempts \in Nat /\ AttemptCap \in Nat
        /\ evidence.attempts <= AttemptCap /\ billed <= Quota + evidence.attempts
    BY <1>1, QuotaFacts, AiInterviewAssumption
       DEF RoundTypes, DrainTypes, EvidenceType, Paid
  <2>2. \A b, q, n, c \in Nat : b <= q + n /\ n <= c => b <= q + c
    OBVIOUS
  <2>. QED  BY <2>1, <2>2 DEF ReportBilledWithinCap
<1>. QED  BY <1>1, RoundTyped, PaidKept, PTL

-----------------------------------------------------------------------------
(* Requests that take turns                                                *)

Writing == {"stat", "write", "close"}

\* While requests take turns, one is in flight at a time, and what a request that is
\* about to write has loaded is what is on the row.
OneInFlight == \A t, u \in Tabs : t # u => ~(InFlight(t) /\ InFlight(u))
CopyCurrent ==
    \A t \in Tabs :
        /\ req[t].pc \in Writing =>
                status = "in_progress" /\ req[t].copy.answer = turn.answer
        /\ req[t].pc \in {"stat", "write"} => req[t].q = Current(turn.answer)
AnswersSaved == \A q \in Questions : acked[q] # "none" => turn.answer[q] = acked[q]

TakesTurns == ~overlapped => OneInFlight /\ CopyCurrent /\ AnswersSaved

\* What NoteOverlap leaves when nothing overlaps.
LEMMA NotedNone ==
  ASSUME NEW now, NoteOverlap(now)
  PROVE  ~overlapped' => ~overlapped /\ ~now /\ acked' = acked
BY DEF NoteOverlap

\* A request that is loaded is the only one in flight, or there is an overlap.
LEMMA LoadFacts ==
  ASSUME TabTypes, NEW t \in Tabs, NEW kind \in DOMAIN EntryOf, Load(t, kind)
  PROVE  /\ req'[t] = [pc |-> EntryOf[kind], q |-> Current(turn.answer), kind |-> kind,
                       copy |-> turn]
         /\ \A u \in Tabs \ {t} : req'[u] = req[u]
         /\ kind \in {"start", "upload", "typed", "voice", "submit"}
         /\ kind = "start" => EntryOf[kind] = "consent"
         /\ kind = "upload" => EntryOf[kind] = "upsert" /\ tape[t] > 0
         /\ kind = "typed" => EntryOf[kind] = "write" /\ status = "in_progress"
         /\ kind = "voice" => /\ EntryOf[kind] = "stat" /\ status = "in_progress"
                              /\ req[t].pc = "recorded"
         /\ kind = "submit" => EntryOf[kind] = "close" /\ status = "in_progress"
         /\ UNCHANGED <<sessionRowVars, mediaVars, tape, drainVars, died>>
         /\ ~overlapped' => /\ ~overlapped /\ acked' = acked
                            /\ \A u \in Tabs \ {t} : ~InFlight(u)
<1>1. kind \in {"start", "upload", "typed", "voice", "submit"}
  BY DEF EntryOf
<1>2. req' = [req EXCEPT ![t] = [pc |-> EntryOf[kind], q |-> Current(turn.answer),
                                 kind |-> kind, copy |-> turn]]
  BY DEF Load
<1>3. /\ req'[t] = [pc |-> EntryOf[kind], q |-> Current(turn.answer), kind |-> kind,
                    copy |-> turn]
      /\ \A u \in Tabs \ {t} : req'[u] = req[u]
  BY <1>2 DEF TabTypes
<1>4. /\ kind = "start" => EntryOf[kind] = "consent"
      /\ kind = "upload" => EntryOf[kind] = "upsert"
      /\ kind = "typed" => EntryOf[kind] = "write"
      /\ kind = "voice" => EntryOf[kind] = "stat"
      /\ kind = "submit" => EntryOf[kind] = "close"
  BY DEF EntryOf
<1>5. /\ kind = "upload" => tape[t] > 0
      /\ kind \in {"typed", "voice", "submit"} => status = "in_progress"
      /\ kind = "voice" => req[t].pc = "recorded"
  BY DEF Load, Admitted, TabAt
<1>6. UNCHANGED <<sessionRowVars, mediaVars, tape, drainVars, died>>
  BY DEF Load, pageVars, faultVars
<1>7. ~overlapped' => ~overlapped /\ acked' = acked /\ \A u \in Tabs \ {t} : ~InFlight(u)
  BY NotedNone DEF Load, OtherInFlight
<1>. QED  BY <1>1, <1>3, <1>4, <1>5, <1>6, <1>7

\* A request that moves on without writing an answer, or ends.
Moves(t) ==
    /\ \A u \in Tabs \ {t} : req'[u] = req[u]
    /\ req'[t].pc \notin Writing
    /\ req'[t].pc \notin {"idle", "put", "recorded"} => InFlight(t)

\* The statements by which a request moves on.
LEMMA StepMoves ==
  ASSUME TabTypes, NEW t \in Tabs,
         \/ Done(t)
         \/ InFlight(t) /\ \E pc \in {"consent", "start", "put", "stamp", "queue", "report"} :
                Step(t, pc)
         \/ PutObject(t)
  PROVE  Moves(t)
<1>1. CASE Done(t)
  BY <1>1, RequestTypes DEF Done, Moves, TabTypes, Writing
<1>2. ASSUME NEW pc \in {"consent", "start", "put", "stamp", "queue", "report"},
             Step(t, pc), InFlight(t)
      PROVE  Moves(t)
  <2>1. req'[t].pc = pc /\ \A u \in Tabs \ {t} : req'[u] = req[u]
    BY <1>2 DEF Step, TabTypes, RequestType
  <2>. QED  BY <1>2, <2>1 DEF Moves, Writing
<1>3. CASE PutObject(t)
  <2>1. req'[t].pc = "recorded" /\ \A u \in Tabs \ {t} : req'[u] = req[u]
    BY <1>3 DEF PutObject, TabTypes, RequestType
  <2>. QED  BY <2>1 DEF Moves, Writing
<1>. QED  BY <1>1, <1>2, <1>3

\* The requests that move on (the handlers' statements other than the answer's).
LEMMA CandidateMoves ==
  ASSUME TabTypes, NEW t \in Tabs,
         \/ GiveUp(t) \/ RequestDies(t) \/ Start(t) \/ UpsertRecording(t) \/ PutObject(t)
         \/ CloseSession(t) \/ StampRecording(t) \/ QueueTranscript(t) \/ QueueReport(t)
         \/ \E d \in {"granted", "declined"} : RecordConsent(t, d)
  PROVE  Moves(t) /\ UNCHANGED <<turn, acked, overlapped>>
<1>1. UNCHANGED <<turn, acked, overlapped>>
  BY DEF GiveUp, RequestDies, Start, UpsertRecording, PutObject, CloseSession,
         StampRecording, QueueTranscript, QueueReport, RecordConsent, sessionRowVars,
         noteVars
<1>2. CASE GiveUp(t) \/ RequestDies(t) \/ Start(t) \/ QueueReport(t) \/ PutObject(t)
  BY <1>1, <1>2, StepMoves DEF GiveUp, RequestDies, Start, QueueReport
<1>3. CASE UpsertRecording(t)
  BY <1>1, <1>3, StepMoves DEF UpsertRecording, TabAt, InFlight
<1>4. CASE CloseSession(t)
  <2>1. InFlight(t)
    BY <1>4 DEF CloseSession, TabAt, InFlight
  <2>. QED  BY <1>1, <1>4, <2>1, CloseTypes DEF Moves, Writing
<1>5. CASE StampRecording(t) \/ QueueTranscript(t)
  BY <1>1, <1>5, StepMoves DEF StampRecording, QueueTranscript, TabAt, InFlight
<1>6. CASE \E d \in {"granted", "declined"} : RecordConsent(t, d)
  BY <1>1, <1>6, StepMoves DEF RecordConsent, TabAt, InFlight
<1>. QED  BY <1>2, <1>3, <1>4, <1>5, <1>6

\* Everybody else leaves the requests, and the answers, alone.
Aside ==
    /\ UNCHANGED <<req, turn>>
    /\ ~overlapped' => ~overlapped /\ acked' = acked
    /\ status = "in_progress" => status' = "in_progress"

\* The recruiter, the deadline, the pipelines and the recorders stand aside.
LEMMA OthersAside ==
  ASSUME \/ Recruiter \/ DeadlinePasses \/ Transcription \/ Drain \/ WorkerDies
         \/ UNCHANGED aiVars
         \/ \E t \in Tabs : StartRecorder(t) \/ Reload(t) \/ Refresh(t)
  PROVE  Aside
<1>1. CASE Recruiter
  <2>1. CASE Regenerate
    <3>1. NoteOverlap(\E t \in Tabs : InFlight(t)) /\ UNCHANGED <<sessionRowVars, req>>
      BY <2>1 DEF Regenerate
    <3>. QED  BY <3>1, NotedNone DEF Aside, sessionRowVars
  <2>2. CASE BeginGenerate \/ CommitGenerate \/ ApproveQuestions \/ BeginIssue
             \/ CommitIssue \/ CancelInterview
    BY <2>2 DEF Aside, BeginGenerate, CommitGenerate, ApproveQuestions, BeginIssue,
                CommitIssue, CancelInterview, sessionRowVars, sessionVars, tabVars,
                pageVars, noteVars
  <2>. QED  BY <1>1, <2>1, <2>2 DEF Recruiter
<1>2. CASE DeadlinePasses
  BY <1>2 DEF Aside, DeadlinePasses, sessionVars, tabVars, pageVars, noteVars
<1>3. CASE Transcription
  BY <1>3 DEF Aside, Transcription, TakeRecording, StoreTranscript, CompleteTranscript,
              FailTranscript, sessionRowVars, tabVars, pageVars, noteVars
<1>4. CASE Drain \/ WorkerDies
  BY <1>4 DEF Aside, Drain, WorkerDies, Claim, Retire, SkipDisabled, ReadSession,
              ReadOutbox, SkipEmpty, CallModel, WriteReport, Requeue, Reject,
              sessionRowVars, tabVars, pageVars, noteVars
<1>5. CASE UNCHANGED aiVars
  BY <1>5 DEF Aside, aiVars, sessionRowVars, tabVars, pageVars, noteVars
<1>6. ASSUME NEW t \in Tabs, StartRecorder(t) \/ Reload(t) \/ Refresh(t)
      PROVE  Aside
  <2>1. CASE StartRecorder(t)
    <3>1. /\ NoteOverlap(\E u \in Tabs \ {t} : tape[u] > 0)
          /\ UNCHANGED <<sessionRowVars, req>>
      BY <2>1 DEF StartRecorder
    <3>. QED  BY <3>1, NotedNone DEF Aside, sessionRowVars
  <2>2. CASE Reload(t) \/ Refresh(t)
    BY <2>2 DEF Aside, Reload, Refresh, sessionRowVars, noteVars
  <2>. QED  BY <1>6, <2>1, <2>2
<1>. QED  BY <1>1, <1>2, <1>3, <1>4, <1>5, <1>6

\* TakesTurns is kept by every step of the round.
LEMMA TurnsKept ==
  ASSUME RoundTypes, TakesTurns, [AiNext]_aiVars
  PROVE  TakesTurns'
<1> SUFFICES ASSUME ~overlapped' PROVE (OneInFlight /\ CopyCurrent /\ AnswersSaved)'
  BY DEF TakesTurns
<1>a. TabTypes
  BY DEF RoundTypes
<1>1. ASSUME NEW t \in Tabs, NEW kind \in DOMAIN EntryOf, Load(t, kind)
      PROVE  (OneInFlight /\ CopyCurrent /\ AnswersSaved)'
  <2>1. /\ req'[t].pc = EntryOf[kind] /\ req'[t].q = Current(turn.answer)
        /\ req'[t].copy = turn
        /\ \A u \in Tabs \ {t} : req'[u] = req[u] /\ ~InFlight(u)
        /\ EntryOf[kind] \in Writing => status = "in_progress"
        /\ UNCHANGED <<status, turn>> /\ acked' = acked /\ ~overlapped
    <3>1. UNCHANGED <<status, turn>>
      BY <1>a, <1>1, LoadFacts DEF sessionRowVars
    <3>2. EntryOf[kind] \in Writing => status = "in_progress"
      BY <1>a, <1>1, LoadFacts DEF Writing
    <3>3. /\ req'[t] = [pc |-> EntryOf[kind], q |-> Current(turn.answer), kind |-> kind,
                        copy |-> turn]
          /\ \A u \in Tabs \ {t} : req'[u] = req[u] /\ ~InFlight(u)
          /\ acked' = acked /\ ~overlapped
      BY <1>a, <1>1, LoadFacts
    <3>. QED  BY <3>1, <3>2, <3>3
  <2>2. OneInFlight'
    BY <2>1 DEF OneInFlight, InFlight
  <2>3. CopyCurrent'
    BY <2>1 DEF CopyCurrent, InFlight, Writing
  <2>4. AnswersSaved'
    BY <2>1 DEF AnswersSaved, TakesTurns
  <2>. QED  BY <2>2, <2>3, <2>4
<1>2. ASSUME NEW t \in Tabs,
             \/ GiveUp(t) \/ RequestDies(t) \/ Start(t) \/ UpsertRecording(t) \/ PutObject(t)
             \/ CloseSession(t) \/ StampRecording(t) \/ QueueTranscript(t) \/ QueueReport(t)
             \/ \E d \in {"granted", "declined"} : RecordConsent(t, d)
      PROVE  (OneInFlight /\ CopyCurrent /\ AnswersSaved)'
  <2>1. Moves(t) /\ UNCHANGED <<turn, acked, overlapped>>
    BY <1>a, <1>2, CandidateMoves
  <2>2. OneInFlight /\ CopyCurrent /\ AnswersSaved
    BY <2>1 DEF TakesTurns
  <2>3. status' = status \/ InFlight(t)
    BY <1>2 DEF GiveUp, RequestDies, Start, UpsertRecording, PutObject, CloseSession,
                StampRecording, QueueTranscript, QueueReport, RecordConsent,
                sessionRowVars, TabAt, InFlight
  <2>4. OneInFlight'
    BY <2>1, <2>2 DEF OneInFlight, InFlight, Moves
  <2>5. CopyCurrent'
    <3>1. ASSUME NEW u \in Tabs, req'[u].pc \in Writing
          PROVE  status' = status /\ u # t
      <4>1. u # t /\ InFlight(u)
        BY <2>1, <3>1 DEF Moves, Writing, InFlight
      <4>. QED  BY <2>2, <2>3, <4>1 DEF OneInFlight
    <3>. QED  BY <2>1, <2>2, <3>1 DEF CopyCurrent, Moves, Writing
  <2>6. AnswersSaved'
    BY <2>1, <2>2 DEF AnswersSaved
  <2>. QED  BY <2>4, <2>5, <2>6
<1>3. ASSUME NEW t \in Tabs, StatObject(t)
      PROVE  (OneInFlight /\ CopyCurrent /\ AnswersSaved)'
  <2>1. /\ req'[t].pc = "write" /\ req'[t].q = req[t].q
        /\ req'[t].copy.answer = req[t].copy.answer /\ req[t].pc = "stat"
        /\ \A u \in Tabs \ {t} : req'[u] = req[u]
        /\ UNCHANGED <<status, turn, acked, overlapped>>
    BY <1>a, <1>3 DEF StatObject, TabAt, TabTypes, RequestType, TurnType, sessionRowVars,
                   noteVars
  <2>2. OneInFlight /\ CopyCurrent /\ AnswersSaved
    BY <2>1 DEF TakesTurns
  <2>3. OneInFlight'
    BY <2>1, <2>2 DEF OneInFlight, InFlight
  <2>4. CopyCurrent'
    BY <2>1, <2>2 DEF CopyCurrent, Writing
  <2>. QED  BY <2>1, <2>2, <2>3, <2>4 DEF AnswersSaved
<1>4. ASSUME NEW t \in Tabs, WriteAnswer(t)
      PROVE  (OneInFlight /\ CopyCurrent /\ AnswersSaved)'
  <2>1. /\ req[t].pc = "write" /\ ~overlapped /\ Done(t)
        /\ acked' = [acked EXCEPT ![req[t].q] = Mode(t)]
        /\ turn' = IF status = "in_progress" THEN NextTurn(t) ELSE turn
        /\ UNCHANGED status
    BY <1>4 DEF WriteAnswer, TabAt
  <2>2. OneInFlight /\ CopyCurrent /\ AnswersSaved
    BY <2>1 DEF TakesTurns
  <2>3. Moves(t)
    BY <1>a, <2>1, StepMoves
  <2>4. status = "in_progress" /\ req[t].copy.answer = turn.answer
    BY <2>1, <2>2 DEF CopyCurrent, Writing
  <2>5. turn'.answer = [turn.answer EXCEPT ![req[t].q] = Mode(t)]
    BY <1>a, <2>1, <2>4 DEF NextTurn, TabTypes, RequestType, TurnType
  <2>6. req[t].q \in Questions /\ acked \in [Questions -> Answers]
        /\ turn.answer \in [Questions -> Answers]
    BY <1>a, <2>1 DEF TabTypes, AsksForAudio, RoundTypes, RowTypes, TurnType
  <2>7. AnswersSaved'
    BY <2>1, <2>2, <2>5, <2>6 DEF AnswersSaved
  <2>8. OneInFlight'
    BY <2>2, <2>3 DEF OneInFlight, InFlight, Moves
  <2>9. CopyCurrent'
    <3>1. ASSUME NEW u \in Tabs PROVE req'[u].pc \notin Writing
      BY <2>1, <2>2, <2>3 DEF Moves, OneInFlight, InFlight, Writing
    <3>. QED  BY <3>1 DEF CopyCurrent, Writing
  <2>. QED  BY <2>7, <2>8, <2>9
<1>5. ASSUME NEW t \in Tabs, Lapse(t)
      PROVE  (OneInFlight /\ CopyCurrent /\ AnswersSaved)'
  <2>1. /\ ~overlapped /\ acked' = acked /\ UNCHANGED <<req, turn>>
        /\ \A u \in Tabs : ~InFlight(u)
    BY <1>5, NotedNone DEF Lapse, OtherInFlight, TabAt, InFlight
  <2>. QED  BY <2>1 DEF TakesTurns, OneInFlight, CopyCurrent, AnswersSaved, InFlight, Writing
<1>6. CASE Aside
  BY <1>6 DEF Aside, TakesTurns, OneInFlight, CopyCurrent, AnswersSaved, InFlight
<1>. QED
  BY <1>1, <1>2, <1>3, <1>4, <1>5, <1>6, OthersAside DEF AiNext, Candidate

\* TakesTurns is an invariant of the AI round.
LEMMA TakesTurnsKept == AiSpec => []TakesTurns
<1>1. AiInit => TakesTurns
  BY RequestTypes DEF AiInit, TakesTurns, OneInFlight, CopyCurrent, AnswersSaved, InFlight,
                      Writing, EmptyTurn
<1>. QED  BY <1>1, TurnsKept, RoundTyped, PTL DEF AiSpec

\* AnswersKept holds for any number of tabs that take turns: the answer is acknowledged
\* before it is known to be on the row, and on the row it is (recordAnswer).
THEOREM AnswersAreKept == AiSpec => []AnswersKept
<1>1. TakesTurns => AnswersKept
  BY DEF TakesTurns, AnswersSaved, AnswersKept
<1>. QED  BY <1>1, TakesTurnsKept, PTL

-----------------------------------------------------------------------------
(* The recording                                                           *)

\* A spoken answer on its way: its audio is uploaded and not yet noted on the row.
SpokenWrite(t) == req[t].pc = "write" /\ req[t].kind = "voice"
Speaks(t) == req[t].pc \in {"recorded", "stat"} \/ SpokenWrite(t)

\* While requests take turns: one page records at a time; ...
OneRecorder == \A t, u \in Tabs : t # u => tape[t] = 0 \/ tape[u] = 0
\* ... what a page uploads, or speaks about, it is recording, and the object is its own;
SpeaksItsTape ==
    \A t \in Tabs :
        /\ req[t].pc \in {"upsert", "put"} \/ Speaks(t) => tape[t] > 0
        /\ Speaks(t) => object.by = t /\ object.len <= tape[t]
\* ... the size a spoken answer will note is the object's, and other copies hold the row's;
NotesTheSize ==
    \A t \in Tabs :
        /\ req[t].pc = "stat" => req[t].kind = "voice"
        /\ SpokenWrite(t) => req[t].copy.size = object.len
        /\ req[t].pc = "write" /\ ~SpokenWrite(t) => req[t].copy.size = turn.size
\* ... a recording has what was noted of it, and so has the object; and the page that
\* records is the page that has spoken.
TapeHasAnswers ==
    /\ \A t \in Tabs : tape[t] > 0 => tape[t] >= turn.size
    /\ \A q \in Questions : turn.answer[q] \in Tabs =>
            /\ object.by = turn.answer[q]
            /\ \A t \in Tabs : tape[t] > 0 => t = turn.answer[q]
    /\ IF HasVoice(turn.answer) THEN object.len >= turn.size ELSE turn.size = 0

AudioInTurn == OneRecorder /\ SpeaksItsTape /\ NotesTheSize /\ TapeHasAnswers
AudioTurns == ~overlapped /\ ~missed => AudioInTurn

\* Requests move on, or start, with nothing of the recording changed.
LEMMA AudioAside ==
  ASSUME AudioInTurn, UNCHANGED <<turn, object, tape>>,
         NEW t \in Tabs, \A u \in Tabs \ {t} : req'[u] = req[u],
         \/ req'[t].pc \notin {"upsert", "put", "recorded", "stat", "write"}
         \/ req'[t].pc \in {"upsert", "put"} /\ tape[t] > 0
         \/ req'[t].pc = "write" /\ req'[t].kind = "typed" /\ req'[t].copy.size = turn.size
         \/ req'[t].pc = "stat" /\ req'[t].kind = "voice" /\ req[t].pc = "recorded"
         \/ /\ req[t].pc = "stat" /\ req'[t].pc = "write" /\ req'[t].kind = req[t].kind
            /\ req'[t].copy.size = object.len
  PROVE  AudioInTurn'
<1> USE DEF AudioInTurn
<1>1. OneRecorder'
  BY DEF OneRecorder
<1>2. SpeaksItsTape'
  BY DEF SpeaksItsTape, Speaks, SpokenWrite
<1>3. NotesTheSize'
  BY DEF NotesTheSize, SpokenWrite
<1>4. TapeHasAnswers'
  BY DEF TapeHasAnswers, HasVoice
<1>. QED  BY <1>1, <1>2, <1>3, <1>4

\* The browser puts its recording over the object of the round (PutObject).
LEMMA PutKeepsAudio ==
  ASSUME RoundTypes, AudioInTurn, NEW t \in Tabs, PutObject(t)
  PROVE  AudioInTurn'
<1> USE DEF AudioInTurn
<1>a. /\ tape \in [Tabs -> 0 .. MaxTape] /\ MaxTape \in Nat
      /\ turn.size \in Nat
  BY AiInterviewAssumption DEF RoundTypes, TabTypes, RowTypes, TurnType
<1>1. /\ req[t].pc = "put" /\ object' = [by |-> t, len |-> tape[t]]
      /\ turn' = turn
  BY DEF PutObject, TabAt, sessionRowVars
<1>2. /\ req'[t].pc = "recorded"
      /\ \A u \in Tabs \ {t} : req'[u] = req[u]
  BY DEF PutObject, RoundTypes, TabTypes, RequestType
<1>3. /\ tape'[t] \in Nat /\ tape[t] \in Nat /\ tape'[t] >= tape[t]
      /\ \A u \in Tabs \ {t} : tape'[u] = tape[u]
  BY <1>a DEF PutObject
<1>4. tape[t] > 0 /\ \A u \in Tabs \ {t} : tape[u] = 0
  BY <1>1 DEF SpeaksItsTape, OneRecorder
<1>5. \A u \in Tabs \ {t} : ~Speaks(u) /\ req[u].pc \notin {"upsert", "put"}
  <2>1. \A n : n = 0 => ~(n > 0)
    OBVIOUS
  <2>2. \A u \in Tabs \ {t} : ~(tape[u] > 0)
    BY <1>4, <2>1
  <2>. QED  BY <2>2 DEF SpeaksItsTape
<1>6. tape'[t] > 0
  BY <1>3, <1>4
<1>7. OneRecorder'
  BY <1>3, <1>4 DEF OneRecorder
<1>8. SpeaksItsTape'
  BY <1>1, <1>2, <1>3, <1>5, <1>6 DEF SpeaksItsTape, Speaks, SpokenWrite
<1>9. NotesTheSize'
  BY <1>1, <1>2, <1>5 DEF NotesTheSize, Speaks, SpokenWrite
<1>10. TapeHasAnswers'
  <2>1. tape[t] >= turn.size
    BY <1>4 DEF TapeHasAnswers
  <2>2. tape'[t] >= turn.size
    BY <1>a, <1>3, <2>1
  <2>3. object'.len >= turn.size /\ object'.by = t
    BY <1>1, <2>1
  <2>. QED  BY <1>1, <1>3, <1>4, <2>2, <2>3 DEF TapeHasAnswers, HasVoice
<1>. QED  BY <1>7, <1>8, <1>9, <1>10

\* An answer is written: spoken, with the size of its audio, or typed (recordAnswer).
LEMMA WriteKeepsAudio ==
  ASSUME RoundTypes, TakesTurns, AudioInTurn, ~overlapped, NEW t \in Tabs, WriteAnswer(t)
  PROVE  AudioInTurn'
<1> USE DEF AudioInTurn
<1>a. /\ req[t].pc = "write" /\ Done(t) /\ UNCHANGED <<tape, object>>
      /\ turn' = IF status = "in_progress" THEN NextTurn(t) ELSE turn
  BY DEF WriteAnswer, TabAt, mediaVars
<1>b. /\ status = "in_progress" /\ req[t].copy.answer = turn.answer
      /\ req[t].q = Current(turn.answer)
      /\ \A u \in Tabs \ {t} : ~InFlight(u)
  BY <1>a DEF TakesTurns, CopyCurrent, OneInFlight, InFlight, Writing
<1>c. /\ turn'.answer = [turn.answer EXCEPT ![req[t].q] = Mode(t)]
      /\ turn'.size = req[t].copy.size
  BY <1>a, <1>b DEF NextTurn, RoundTypes, TabTypes, RequestType, TurnType
<1>d. /\ req[t].q \in Questions /\ turn.answer[req[t].q] = "none"
      /\ turn.answer \in [Questions -> Answers]
      /\ "none" \notin Tabs /\ "typed" \notin Tabs
  <2>1. req[t].q \in Questions
    BY <1>a DEF RoundTypes, TabTypes, AsksForAudio
  <2>2. req[t].q # 0
    BY <2>1 DEF Questions
  <2>3. turn.answer[req[t].q] = "none"
    BY <1>b, <2>2, CurrentQuestion
  <2>. QED  BY <2>1, <2>3, AiInterviewAssumption DEF RoundTypes, RowTypes, TurnType
<1>e. /\ req'[t] = NoRequest /\ \A u \in Tabs \ {t} : req'[u] = req[u]
  BY <1>a DEF Done, RoundTypes, TabTypes
<1>f. \A q \in Questions :
        turn'.answer[q] = IF q = req[t].q THEN Mode(t) ELSE turn.answer[q]
  BY <1>c, <1>d
<1>1. OneRecorder'
  BY <1>a DEF OneRecorder
<1>2. SpeaksItsTape'
  BY <1>a, <1>e, RequestTypes DEF SpeaksItsTape, Speaks, SpokenWrite
<1>3. NotesTheSize'
  BY <1>a, <1>b, <1>e, RequestTypes DEF NotesTheSize, SpokenWrite, InFlight
<1>4. CASE SpokenWrite(t)
  <2>1. /\ tape[t] > 0 /\ object.by = t /\ object.len <= tape[t]
        /\ turn'.size = object.len /\ Mode(t) = t
    BY <1>4, <1>c DEF SpeaksItsTape, NotesTheSize, Speaks, SpokenWrite, Mode
  <2>2. \A u \in Tabs : tape[u] > 0 => u = t
    BY <2>1 DEF OneRecorder
  <2>3. HasVoice(turn'.answer)
    BY <1>d, <1>f, <2>1 DEF HasVoice
  <2>4. \A q \in Questions : turn'.answer[q] \in Tabs => turn'.answer[q] = t
    BY <1>f, <2>1 DEF TapeHasAnswers
  <2>5. object.len >= object.len /\ tape[t] >= object.len
    BY <2>1 DEF RoundTypes, MediaTypes, TabTypes
  <2>. QED  BY <1>a, <1>1, <1>2, <1>3, <2>1, <2>2, <2>3, <2>4, <2>5 DEF TapeHasAnswers
<1>5. CASE ~SpokenWrite(t)
  <2>1. turn'.size = turn.size /\ Mode(t) = "typed"
    BY <1>5, <1>a, <1>c DEF NotesTheSize, SpokenWrite, Mode
  <2>2. \A q \in Questions : turn'.answer[q] \in Tabs <=> turn.answer[q] \in Tabs
    BY <1>d, <1>f, <2>1
  <2>3. \A q \in Questions : turn'.answer[q] \in Tabs => turn'.answer[q] = turn.answer[q]
    BY <1>d, <1>f, <2>1
  <2>4. HasVoice(turn'.answer) <=> HasVoice(turn.answer)
    BY <2>2 DEF HasVoice
  <2>5. TapeHasAnswers'
    BY <1>a, <2>1, <2>2, <2>3, <2>4 DEF TapeHasAnswers
  <2>. QED  BY <1>1, <1>2, <1>3, <2>5
<1>. QED  BY <1>4, <1>5

\* A page starts to record, when no other does and it has missed no answer
\* (voiceAvailability).
LEMMA RecorderKeepsAudio ==
  ASSUME RoundTypes, AudioInTurn, NEW t \in Tabs, StartRecorder(t), ~overlapped', ~missed'
  PROVE  AudioInTurn'
<1> USE DEF AudioInTurn
<1>1. /\ req[t].pc = "idle" /\ UNCHANGED <<req, object, turn>> /\ ~Answered(turn.answer)
      /\ tape'[t] = 1 /\ \A u \in Tabs \ {t} : tape'[u] = tape[u]
  BY DEF StartRecorder, Misses, TabAt, sessionRowVars, mediaVars, RoundTypes, TabTypes
<1>2. \A u \in Tabs \ {t} : ~(tape[u] > 0) /\ tape[u] = 0
  <2>1. NoteOverlap(\E u \in Tabs \ {t} : tape[u] > 0)
    BY DEF StartRecorder
  <2>2. \A u \in Tabs \ {t} : ~(tape[u] > 0)
    BY <2>1, NotedNone
  <2>. QED  BY <2>2 DEF RoundTypes, TabTypes
<1>3. \A q \in Questions : turn.answer[q] = "none"
  BY <1>1 DEF Answered
<1>4. ~HasVoice(turn.answer) /\ turn.size = 0
  BY <1>3, AiInterviewAssumption DEF HasVoice, TapeHasAnswers
<1>5. OneRecorder'
  BY <1>1, <1>2 DEF OneRecorder
<1>6. SpeaksItsTape'
  <2>1. \A u \in Tabs : ~Speaks(u) /\ req[u].pc \notin {"upsert", "put"}
    BY <1>1, <1>2 DEF SpeaksItsTape, Speaks, SpokenWrite
  <2>. QED  BY <1>1, <2>1 DEF SpeaksItsTape, Speaks, SpokenWrite
<1>7. NotesTheSize'
  BY <1>1 DEF NotesTheSize, SpokenWrite
<1>8. TapeHasAnswers'
  <2>1. \A u \in Tabs : tape'[u] >= 0
    BY <1>1, <1>2
  <2>. QED  BY <1>1, <1>3, <1>4, <2>1, AiInterviewAssumption DEF TapeHasAnswers
<1>. QED  BY <1>5, <1>6, <1>7, <1>8

\* A page is loaded again: its recording is gone, its request was over.
LEMMA ReloadKeepsAudio ==
  ASSUME RoundTypes, AudioInTurn, NEW t \in Tabs, Reload(t)
  PROVE  AudioInTurn'
<1> USE DEF AudioInTurn
<1>1. /\ req[t].pc = "idle" /\ UNCHANGED <<req, object, turn>>
      /\ tape'[t] = 0 /\ \A u \in Tabs \ {t} : tape'[u] = tape[u]
  BY DEF Reload, TabAt, sessionRowVars, mediaVars, RoundTypes, TabTypes
<1>2. OneRecorder'
  BY <1>1 DEF OneRecorder
<1>3. SpeaksItsTape'
  BY <1>1 DEF SpeaksItsTape, Speaks, SpokenWrite
<1>4. NotesTheSize'
  BY <1>1 DEF NotesTheSize, SpokenWrite
<1>5. TapeHasAnswers'
  BY <1>1 DEF TapeHasAnswers
<1>. QED  BY <1>2, <1>3, <1>4, <1>5

\* AudioTurns is an invariant of the AI round.
LEMMA AudioTurnsKept == AiSpec => []AudioTurns
<1>1. AiInit => AudioTurns
  BY RequestTypes, AiInterviewAssumption
     DEF AiInit, AudioTurns, AudioInTurn, OneRecorder, SpeaksItsTape, NotesTheSize,
         TapeHasAnswers, Speaks, SpokenWrite, EmptyTurn, HasVoice
<1>2. ASSUME RoundTypes, TakesTurns, AudioTurns, [AiNext]_aiVars
      PROVE  AudioTurns'
  <2> SUFFICES ASSUME ~overlapped', ~missed' PROVE AudioInTurn'
    BY DEF AudioTurns
  <2> USE <1>2
  <2>b. ~missed
    BY PageTyped DEF RoundTypes
  <2>a. TabTypes
    BY DEF RoundTypes
  <2>1. ASSUME NEW t \in Tabs, NEW kind \in DOMAIN EntryOf, Load(t, kind)
        PROVE  AudioInTurn'
    <3>1. AudioInTurn /\ UNCHANGED <<turn, object, tape>>
      BY <2>a, <2>b, <2>1, LoadFacts DEF AudioTurns, sessionRowVars, mediaVars
    <3>2. /\ req'[t].pc = EntryOf[kind] /\ req'[t].kind = kind /\ req'[t].copy = turn
          /\ \A u \in Tabs \ {t} : req'[u] = req[u]
      <4>1. /\ req'[t] = [pc |-> EntryOf[kind], q |-> Current(turn.answer), kind |-> kind,
                          copy |-> turn]
            /\ \A u \in Tabs \ {t} : req'[u] = req[u]
        BY <2>a, <2>1, LoadFacts
      <4>. QED  BY <4>1
    <3>3. \/ EntryOf[kind] \in {"consent", "close"}
          \/ EntryOf[kind] = "upsert" /\ tape[t] > 0
          \/ EntryOf[kind] = "write" /\ kind = "typed"
          \/ EntryOf[kind] = "stat" /\ kind = "voice" /\ req[t].pc = "recorded"
      BY <2>a, <2>1, LoadFacts
    <3>. QED  BY <3>1, <3>2, <3>3, AudioAside
  <2>2. ASSUME NEW t \in Tabs,
               \/ GiveUp(t) \/ RequestDies(t) \/ Start(t) \/ QueueReport(t)
               \/ CloseSession(t) \/ StampRecording(t) \/ QueueTranscript(t)
               \/ \E d \in {"granted", "declined"} : RecordConsent(t, d)
        PROVE  AudioInTurn'
    <3>1. AudioInTurn /\ UNCHANGED <<turn, object, tape>>
      BY <2>b, <2>2 DEF AudioTurns, GiveUp, RequestDies, Start, QueueReport, CloseSession,
                  StampRecording, QueueTranscript, RecordConsent, sessionRowVars, mediaVars,
                  pageVars, noteVars
    <3>2. \/ Done(t) \/ CloseSession(t)
          \/ \E pc \in {"start", "queue", "report"} : Step(t, pc)
      BY <2>2 DEF GiveUp, RequestDies, Start, QueueReport, StampRecording, QueueTranscript,
                  RecordConsent
    <3>3. /\ req'[t].pc \notin {"upsert", "put", "recorded", "stat", "write"}
          /\ \A u \in Tabs \ {t} : req'[u] = req[u]
      BY <2>a, <3>2, RequestTypes, CloseTypes DEF Done, Step, TabTypes, RequestType
    <3>. QED  BY <3>1, <3>3, AudioAside
  <2>3. ASSUME NEW t \in Tabs, UpsertRecording(t)
        PROVE  AudioInTurn'
    <3>1. AudioInTurn /\ UNCHANGED <<turn, object, tape>>
      BY <2>b, <2>3 DEF AudioTurns, UpsertRecording, sessionRowVars, pageVars, noteVars
    <3>2. /\ req[t].pc = "upsert" /\ req'[t].pc = "put"
          /\ \A u \in Tabs \ {t} : req'[u] = req[u]
      BY <2>3, <2>a DEF UpsertRecording, TabAt, Step, TabTypes, RequestType
    <3>3. tape[t] > 0
      BY <3>1, <3>2 DEF AudioInTurn, SpeaksItsTape
    <3>. QED  BY <3>1, <3>2, <3>3, AudioAside
  <2>4. ASSUME NEW t \in Tabs, StatObject(t)
        PROVE  AudioInTurn'
    <3>1. AudioInTurn /\ UNCHANGED <<turn, object, tape>>
      BY <2>b, <2>4 DEF AudioTurns, StatObject, sessionRowVars, mediaVars, pageVars,
                  noteVars
    <3>2. /\ req[t].pc = "stat" /\ req'[t].pc = "write" /\ req'[t].kind = req[t].kind
          /\ req'[t].copy.size = object.len
          /\ \A u \in Tabs \ {t} : req'[u] = req[u]
      BY <2>4, <2>a DEF StatObject, TabAt, TabTypes, RequestType, TurnType
    <3>. QED  BY <3>1, <3>2, AudioAside
  <2>5. ASSUME NEW t \in Tabs, PutObject(t)
        PROVE  AudioInTurn'
    <3>1. AudioInTurn
      BY <2>b, <2>5 DEF AudioTurns, PutObject, noteVars
    <3>. QED  BY <2>5, <3>1, PutKeepsAudio
  <2>6. ASSUME NEW t \in Tabs, WriteAnswer(t)
        PROVE  AudioInTurn'
    <3>1. AudioInTurn /\ ~overlapped
      BY <2>b, <2>6 DEF AudioTurns, WriteAnswer
    <3>. QED  BY <2>6, <3>1, WriteKeepsAudio
  <2>7. ASSUME NEW t \in Tabs, StartRecorder(t)
        PROVE  AudioInTurn'
    <3>1. AudioInTurn
      BY <2>b, <2>7, NotedNone DEF AudioTurns, StartRecorder
    <3>. QED  BY <2>7, <3>1, RecorderKeepsAudio
  <2>8. ASSUME NEW t \in Tabs, Reload(t)
        PROVE  AudioInTurn'
    <3>1. AudioInTurn
      BY <2>b, <2>8 DEF AudioTurns, Reload, noteVars
    <3>. QED  BY <2>8, <3>1, ReloadKeepsAudio
  <2>9. CASE Aside /\ UNCHANGED <<object, tape>>
    BY <2>b, <2>9 DEF Aside, AudioTurns, AudioInTurn, OneRecorder, SpeaksItsTape, NotesTheSize,
                TapeHasAnswers, Speaks, SpokenWrite, HasVoice
  <2>10. ASSUME NEW t \in Tabs, Lapse(t)
         PROVE  AudioInTurn'
    <3>1. NoteOverlap(OtherInFlight(t)) /\ UNCHANGED <<req, turn, object, tape>>
      BY <2>10 DEF Lapse, mediaVars, pageVars
    <3>2. AudioInTurn
      BY <2>b, <3>1, NotedNone DEF AudioTurns
    <3>. QED  BY <3>1, <3>2 DEF AudioInTurn, OneRecorder, SpeaksItsTape, NotesTheSize,
                   TapeHasAnswers, Speaks, SpokenWrite, HasVoice
  <2>11. \/ Recruiter \/ DeadlinePasses \/ Transcription \/ Drain \/ WorkerDies
         \/ UNCHANGED aiVars \/ \E t \in Tabs : Refresh(t)
         => UNCHANGED <<object, tape>>
    BY DEF Refresh, Recruiter, Transcription, Drain, aiVars, mediaVars, tabVars, pageVars,
           noteVars, BeginGenerate, CommitGenerate, ApproveQuestions, BeginIssue,
           CommitIssue, CancelInterview,
           Regenerate, DeadlinePasses, TakeRecording, StoreTranscript, CompleteTranscript,
           FailTranscript, Claim, Retire, SkipDisabled, ReadSession, ReadOutbox, SkipEmpty,
           CallModel, WriteReport, Requeue, Reject, WorkerDies
  <2>. QED
    BY <2>1, <2>2, <2>3, <2>4, <2>5, <2>6, <2>7, <2>8, <2>9, <2>10, <2>11, OthersAside
       DEF AiNext, Candidate
<1>. QED  BY <1>1, <1>2, RoundTyped, TakesTurnsKept, PTL DEF AiSpec

\* AudioKept holds for any number of tabs that take turns, pages loaded again included:
\* the round's one object holds every spoken answer (createAnswerUploadUrl, recordAnswer).
THEOREM AudioIsKept == AiSpec => []AudioKept
<1>1. ASSUME RoundTypes, AudioTurns
      PROVE  AudioKept
  BY <1>1 DEF AudioTurns, AudioInTurn, TapeHasAnswers, HasVoice, AudioKept
<1>. QED  BY <1>1, RoundTyped, AudioTurnsKept, PTL

-----------------------------------------------------------------------------
(* The queues                                                              *)

Settled == {"completed", "failed"}

\* A submission on its way: it has yet to queue the report, and the transcript.
Submitting(t) == req[t].pc \in {"stamp", "queue", "report"}
OwesTranscript(t) == req[t].pc \in {"stamp", "queue"}

\* While requests take turns and nobody dies: a row in a queue, a pass or a submission on
\* its way are of a submitted round; ...
OnlySubmitted ==
    /\ evidence.status # "none" => status = "submitted"
    /\ worker.pc # "idle" => evidence.status # "none"
    /\ \A t \in Tabs : Submitting(t) => status = "submitted"
\* ... a submitted round has its rows, the transcript's before the report's, or the
\* submission that is about to write them;
RowsQueued ==
    status = "submitted" =>
        /\ evidence.status # "none" \/ \E t \in Tabs : Submitting(t)
        /\ HasVoice(turn.answer) => txOutbox # "none" \/ \E t \in Tabs : OwesTranscript(t)
        /\ evidence.status # "none" /\ HasVoice(turn.answer) => txOutbox # "none"
\* ... a spoken answer has its recording, which is taken for a transcript only;
SpokenIsRecorded ==
    /\ recording = "taken" => txOutbox # "none"
    /\ HasVoice(turn.answer) \/ (\E t \in Tabs : SpokenWrite(t)) => recording # "absent"
\* ... and a pass looks at the transcript's row for a spoken answer only, and goes on
\* without the words when that row is settled.
BlindWhenSettled ==
    /\ worker.pc = "outbox" => HasVoice(worker.of)
    /\ worker.blind \/ evidence.blind => txOutbox \in Settled

QueuesInTurn == OnlySubmitted /\ RowsQueued /\ SpokenIsRecorded /\ BlindWhenSettled
QueueTurns == ~overlapped /\ ~died => QueuesInTurn

\* Steps of the recruiter and the candidate that leave the queues as they are.
LEMMA QueuesAside ==
  ASSUME QueuesInTurn, UNCHANGED <<evidence, worker, txOutbox>>,
         status' = "submitted" => status = "submitted",
         status = "submitted" => status' = "submitted" /\ turn' = turn,
         HasVoice(turn'.answer) => HasVoice(turn.answer) \/ \E t \in Tabs : SpokenWrite(t),
         \A t \in Tabs : SpokenWrite(t)' => SpokenWrite(t) \/ recording # "absent",
         recording' = recording \/ (recording # "taken" /\ recording' \in {"pending", "uploaded"}),
         \A t \in Tabs : /\ Submitting(t)' <=> Submitting(t)
                         /\ OwesTranscript(t)' <=> OwesTranscript(t)
  PROVE  QueuesInTurn'
<1> USE DEF QueuesInTurn
<1>1. OnlySubmitted'
  BY DEF OnlySubmitted
<1>2. RowsQueued'
  BY DEF RowsQueued
<1>3. SpokenIsRecorded'
  BY DEF SpokenIsRecorded
<1>4. BlindWhenSettled'
  BY DEF BlindWhenSettled
<1>. QED  BY <1>1, <1>2, <1>3, <1>4

\* The session is closed: the submission owes the rows (submitSession).
LEMMA CloseKeepsQueues ==
  ASSUME RoundTypes, TakesTurns, ~overlapped, QueuesInTurn, NEW t \in Tabs, CloseSession(t)
  PROVE  QueuesInTurn'
<1> USE DEF QueuesInTurn
<1>1. /\ req[t].pc = "close" /\ status = "in_progress" /\ req[t].copy.answer = turn.answer
      /\ status' = "submitted"
      /\ UNCHANGED <<turn, recording, txOutbox, evidence, worker>>
  BY DEF CloseSession, TabAt, TakesTurns, CopyCurrent, Writing, mediaVars, drainVars
<1>2. /\ req'[t].pc = IF HasVoice(turn.answer) THEN "stamp" ELSE "report"
      /\ \A u \in Tabs \ {t} : req'[u] = req[u]
  BY <1>1 DEF CloseSession, Step, RoundTypes, TabTypes, RequestType
<1>3. evidence.status = "none" /\ worker.pc = "idle"
  BY <1>1 DEF OnlySubmitted
<1>4. OnlySubmitted'
  BY <1>1, <1>3 DEF OnlySubmitted
<1>5. RowsQueued'
  BY <1>1, <1>2, <1>3 DEF RowsQueued, Submitting, OwesTranscript
<1>6. SpokenIsRecorded'
  BY <1>1, <1>2 DEF SpokenIsRecorded, SpokenWrite
<1>7. BlindWhenSettled'
  BY <1>1 DEF BlindWhenSettled
<1>. QED  BY <1>4, <1>5, <1>6, <1>7

\* The recording is stamped, or is taken already, when its transcript is queued.
LEMMA StampKeepsQueues ==
  ASSUME RoundTypes, QueuesInTurn, NEW t \in Tabs, StampRecording(t)
  PROVE  QueuesInTurn'
<1> USE DEF QueuesInTurn
<1>1. /\ req[t].pc = "stamp" /\ status = "submitted"
      /\ UNCHANGED <<status, turn, txOutbox, evidence, worker>>
  BY DEF StampRecording, TabAt, OnlySubmitted, Submitting, sessionRowVars, drainVars
<1>2. /\ \A u \in Tabs \ {t} : req'[u] = req[u]
      /\ \/ recording' = "uploaded" /\ recording # "taken" /\ req'[t].pc = "queue"
         \/ recording' = recording /\ recording \in {"absent", "taken"} /\ req'[t].pc = "report"
  BY DEF StampRecording, Step, RoundTypes, TabTypes, MediaTypes, RequestType
<1>3. OnlySubmitted'
  BY <1>1 DEF OnlySubmitted
<1>4. RowsQueued'
  BY <1>1, <1>2 DEF RowsQueued, SpokenIsRecorded, Submitting, OwesTranscript
<1>5. SpokenIsRecorded'
  BY <1>1, <1>2 DEF SpokenIsRecorded, SpokenWrite
<1>6. BlindWhenSettled'
  BY <1>1 DEF BlindWhenSettled
<1>. QED  BY <1>3, <1>4, <1>5, <1>6

\* The transcript is queued.
LEMMA TranscriptKeepsQueues ==
  ASSUME RoundTypes, QueuesInTurn, NEW t \in Tabs, QueueTranscript(t)
  PROVE  QueuesInTurn'
<1> USE DEF QueuesInTurn
<1>1. /\ req[t].pc = "queue" /\ txOutbox' # "none"
      /\ txOutbox # "none" => txOutbox' = txOutbox
      /\ UNCHANGED <<status, turn, recording, evidence, worker>>
  BY DEF QueueTranscript, TabAt, sessionRowVars, drainVars
<1>2. req'[t].pc = "report" /\ \A u \in Tabs \ {t} : req'[u] = req[u]
  BY DEF QueueTranscript, Step, RoundTypes, TabTypes, RequestType
<1>3. OnlySubmitted'
  BY <1>1, <1>2 DEF OnlySubmitted, Submitting
<1>4. RowsQueued'
  BY <1>1, <1>2 DEF RowsQueued, Submitting
<1>5. SpokenIsRecorded'
  BY <1>1, <1>2 DEF SpokenIsRecorded, SpokenWrite
<1>6. BlindWhenSettled'
  BY <1>1 DEF BlindWhenSettled, Settled
<1>. QED  BY <1>3, <1>4, <1>5, <1>6

\* The report is queued, by the one request in flight: nobody owes the transcript any more.
LEMMA ReportKeepsQueues ==
  ASSUME RoundTypes, TakesTurns, ~overlapped, QueuesInTurn, NEW t \in Tabs, QueueReport(t)
  PROVE  QueuesInTurn'
<1> USE DEF QueuesInTurn
<1>1. /\ req[t].pc = "report" /\ status = "submitted"
      /\ evidence'.status # "none" /\ evidence'.blind = evidence.blind
      /\ UNCHANGED <<status, turn, recording, txOutbox, worker>>
  BY DEF QueueReport, TabAt, OnlySubmitted, Submitting, sessionRowVars, mediaVars,
         RoundTypes, DrainTypes, EvidenceType
<1>2. req'[t] = NoRequest /\ \A u \in Tabs \ {t} : req'[u] = req[u]
  BY DEF QueueReport, Done, RoundTypes, TabTypes
<1>3. \A u \in Tabs : ~OwesTranscript(u)
  BY <1>1 DEF TakesTurns, OneInFlight, InFlight, OwesTranscript
<1>4. OnlySubmitted'
  BY <1>1 DEF OnlySubmitted
<1>5. RowsQueued'
  BY <1>1, <1>3 DEF RowsQueued
<1>6. SpokenIsRecorded'
  BY <1>1, <1>2, RequestTypes DEF SpokenIsRecorded, SpokenWrite
<1>7. BlindWhenSettled'
  BY <1>1 DEF BlindWhenSettled
<1>. QED  BY <1>4, <1>5, <1>6, <1>7

\* The report is asked for again, when no request is in flight.
LEMMA RegenerateKeepsQueues ==
  ASSUME RoundTypes, QueuesInTurn, Regenerate, ~overlapped'
  PROVE  QueuesInTurn'
<1> USE DEF QueuesInTurn
<1>1. /\ status = "submitted" /\ evidence'.status # "none"
      /\ evidence'.blind = evidence.blind
      /\ UNCHANGED <<status, turn, recording, txOutbox, worker, req>>
  BY DEF Regenerate, sessionRowVars, mediaVars, RoundTypes, DrainTypes, EvidenceType
<1>2. \A u \in Tabs : ~OwesTranscript(u)
  <2>1. NoteOverlap(\E t \in Tabs : InFlight(t))
    BY DEF Regenerate
  <2>2. \A t \in Tabs : ~InFlight(t)
    BY <2>1, NotedNone
  <2>. QED  BY <2>2 DEF InFlight, OwesTranscript
<1>3. OnlySubmitted'
  BY <1>1 DEF OnlySubmitted
<1>4. RowsQueued'
  BY <1>1, <1>2 DEF RowsQueued
<1>5. SpokenIsRecorded'
  BY <1>1 DEF SpokenIsRecorded, SpokenWrite
<1>6. BlindWhenSettled'
  BY <1>1 DEF BlindWhenSettled
<1>. QED  BY <1>3, <1>4, <1>5, <1>6

\* The transcript pipeline takes up what was queued and settles it.
LEMMA TranscriptionKeepsQueues ==
  ASSUME QueuesInTurn, Transcription
  PROVE  QueuesInTurn'
<1> USE DEF QueuesInTurn
<1>1. /\ txOutbox # "none" /\ txOutbox' # "none"
      /\ txOutbox \in Settled => txOutbox' = txOutbox
      /\ recording' \in {recording, "taken"}
      /\ UNCHANGED <<status, turn, evidence, worker, req>>
      \/ UNCHANGED <<status, turn, evidence, worker, req, recording, txOutbox>>
  BY DEF Transcription, TakeRecording, StoreTranscript, CompleteTranscript, FailTranscript,
         Settled, sessionRowVars, drainVars, tabVars, pageVars, noteVars
<1>2. OnlySubmitted'
  BY <1>1 DEF OnlySubmitted, Submitting
<1>3. RowsQueued'
  BY <1>1 DEF RowsQueued, Submitting, OwesTranscript
<1>4. SpokenIsRecorded'
  BY <1>1 DEF SpokenIsRecorded, SpokenWrite
<1>5. BlindWhenSettled'
  BY <1>1 DEF BlindWhenSettled
<1>. QED  BY <1>2, <1>3, <1>4, <1>5

\* The drain works on a row that is there, and goes on without the words of a spoken
\* answer when their row, which was there before the report's, is settled.
LEMMA DrainKeepsQueues ==
  ASSUME RoundTypes, AboutSubmission, QueuesInTurn, Drain
  PROVE  QueuesInTurn'
<1> USE DEF QueuesInTurn
<1>a. /\ UNCHANGED <<status, turn, recording, txOutbox, req>>
      /\ worker \in PassType /\ evidence \in EvidenceType
  BY DEF Drain, Claim, Retire, SkipDisabled, ReadSession, ReadOutbox, SkipEmpty, CallModel,
         WriteReport, Requeue, Reject, sessionRowVars, mediaVars, tabVars, pageVars,
         noteVars, RoundTypes, DrainTypes
<1>1. SpokenIsRecorded'
  BY <1>a DEF SpokenIsRecorded, SpokenWrite
<1>2. evidence.status # "none" /\ evidence'.status # "none"
  <2>1. CASE Claim \/ Retire
    BY <2>1, <1>a DEF Claim, Claimable, Retire, Report, EvidenceType
  <2>2. CASE ~(Claim \/ Retire)
    <3>1. worker.pc # "idle"
      BY <2>2 DEF Drain, SkipDisabled, ReadSession, ReadOutbox, SkipEmpty, CallModel,
                  WriteReport, Requeue, Reject, WorkerAt
    <3>2. evidence.status # "none"
      BY <3>1 DEF OnlySubmitted
    <3>3. CASE SkipDisabled \/ ReadSession \/ Requeue \/ Reject
      BY <1>a, <3>2, <3>3 DEF SkipDisabled, ReadSession, Requeue, Reject, Report, EvidenceType
    <3>4. CASE ReadOutbox \/ SkipEmpty \/ CallModel \/ WriteReport
      BY <1>a, <3>2, <3>4 DEF ReadOutbox, SkipEmpty, CallModel, WriteReport, EvidenceType
    <3>. QED  BY <2>2, <3>2, <3>3, <3>4 DEF Drain
  <2>. QED  BY <2>1, <2>2
<1>3. OnlySubmitted'
  BY <1>a, <1>2 DEF OnlySubmitted, Submitting
<1>4. RowsQueued'
  BY <1>a, <1>2 DEF RowsQueued, Submitting, OwesTranscript
<1>5. BlindWhenSettled'
  <2>1. CASE ReadOutbox
    <3>1. worker.pc = "outbox" /\ HasVoice(turn.answer) /\ status = "submitted"
      BY <2>1 DEF ReadOutbox, WorkerAt, BlindWhenSettled, AboutSubmission
    <3>2. txOutbox # "none"
      BY <1>2, <3>1 DEF RowsQueued
    <3>3. CASE StillComing
      <4>1. worker' = NoPass /\ evidence'.blind = evidence.blind
        BY <1>a, <2>1, <3>3 DEF ReadOutbox, EndPass, EvidenceType
      <4>. QED  BY <1>a, <4>1 DEF BlindWhenSettled, NoPass
    <3>4. CASE ~StillComing
      <4>1. txOutbox \in Settled
        BY <3>2, <3>4 DEF StillComing, Settled, RoundTypes, MediaTypes
      <4>2. worker'.pc = "model"
        BY <1>a, <2>1, <3>4 DEF ReadOutbox, PassType
      <4>. QED  BY <1>a, <4>1, <4>2 DEF BlindWhenSettled
    <3>. QED  BY <3>3, <3>4
  <2>2. CASE ReadSession
    <3>1. CASE status = "submitted"
      <4>1. /\ worker'.pc = "outbox" => HasVoice(worker'.of)
            /\ worker'.blind = worker.blind /\ evidence' = evidence
        BY <1>a, <2>2, <3>1 DEF ReadSession, PassType
      <4>. QED  BY <1>a, <4>1 DEF BlindWhenSettled
    <3>2. CASE status # "submitted"
      <4>1. worker' = NoPass /\ evidence'.blind = evidence.blind
        BY <1>a, <2>2, <3>2 DEF ReadSession, Report, EndPass, EvidenceType
      <4>. QED  BY <1>a, <4>1 DEF BlindWhenSettled, NoPass
    <3>. QED  BY <3>1, <3>2
  <2>3. CASE Claim \/ Retire
    <3>1. evidence'.blind = evidence.blind
      BY <1>a, <2>3 DEF Claim, Retire, Report, EvidenceType
    <3>2. CASE Claim
      <4>1. worker'.pc = "session" /\ worker'.blind = FALSE
        BY <3>2 DEF Claim
      <4>. QED  BY <1>a, <3>1, <4>1 DEF BlindWhenSettled
    <3>3. CASE Retire
      <4>1. worker' = worker
        BY <3>3 DEF Retire
      <4>. QED  BY <1>a, <3>1, <4>1 DEF BlindWhenSettled
    <3>. QED  BY <2>3, <3>2, <3>3
  <2>4. CASE SkipDisabled \/ Requeue \/ Reject
    <3>1. worker' = NoPass /\ evidence'.blind = evidence.blind
      BY <1>a, <2>4 DEF SkipDisabled, Requeue, Reject, Report, EndPass, EvidenceType
    <3>. QED  BY <1>a, <3>1 DEF BlindWhenSettled, NoPass
  <2>5. CASE SkipEmpty \/ WriteReport
    <3>1. worker' = NoPass /\ evidence'.blind = worker.blind
      BY <1>a, <2>5 DEF SkipEmpty, WriteReport, EndPass, EvidenceType
    <3>. QED  BY <1>a, <3>1 DEF BlindWhenSettled, NoPass
  <2>6. CASE CallModel
    <3>1. worker'.pc = "write" /\ worker'.blind = worker.blind /\ evidence' = evidence
      BY <1>a, <2>6 DEF CallModel, Pass, PassType
    <3>. QED  BY <1>a, <3>1 DEF BlindWhenSettled
  <2>. QED  BY <2>1, <2>2, <2>3, <2>4, <2>5, <2>6 DEF Drain
<1>. QED  BY <1>1, <1>3, <1>4, <1>5

\* What has happened has happened: the death of a request or a pass, and an overlap.
LEMMA HistoryStays ==
  ASSUME [AiNext]_aiVars
  PROVE  (died => died') /\ (overlapped => overlapped')
<1>1. died => died'
  <2>1. ASSUME NEW t \in Tabs, Candidate(t)
        PROVE  died => died'
    BY <2>1
       DEF Candidate, faultVars, Load, Lapse, GiveUp, RequestDies, RecordConsent, Start,
           StartRecorder, Reload, Refresh, UpsertRecording, PutObject, StatObject,
           WriteAnswer, CloseSession, StampRecording, QueueTranscript, QueueReport
  <2>2. CASE Recruiter \/ DeadlinePasses \/ Transcription \/ UNCHANGED aiVars
    BY <2>2
       DEF Recruiter, Transcription, aiVars, faultVars, BeginGenerate, CommitGenerate,
           ApproveQuestions, BeginIssue, CommitIssue, CancelInterview, Regenerate,
           DeadlinePasses, TakeRecording, StoreTranscript, CompleteTranscript,
           FailTranscript
  <2>3. CASE Drain \/ WorkerDies
    BY <2>3
       DEF Drain, faultVars, Claim, Retire, SkipDisabled, ReadSession, ReadOutbox,
           SkipEmpty, CallModel, WriteReport, Requeue, Reject, WorkerDies
  <2>. QED  BY <2>1, <2>2, <2>3 DEF AiNext
<1>2. overlapped => overlapped'
  <2>1. ASSUME NEW t \in Tabs, Candidate(t)
        PROVE  overlapped => overlapped'
    BY <2>1
       DEF Candidate, NoteOverlap, noteVars, Load, Lapse, GiveUp, RequestDies,
           RecordConsent, Start, StartRecorder, Reload, Refresh, UpsertRecording,
           PutObject, StatObject, WriteAnswer, CloseSession, StampRecording,
           QueueTranscript, QueueReport
  <2>2. CASE Recruiter \/ DeadlinePasses \/ Transcription \/ UNCHANGED aiVars
    BY <2>2
       DEF Recruiter, Transcription, NoteOverlap, aiVars, tabVars, noteVars,
           BeginGenerate, CommitGenerate, ApproveQuestions, BeginIssue, CommitIssue,
           CancelInterview, Regenerate, DeadlinePasses, TakeRecording, StoreTranscript,
           CompleteTranscript, FailTranscript
  <2>3. CASE Drain \/ WorkerDies
    BY <2>3
       DEF Drain, tabVars, noteVars, Claim, Retire, SkipDisabled, ReadSession, ReadOutbox,
           SkipEmpty, CallModel, WriteReport, Requeue, Reject, WorkerDies
  <2>. QED  BY <2>1, <2>2, <2>3 DEF AiNext
<1>. QED  BY <1>1, <1>2

\* QueueTurns is an invariant of the AI round.
LEMMA QueueTurnsKept == AiSpec => []QueueTurns
<1>1. AiInit => QueueTurns
  BY RequestTypes, AiInterviewAssumption
     DEF AiInit, QueueTurns, QueuesInTurn, OnlySubmitted, RowsQueued, SpokenIsRecorded,
         BlindWhenSettled, Submitting, SpokenWrite, NoEvidence, NoPass, EmptyTurn, HasVoice
<1>2. ASSUME RoundTypes, TakesTurns, AboutSubmission, QueueTurns, [AiNext]_aiVars
      PROVE  QueueTurns'
  <2> SUFFICES ASSUME ~overlapped', ~died' PROVE QueuesInTurn'
    BY DEF QueueTurns
  <2> USE <1>2
  <2>a. TabTypes
    BY DEF RoundTypes
  <2>b. ~overlapped /\ ~died /\ QueuesInTurn
    <3>1. (died => died') /\ (overlapped => overlapped')
      BY HistoryStays
    <3>. QED  BY <3>1 DEF QueueTurns
  <2>1. ASSUME NEW t \in Tabs, CloseSession(t) \/ StampRecording(t) \/ QueueTranscript(t)
                               \/ QueueReport(t)
        PROVE  QueuesInTurn'
    BY <2>b, <2>1, CloseKeepsQueues, StampKeepsQueues, TranscriptKeepsQueues,
       ReportKeepsQueues
  <2>2. CASE Regenerate \/ Transcription \/ Drain
    BY <2>b, <2>2, RegenerateKeepsQueues, TranscriptionKeepsQueues, DrainKeepsQueues
  <2>3. ~WorkerDies /\ \A t \in Tabs : ~RequestDies(t)
    BY DEF RequestDies, WorkerDies
  <2>4. ASSUME UNCHANGED <<evidence, worker, txOutbox>>,
               status' = "submitted" => status = "submitted",
               HasVoice(turn'.answer) =>
                    HasVoice(turn.answer) \/ \E t \in Tabs : SpokenWrite(t),
               \A t \in Tabs : SpokenWrite(t)' => SpokenWrite(t) \/ recording # "absent",
               \/ recording' = recording
               \/ recording # "taken" /\ recording' \in {"pending", "uploaded"},
               \A t \in Tabs : /\ Submitting(t)' <=> Submitting(t)
                               /\ OwesTranscript(t)' <=> OwesTranscript(t)
        PROVE  QueuesInTurn'
    BY <2>b, <2>4, QueuesAside, SubmittedStays
  <2>5. ASSUME NEW t \in Tabs, NEW kind \in DOMAIN EntryOf, Load(t, kind)
        PROVE  QueuesInTurn'
    <3>1. UNCHANGED <<status, turn, recording, txOutbox, evidence, worker>>
      BY <2>a, <2>5, LoadFacts DEF sessionRowVars, mediaVars, drainVars
    <3>2. /\ req'[t].pc = EntryOf[kind] /\ req'[t].kind = kind
          /\ \A u \in Tabs \ {t} : req'[u] = req[u]
      <4>1. /\ req'[t] = [pc |-> EntryOf[kind], q |-> Current(turn.answer), kind |-> kind,
                          copy |-> turn]
            /\ \A u \in Tabs \ {t} : req'[u] = req[u]
        BY <2>a, <2>5, LoadFacts
      <4>. QED  BY <4>1
    <3>3. /\ EntryOf[kind] \in {"consent", "upsert", "write", "stat", "close"}
          /\ EntryOf[kind] = "write" => kind = "typed"
      BY DEF EntryOf
    <3>4. req[t].pc \in {"idle", "recorded"}
      BY <2>5 DEF Load, TabAt
    <3>5. \A u \in Tabs : ~SpokenWrite(t)' /\ (SpokenWrite(u)' => SpokenWrite(u))
      BY <3>2, <3>3 DEF SpokenWrite
    <3>6. \A u \in Tabs : /\ Submitting(u)' <=> Submitting(u)
                          /\ OwesTranscript(u)' <=> OwesTranscript(u)
      BY <3>2, <3>3, <3>4 DEF Submitting, OwesTranscript
    <3>. QED  BY <2>4, <3>1, <3>5, <3>6
  <2>6. ASSUME NEW t \in Tabs,
               \/ GiveUp(t) \/ Start(t) \/ UpsertRecording(t) \/ PutObject(t)
               \/ \E d \in {"granted", "declined"} : RecordConsent(t, d)
        PROVE  QueuesInTurn'
    <3>1. /\ UNCHANGED <<turn, txOutbox, evidence, worker>>
          /\ status' = status \/ status' = "in_progress"
          /\ \/ recording' = recording
             \/ recording # "taken" /\ recording' \in {"pending", "uploaded"}
      BY <2>6 DEF GiveUp, Start, UpsertRecording, PutObject, RecordConsent, sessionRowVars,
                  mediaVars, drainVars
    <3>2. ~Submitting(t) /\ ~OwesTranscript(t)
      BY <2>6 DEF GiveUp, Start, UpsertRecording, PutObject, RecordConsent, TabAt,
                  Submitting, OwesTranscript
    <3>3. /\ req'[t].pc \in {"idle", "start", "put", "recorded"}
          /\ \A u \in Tabs \ {t} : req'[u] = req[u]
      <4>1. CASE PutObject(t)
        BY <4>1, <2>a DEF PutObject, TabTypes, RequestType
      <4>2. CASE Done(t)
        BY <4>2, <2>a, RequestTypes DEF Done, TabTypes
      <4>3. ASSUME NEW pc \in {"start", "put"}, Step(t, pc)
            PROVE  /\ req'[t].pc = pc
                   /\ \A u \in Tabs \ {t} : req'[u] = req[u]
        BY <4>3, <2>a DEF Step, TabTypes, RequestType
      <4>. QED  BY <2>6, <4>1, <4>2, <4>3 DEF GiveUp, Start, UpsertRecording, RecordConsent
    <3>4. \A u \in Tabs : SpokenWrite(u)' => SpokenWrite(u)
      BY <3>3 DEF SpokenWrite
    <3>5. \A u \in Tabs : /\ Submitting(u)' <=> Submitting(u)
                          /\ OwesTranscript(u)' <=> OwesTranscript(u)
      BY <3>2, <3>3 DEF Submitting, OwesTranscript
    <3>. QED  BY <2>4, <3>1, <3>4, <3>5
  <2>7. ASSUME NEW t \in Tabs, StatObject(t)
        PROVE  QueuesInTurn'
    <3>1. /\ UNCHANGED <<status, turn, recording, txOutbox, evidence, worker>>
          /\ recording # "absent" /\ req[t].pc = "stat"
      BY <2>7 DEF StatObject, TabAt, sessionRowVars, mediaVars, drainVars
    <3>2. req'[t].pc = "write" /\ \A u \in Tabs \ {t} : req'[u] = req[u]
      BY <2>7, <2>a DEF StatObject, TabTypes, RequestType, TurnType
    <3>3. \A u \in Tabs : /\ Submitting(u)' <=> Submitting(u)
                          /\ OwesTranscript(u)' <=> OwesTranscript(u)
      BY <3>1, <3>2 DEF Submitting, OwesTranscript
    <3>. QED  BY <2>4, <3>1, <3>3
  <2>8. ASSUME NEW t \in Tabs, WriteAnswer(t)
        PROVE  QueuesInTurn'
    <3>1. /\ UNCHANGED <<status, recording, txOutbox, evidence, worker>>
          /\ turn' = IF status = "in_progress" THEN NextTurn(t) ELSE turn
          /\ req[t].pc = "write" /\ Done(t)
      BY <2>8 DEF WriteAnswer, TabAt, mediaVars, drainVars
    <3>2. req[t].copy.answer = turn.answer /\ turn.answer \in [Questions -> Answers]
      BY <2>b, <3>1 DEF TakesTurns, CopyCurrent, Writing, RoundTypes, RowTypes, TurnType
    <3>3. \/ turn' = turn
          \/ turn'.answer = [turn.answer EXCEPT ![req[t].q] = Mode(t)]
      BY <2>a, <3>1, <3>2 DEF NextTurn, TabTypes, RequestType, TurnType
    <3>4. Mode(t) \in Tabs => SpokenWrite(t)
      BY <3>1, AiInterviewAssumption DEF Mode, SpokenWrite
    <3>5. HasVoice(turn'.answer) => HasVoice(turn.answer) \/ \E u \in Tabs : SpokenWrite(u)
      BY <3>2, <3>3, <3>4 DEF HasVoice
    <3>6. req'[t] = NoRequest /\ \A u \in Tabs \ {t} : req'[u] = req[u]
      BY <2>a, <3>1 DEF Done, TabTypes
    <3>7. \A u \in Tabs : /\ Submitting(u)' <=> Submitting(u)
                          /\ OwesTranscript(u)' <=> OwesTranscript(u)
                          /\ SpokenWrite(u)' => SpokenWrite(u)
      BY <3>1, <3>6, RequestTypes DEF Submitting, OwesTranscript, SpokenWrite
    <3>. QED  BY <2>4, <3>1, <3>5, <3>7
  <2>9. CASE BeginGenerate \/ CommitGenerate \/ ApproveQuestions \/ BeginIssue
             \/ CommitIssue \/ CancelInterview \/ DeadlinePasses \/ UNCHANGED aiVars
             \/ \E t \in Tabs : Lapse(t) \/ StartRecorder(t) \/ Reload(t) \/ Refresh(t)
    <3>1. /\ UNCHANGED <<req, turn, recording, txOutbox, evidence, worker>>
          /\ status' = "submitted" => status = "submitted"
      BY <2>9 DEF BeginGenerate, CommitGenerate, ApproveQuestions, BeginIssue, CommitIssue,
                  CancelInterview, DeadlinePasses, Lapse, StartRecorder, Reload, Refresh, aiVars,
                  sessionRowVars, sessionVars, mediaVars, tabVars, pageVars, noteVars, drainVars
    <3>2. \A u \in Tabs : /\ Submitting(u)' <=> Submitting(u)
                          /\ OwesTranscript(u)' <=> OwesTranscript(u)
                          /\ SpokenWrite(u)' => SpokenWrite(u)
      BY <3>1 DEF Submitting, OwesTranscript, SpokenWrite
    <3>. QED  BY <2>4, <3>1, <3>2
  <2>. QED
    BY <2>1, <2>2, <2>3, <2>5, <2>6, <2>7, <2>8, <2>9 DEF AiNext, Recruiter, Candidate
<1>. QED  BY <1>1, <1>2, RoundTyped, TakesTurnsKept, AboutSubmissionKept, PTL DEF AiSpec

\* SubmittedIsQueued holds for any number of tabs (submitSession's statements after the
\* status, enqueueAiInterviewTranscript, enqueueEvidence).
THEOREM SubmittedGetsQueued == AiSpec => []SubmittedIsQueued
<1>1. QueueTurns => SubmittedIsQueued
  BY DEF QueueTurns, QueuesInTurn, RowsQueued, Submitting, OwesTranscript, InFlight,
         SubmittedIsQueued
<1>. QED  BY <1>1, QueueTurnsKept, PTL

\* NeverBlindTooSoon holds for any number of tabs (the order of the enqueues, and
\* loadTranscriptOutboxStatus).
THEOREM BlindOnlyWhenSettled == AiSpec => []NeverBlindTooSoon
<1>1. QueueTurns => NeverBlindTooSoon
  BY DEF QueueTurns, QueuesInTurn, BlindWhenSettled, Settled, NeverBlindTooSoon
<1>. QED  BY <1>1, QueueTurnsKept, PTL
=============================================================================
