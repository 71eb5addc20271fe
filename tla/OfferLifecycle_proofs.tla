------------------------ MODULE OfferLifecycle_proofs ------------------------
(***************************************************************************)
(* What holds of offers and their answers, for any number of offers,       *)
(* recruiters, candidate's requests and failures.                          *)
(*                                                                         *)
(* A recruiter's writes go by id, whatever has become of the row since the *)
(* reads.  What holds nevertheless rests on what is never taken back: an   *)
(* approval that was given, a notification that was sent, an answer.       *)
(***************************************************************************)
EXTENDS OfferLifecycle, TLAPS

-----------------------------------------------------------------------------
(* Typing                                                                  *)

RequestStatus == {"pending", "approved", "rejected"}
OfOffer == {"draft", "extend", "cancel", "request", "approved", "rejected"}

\* What a mutation carries to its writes.
Carries(s) ==
    LET m == staff[s]
    IN  /\ m.op \in OfOffer => m.offer \in Offers
        /\ m.op = "assess" => m.seen \in {"hold", "proceed"}
        /\ m.op = "move" => m.seen \in Stages
        /\ m.op \in {"approved", "rejected"} => m.nth \in DOMAIN requests[m.offer]

TypeInv == TypeOK /\ \A s \in Staff : Carries(s)

\* The rows, apart from the requests under way.
RowsTyped ==
    /\ offer \in [Offers -> OfferStatus]
    /\ notified \subseteq Offers
    /\ requests \in [Offers -> Seq(RequestStatus)]
    /\ stage \in Stages
    /\ assessment \in {"none", "hold", "proceed"}
    /\ fee \in Offers \union {"none"}
    /\ hire \in Offers \union {"none"}
    /\ onboarding \in {"none", "bare", "checklist"}
    /\ faults \in 0 .. MaxFaults
    /\ approved \subseteq Offers
    /\ answers \in [Offers -> Nat]

Flying ==
    /\ staff \in [Staff -> Mutation \union {NoMutation}]
    /\ click \in [Clicks -> Click \union {NoClick}]

\* TypeOK is about the rows and about the requests under way.
LEMMA TypeParts == TypeOK <=> RowsTyped /\ Flying
BY DEF TypeOK, RowsTyped, Flying, RequestStatus

\* A mutation that begins carries what its checks have left it.
LEMMA BeginTyped ==
  ASSUME TypeInv, NEW s \in Staff, NEW op, NEW o, NEW seen, NEW n,
         [op |-> op, offer |-> o, seen |-> seen, nth |-> n] \in Mutation,
         op \in OfOffer => o \in Offers,
         op = "assess" => seen \in {"hold", "proceed"},
         op = "move" => seen \in Stages,
         op \in {"approved", "rejected"} => n \in DOMAIN requests[o],
         BeginNth(s, op, o, seen, n)
  PROVE  TypeInv'
<1> DEFINE new == [op |-> op, offer |-> o, seen |-> seen, nth |-> n]
<1>1. /\ staff' = [staff EXCEPT ![s] = new]
      /\ UNCHANGED <<offer, notified, requests, approved, stage, assessment, fee, hire,
                     onboarding, click, faults, answers>>
  BY DEF BeginNth, offerVars, stageVars, hireVars
<1>2. TypeOK'
  BY <1>1 DEF TypeInv, TypeOK
<1>3. staff'[s] = new /\ \A t \in Staff \ {s} : staff'[t] = staff[t]
  BY <1>1 DEF TypeInv, TypeOK
<1>4. Carries(s)'
  BY <1>1, <1>3 DEF Carries
<1>5. ASSUME NEW t \in Staff \ {s}
      PROVE  Carries(t)'
  BY <1>1, <1>3 DEF Carries, TypeInv
<1>. QED  BY <1>2, <1>4, <1>5 DEF TypeInv

\* A mutation that ends leaves the others what they carry: no request for approval is
\* ever removed.
LEMMA EndTyped ==
  ASSUME TypeInv, NEW s \in Staff, NEW op, End(s, op),
         offer' \in [Offers -> OfferStatus], notified' \subseteq Offers,
         requests' \in [Offers -> Seq(RequestStatus)],
         \A o \in Offers : DOMAIN requests[o] \subseteq DOMAIN requests'[o],
         approved' \subseteq Offers, stage' \in Stages,
         assessment' \in {"none", "hold", "proceed"}
  PROVE  TypeInv'
<1>1. /\ staff' = [staff EXCEPT ![s] = NoMutation]
      /\ UNCHANGED <<fee, hire, onboarding, click, faults, answers>>
  BY DEF End, hireVars
<1>2. TypeOK'
  BY <1>1 DEF TypeInv, TypeOK, RequestStatus
<1>3. staff'[s] = NoMutation /\ \A t \in Staff \ {s} : staff'[t] = staff[t]
  BY <1>1 DEF TypeInv, TypeOK
<1>4. Carries(s)'
  BY <1>3 DEF Carries, NoMutation, OfOffer
<1>5. ASSUME NEW t \in Staff \ {s}
      PROVE  Carries(t)'
  BY <1>3 DEF Carries, TypeInv, OfOffer
<1>. QED  BY <1>2, <1>4, <1>5 DEF TypeInv

\* A candidate's request writes rows of its own, and none for approval.
LEMMA ClickTyped ==
  ASSUME TypeInv, Flying', RowsTyped', UNCHANGED <<staff, requests>>
  PROVE  TypeInv'
<1>1. TypeOK'
  BY DEF TypeOK, RowsTyped, Flying, RequestStatus
<1>2. \A s \in Staff : Carries(s)'
  BY DEF TypeInv, Carries
<1>. QED  BY <1>1, <1>2 DEF TypeInv

\* The latest request is one of the offer's.
LEMMA LatestRequest ==
  ASSUME RowsTyped, NEW o \in Offers, Latest(o) # "none"
  PROVE  \E i \in DOMAIN requests[o] : requests[o][i] = Latest(o)
<1>1. requests[o] \in Seq(RequestStatus) /\ requests[o] # <<>>
  BY DEF RowsTyped, Latest
<1>2. Len(requests[o]) \in DOMAIN requests[o]
  BY <1>1
<1>. QED  BY <1>1, <1>2 DEF Latest

\* The requests for approval after one is raised.
LEMMA RaisedRequests ==
  ASSUME RowsTyped, NEW o \in Offers, requests' = [requests EXCEPT ![o] = Append(@, "pending")]
  PROVE  /\ requests' \in [Offers -> Seq(RequestStatus)]
         /\ \A p \in Offers : DOMAIN requests[p] \subseteq DOMAIN requests'[p]
         /\ \A p \in Offers : \A i \in DOMAIN requests'[p] :
                requests'[p][i] = "approved" =>
                    i \in DOMAIN requests[p] /\ requests[p][i] = "approved"
<1>1. requests[o] \in Seq(RequestStatus) /\ "pending" \in RequestStatus
  BY DEF RowsTyped, RequestStatus
<1>2. Append(requests[o], "pending") \in Seq(RequestStatus)
  BY <1>1
<1>3. /\ requests'[o] = Append(requests[o], "pending")
      /\ \A p \in Offers \ {o} : requests'[p] = requests[p]
  BY DEF RowsTyped
<1>4. DOMAIN requests[o] \subseteq DOMAIN requests'[o]
  BY <1>1, <1>3
<1>5. \A i \in DOMAIN requests'[o] : requests'[o][i] = "approved" =>
          i \in DOMAIN requests[o] /\ requests[o][i] = "approved"
  BY <1>1, <1>3
<1>. QED  BY <1>2, <1>3, <1>4, <1>5 DEF RowsTyped

\* The requests for approval after one is decided.
LEMMA DecidedRequests ==
  ASSUME RowsTyped, NEW o \in Offers, NEW n \in DOMAIN requests[o],
         NEW decision \in {"approved", "rejected"},
         requests' = [requests EXCEPT ![o][n] = decision]
  PROVE  /\ requests' \in [Offers -> Seq(RequestStatus)]
         /\ \A p \in Offers : DOMAIN requests'[p] = DOMAIN requests[p]
         /\ \A p \in Offers : \A i \in DOMAIN requests[p] :
                requests'[p][i] = "approved" =>
                    requests[p][i] = "approved" \/ (p = o /\ decision = "approved")
<1>1. requests[o] \in Seq(RequestStatus) /\ decision \in RequestStatus
  BY DEF RowsTyped, RequestStatus
<1>2. [requests[o] EXCEPT ![n] = decision] \in Seq(RequestStatus)
  BY <1>1
<1>3. /\ requests'[o] = [requests[o] EXCEPT ![n] = decision]
      /\ \A p \in Offers \ {o} : requests'[p] = requests[p]
  BY DEF RowsTyped
<1>4. DOMAIN requests'[o] = DOMAIN requests[o]
  BY <1>3
<1>5. \A i \in DOMAIN requests[o] :
          requests'[o][i] = "approved" => requests[o][i] = "approved" \/ decision = "approved"
  BY <1>3
<1>. QED  BY <1>2, <1>3, <1>4, <1>5 DEF RowsTyped

\* Mutations begin and end well.
LEMMA RecruiterTyped ==
  ASSUME TypeInv, NEW s \in Staff, Recruiter(s)
  PROVE  TypeInv'
<1>0. RowsTyped /\ Flying /\ Carries(s)
  BY TypeParts DEF TypeInv
<1>1. ASSUME NEW o \in Offers,
             BeginDraft(s, o) \/ BeginExtend(s, o) \/ BeginCancel(s, o) \/ BeginRequest(s, o)
      PROVE  TypeInv'
  <2>1. PICK op \in {"draft", "extend", "cancel", "request"},
             seen \in Stages \union OfferStatus \union {"none"} :
          BeginNth(s, op, o, seen, 0)
    BY <1>0, <1>1 DEF BeginDraft, BeginExtend, BeginCancel, BeginRequest, Begin, RowsTyped
  <2>2. [op |-> op, offer |-> o, seen |-> seen, nth |-> 0] \in Mutation
    BY OfferAssumption DEF Mutation
  <2>. QED  BY <2>1, <2>2, BeginTyped
<1>2. ASSUME NEW o \in Offers, NEW i \in 1 .. MaxRequests,
             NEW decision \in {"approved", "rejected"}, BeginDecide(s, o, i, decision)
      PROVE  TypeInv'
  <2>1. [op |-> decision, offer |-> o, seen |-> "none", nth |-> i] \in Mutation
    BY OfferAssumption DEF Mutation
  <2>. QED  BY <1>2, <2>1, BeginTyped DEF BeginDecide
<1>3. ASSUME NEW recommendation \in Advice, BeginAssess(s, recommendation)
      PROVE  TypeInv'
  <2>1. recommendation \in {"hold", "proceed"}
    BY OfferAssumption
  <2>2. [op |-> "assess", offer |-> "none", seen |-> recommendation, nth |-> 0] \in Mutation
    BY <2>1, OfferAssumption DEF Mutation
  <2>. QED  BY <1>3, <2>1, <2>2, BeginTyped DEF BeginAssess, Begin, OfOffer
<1>4. ASSUME NEW target \in Targets, BeginMove(s, target)
      PROVE  TypeInv'
  <2>1. target \in Stages
    BY TargetsAssumption
  <2>2. [op |-> "move", offer |-> "none", seen |-> target, nth |-> 0] \in Mutation
    BY <2>1, OfferAssumption DEF Mutation
  <2>. QED  BY <1>4, <2>1, <2>2, BeginTyped DEF BeginMove, Begin, OfOffer
<1> DEFINE o == staff[s].offer
<1>5. CASE CommitDraft(s) \/ CommitExtend(s) \/ CommitCancel(s)
  <2>1. o \in Offers
    BY <1>0, <1>5 DEF Carries, OfOffer, CommitDraft, CommitExtend, CommitCancel, End
  <2>2. PICK op : End(s, op)
    BY <1>5 DEF CommitDraft, CommitExtend, CommitCancel
  <2>3. PICK st \in {"drafted", "extended", "cancelled"} : offer' = [offer EXCEPT ![o] = st]
    BY <1>5 DEF CommitDraft, CommitExtend, CommitCancel
  <2>4. offer' \in [Offers -> OfferStatus]
    BY <1>0, <2>3 DEF RowsTyped, OfferStatus
  <2>5. /\ notified' \subseteq Offers /\ UNCHANGED <<requests, approved, assessment>>
        /\ stage' \in Stages
    BY <1>0, <1>5, <2>1
       DEF CommitDraft, CommitExtend, CommitCancel, RowsTyped, Stages, stageVars
  <2>. QED  BY <1>0, <2>2, <2>4, <2>5, EndTyped DEF RowsTyped
<1>6. CASE CommitRequest(s)
  <2>1. o \in Offers
    BY <1>0, <1>6 DEF Carries, OfOffer, CommitRequest, End
  <2>2. /\ requests' \in [Offers -> Seq(RequestStatus)]
        /\ \A p \in Offers : DOMAIN requests[p] \subseteq DOMAIN requests'[p]
    BY <1>0, <1>6, <2>1, RaisedRequests DEF CommitRequest, RowsTyped
  <2>3. UNCHANGED <<offer, notified, approved, stage, assessment>> /\ End(s, "request")
    BY <1>6 DEF CommitRequest, stageVars
  <2>. QED  BY <1>0, <2>2, <2>3, EndTyped DEF RowsTyped
<1>7. ASSUME NEW decision \in {"approved", "rejected"}, CommitDecide(s, decision)
      PROVE  TypeInv'
  <2>1. o \in Offers /\ staff[s].nth \in DOMAIN requests[o]
    BY <1>0, <1>7 DEF Carries, OfOffer, CommitDecide, End
  <2>2. /\ requests' \in [Offers -> Seq(RequestStatus)]
        /\ \A p \in Offers : DOMAIN requests[p] \subseteq DOMAIN requests'[p]
    BY <1>0, <1>7, <2>1, DecidedRequests DEF CommitDecide
  <2>3. /\ UNCHANGED <<offer, notified, stage, assessment>> /\ End(s, decision)
        /\ approved' \subseteq approved \union {o}
    BY <1>7 DEF CommitDecide, stageVars
  <2>. QED  BY <1>0, <2>1, <2>2, <2>3, EndTyped DEF RowsTyped
<1>8. CASE CommitAssess(s) \/ CommitMove(s) \/ Abort(s)
  <2>1. PICK op : End(s, op)
    BY <1>8 DEF CommitAssess, CommitMove, Abort
  <2>2. UNCHANGED <<offer, notified, requests, approved>>
    BY <1>8 DEF CommitAssess, CommitMove, Abort, offerVars
  <2>3. stage' \in Stages /\ assessment' \in {"none", "hold", "proceed"}
    BY <1>0, <1>8 DEF CommitAssess, CommitMove, Abort, stageVars, Carries, End, RowsTyped
  <2>. QED  BY <1>0, <2>1, <2>2, <2>3, EndTyped DEF RowsTyped
<1>. QED  BY <1>1, <1>2, <1>3, <1>4, <1>5, <1>6, <1>7, <1>8 DEF Recruiter

\* Where a candidate's request is when it has an offer in hand.
Phases == {"accept", "decline", "declined", "stage", "fee", "hire", "onboard", "tasks"}

\* A candidate's request goes on, or is over.
LEMMA ClickMoves ==
  ASSUME Flying, NEW c \in Clicks,
         \/ click' = [click EXCEPT ![c] = NoClick]
         \/ click[c] # NoClick /\ \E pc \in Phases : Goto(c, pc)
         \/ \E o \in Offers, pc \in Phases : click' = [click EXCEPT ![c] = [pc |-> pc, offer |-> o]]
  PROVE  /\ click' \in [Clicks -> Click \union {NoClick}]
         /\ \A d \in Clicks \ {c} : click'[d] = click[d]
<1>1. CASE click' = [click EXCEPT ![c] = NoClick]
  BY <1>1 DEF Flying
<1>2. CASE click[c] # NoClick /\ \E pc \in Phases : Goto(c, pc)
  <2>1. PICK pc \in Phases : click' = [click EXCEPT ![c].pc = pc]
    BY <1>2 DEF Goto
  <2>2. click[c] \in Click
    BY <1>2 DEF Flying
  <2>3. [click[c] EXCEPT !.pc = pc] \in Click
    BY <2>2 DEF Click, Phases
  <2>. QED  BY <2>1, <2>3 DEF Flying
<1>3. CASE \E o \in Offers, pc \in Phases : click' = [click EXCEPT ![c] = [pc |-> pc, offer |-> o]]
  <2>1. PICK o \in Offers, pc \in Phases : click' = [click EXCEPT ![c] = [pc |-> pc, offer |-> o]]
    BY <1>3
  <2>2. [pc |-> pc, offer |-> o] \in Click
    BY DEF Click, Phases
  <2>. QED  BY <2>1, <2>2 DEF Flying
<1>. QED  BY <1>1, <1>2, <1>3

\* What a request has in hand is an offer.
LEMMA InHand ==
  ASSUME Flying, NEW c \in Clicks, NEW pc \in Phases, At(c, pc)
  PROVE  click[c] \in Click /\ click[c].offer \in Offers /\ click[c] # NoClick
<1>1. click[c] # NoClick
  BY DEF At, NoClick, Phases
<1>. QED  BY <1>1 DEF Flying, Click

\* A candidate's request keeps the rows and the requests in their types.
LEMMA ServeTyped ==
  ASSUME TypeInv, NEW c \in Clicks,
         \/ \E o \in Offers, kind \in {"accept", "decline"} : Answer(c, o, kind)
         \/ Serve(c) \/ SideEffectFails(c) \/ RequestDies(c)
  PROVE  TypeInv'
<1>0. RowsTyped /\ Flying
  BY TypeParts DEF TypeInv
<1>1. ASSUME NEW o \in Offers, NEW kind \in {"accept", "decline"}, Answer(c, o, kind)
      PROVE  TypeInv'
  <2>1. click' \in [Clicks -> Click \union {NoClick}]
    BY <1>0, <1>1, ClickMoves DEF Answer, Phases
  <2>. QED  BY <1>0, <1>1, <2>1, ClickTyped
            DEF Answer, Flying, RowsTyped, offerVars, stageVars, hireVars
<1> DEFINE o == click[c].offer
<1>2. CASE Accept(c) \/ Decline(c)
  <2>1. o \in Offers /\ click[c] # NoClick
    BY <1>0, <1>2, InHand DEF Accept, Decline, Phases
  <2>2. click' \in [Clicks -> Click \union {NoClick}]
    BY <1>0, <1>2, <2>1, ClickMoves DEF Accept, Decline, Phases
  <2>3. PICK st \in {"accepted", "declined"} : offer' = [offer EXCEPT ![o] = st]
    BY <1>2 DEF Accept, Decline
  <2>4. offer' \in [Offers -> OfferStatus]
    BY <1>0, <2>3 DEF RowsTyped, OfferStatus
  <2>5. Won(c)
    BY <1>2 DEF Accept, Decline
  <2>6. answers' \in [Offers -> Nat]
    BY <1>0, <2>1, <2>5 DEF Won, RowsTyped
  <2>. QED  BY <1>0, <2>2, <2>4, <2>5, <2>6, ClickTyped
            DEF Won, Flying, RowsTyped, stageVars, hireVars
<1>3. CASE Lose(c) \/ DeclineStage(c)
  <2>1. click' \in [Clicks -> Click \union {NoClick}]
    BY <1>0, <1>3, ClickMoves DEF Lose, DeclineStage, Done
  <2>. QED  BY <1>0, <1>3, <2>1, ClickTyped
            DEF Lose, DeclineStage, Flying, RowsTyped, offerVars, stageVars, hireVars, Stages
<1>4. CASE AcceptStage(c) \/ AccrueFee(c) \/ EnqueueHire(c)
  <2>1. o \in Offers /\ click[c] # NoClick
    BY <1>0, <1>4, InHand DEF AcceptStage, AccrueFee, EnqueueHire, Phases
  <2>2. click' \in [Clicks -> Click \union {NoClick}]
    BY <1>0, <1>4, <2>1, ClickMoves DEF AcceptStage, AccrueFee, EnqueueHire, Phases
  <2>. QED  BY <1>0, <1>4, <2>1, <2>2, ClickTyped
            DEF AcceptStage, AccrueFee, EnqueueHire, Flying, RowsTyped, offerVars, stageVars,
                hireVars, Stages
<1>5. CASE OpenCase(c) \/ CreateTasks(c)
  <2>1. click[c] # NoClick
    BY <1>0, <1>5, InHand DEF OpenCase, CreateTasks, Phases
  <2>2. click' \in [Clicks -> Click \union {NoClick}]
    BY <1>0, <1>5, <2>1, ClickMoves DEF OpenCase, CreateTasks, Phases, Done
  <2>. QED  BY <1>0, <1>5, <2>1, <2>2, ClickTyped
            DEF OpenCase, CreateTasks, Flying, RowsTyped, offerVars, stageVars
<1>6. CASE SideEffectFails(c) \/ RequestDies(c)
  <2>1. click' \in [Clicks -> Click \union {NoClick}]
    BY <1>0, <1>6, InHand, ClickMoves DEF SideEffectFails, RequestDies, Phases, Done
  <2>2. faults' \in 0 .. MaxFaults
    BY <1>0, <1>6, OfferAssumption DEF SideEffectFails, RequestDies, RowsTyped
  <2>. QED  BY <1>0, <1>6, <2>1, <2>2, ClickTyped
            DEF SideEffectFails, RequestDies, Flying, RowsTyped, offerVars, stageVars, hireVars
<1>. QED  BY <1>1, <1>2, <1>3, <1>4, <1>5, <1>6 DEF Serve

\* The rows and the requests under way keep their types.
LEMMA TypeInvariant == Spec => []TypeInv
<1>1. Init => TypeInv
  BY OfferAssumption
     DEF Init, TypeInv, TypeOK, Carries, OfOffer, OfferStatus, Stages, NoMutation
<1>2. TypeInv /\ [Next]_vars => TypeInv'
  <2>1. ASSUME TypeInv, UNCHANGED vars
        PROVE  TypeInv'
    BY <2>1 DEF TypeInv, TypeOK, Carries, vars, offerVars, stageVars, hireVars
  <2>. QED  BY <2>1, RecruiterTyped, ServeTyped DEF Next
<1>. QED  BY <1>1, <1>2, PTL DEF Spec

\* Whatever recruiters and candidates do, offers, approvals, stage and what follows an
\* acceptance keep their types.
THEOREM TypeCorrect == Spec => []TypeOK
BY TypeInvariant, PTL DEF TypeInv

-----------------------------------------------------------------------------
(* Approvals                                                               *)

\* What a recruiter's step does to the offers: an offer is extended only by a mutation that
\* began with it, and by one that notifies for the first time.
LEMMA RecruiterEffect ==
  ASSUME TypeInv, NEW s \in Staff, Recruiter(s)
  PROVE  /\ UNCHANGED <<fee, hire, onboarding, click, faults, answers>>
         /\ notified \subseteq notified' /\ approved \subseteq approved'
         /\ \A o \in Offers :
                \/ offer'[o] \in {offer[o], "drafted", "cancelled"}
                \/ /\ offer'[o] = "extended" /\ o \notin notified /\ o \in notified'
                   /\ staff[s].op = "extend" /\ staff[s].offer = o
<1>0. RowsTyped /\ Flying /\ Carries(s)
  BY TypeParts DEF TypeInv
<1> DEFINE o == staff[s].offer
<1>1. UNCHANGED <<fee, hire, onboarding, click, faults, answers>>
  BY DEF Recruiter, BeginDraft, BeginExtend, BeginCancel, BeginRequest, BeginDecide, BeginAssess,
         BeginMove, Begin, BeginNth, CommitDraft, CommitExtend, CommitCancel, CommitRequest,
         CommitDecide, CommitAssess, CommitMove, Abort, End, hireVars
<1>2. CASE CommitExtend(s)
  <2>1. o \in Offers /\ staff[s].op = "extend"
    BY <1>0, <1>2 DEF Carries, OfOffer, CommitExtend, End
  <2>2. /\ offer' = [offer EXCEPT ![o] = "extended"] /\ o \notin notified
        /\ notified' = notified \union {o} /\ UNCHANGED approved
    BY <1>2 DEF CommitExtend
  <2>. QED  BY <1>0, <1>1, <2>1, <2>2 DEF RowsTyped
<1>3. CASE CommitDraft(s) \/ CommitCancel(s)
  <2>1. PICK st \in {"drafted", "cancelled"} : offer' = [offer EXCEPT ![o] = st]
    BY <1>3 DEF CommitDraft, CommitCancel
  <2>2. UNCHANGED <<notified, approved>>
    BY <1>3 DEF CommitDraft, CommitCancel
  <2>. QED  BY <1>0, <1>1, <2>1, <2>2 DEF RowsTyped
<1>4. CASE ~CommitExtend(s) /\ ~CommitDraft(s) /\ ~CommitCancel(s)
  <2>1. UNCHANGED <<offer, notified>> /\ approved \subseteq approved'
    BY <1>4
       DEF Recruiter, BeginDraft, BeginExtend, BeginCancel, BeginRequest, BeginDecide,
           BeginAssess, BeginMove, Begin, BeginNth, CommitRequest, CommitDecide, CommitAssess,
           CommitMove, Abort, offerVars
  <2>. QED  BY <1>1, <2>1
<1>. QED  BY <1>2, <1>3, <1>4

\* A candidate's request takes the answer to an extended offer.
Answers(c) ==
    LET o == click[c].offer
    IN  /\ offer[o] = "extended" /\ o \in Offers
        /\ \/ At(c, "accept") /\ Goto(c, "stage") /\ offer' = [offer EXCEPT ![o] = "accepted"]
           \/ At(c, "decline") /\ Goto(c, "declined") /\ offer' = [offer EXCEPT ![o] = "declined"]
        /\ answers' = [answers EXCEPT ![o] = @ + 1]
        /\ UNCHANGED <<fee, hire, onboarding, faults>>

\* A step of a candidate's request leaves recruiters' rows, and other requests.
LEMMA CandidateEffect ==
  ASSUME TypeInv, NEW c \in Clicks,
         \/ \E o \in Offers, kind \in {"accept", "decline"} : Answer(c, o, kind)
         \/ Serve(c) \/ SideEffectFails(c) \/ RequestDies(c)
  PROVE  /\ UNCHANGED <<notified, requests, approved, staff>>
         /\ Answers(c) \/ UNCHANGED <<offer, answers>>
         /\ \A d \in Clicks \ {c} : click'[d] = click[d]
<1>0. Flying
  BY TypeParts DEF TypeInv
<1>1. UNCHANGED <<notified, requests, approved, staff>>
  BY DEF Answer, Serve, Accept, Decline, Won, Lose, DeclineStage, AcceptStage, AccrueFee,
         EnqueueHire, OpenCase, CreateTasks, SideEffectFails, RequestDies, offerVars
<1>2. CASE Accept(c) \/ Decline(c)
  <2>1. Answers(c)
    BY <1>0, <1>2, InHand DEF Answers, Accept, Decline, Won, hireVars, Phases
  <2>. QED  BY <1>0, <1>1, <2>1, ClickMoves, InHand DEF Answers, Phases
<1>3. CASE ~Accept(c) /\ ~Decline(c)
  <2>1. UNCHANGED <<offer, answers>>
    BY <1>3
       DEF Answer, Serve, Lose, DeclineStage, AcceptStage, AccrueFee, EnqueueHire, OpenCase,
           CreateTasks, SideEffectFails, RequestDies, offerVars
  <2>2. \/ click' = [click EXCEPT ![c] = NoClick]
        \/ click[c] # NoClick /\ \E pc \in Phases : Goto(c, pc)
        \/ \E o \in Offers, pc \in Phases : click' = [click EXCEPT ![c] = [pc |-> pc, offer |-> o]]
    BY <1>0, <1>3, InHand
       DEF Answer, Serve, Lose, DeclineStage, AcceptStage, AccrueFee, EnqueueHire, OpenCase,
           CreateTasks, SideEffectFails, RequestDies, Done, Phases
  <2>. QED  BY <1>0, <1>1, <2>1, <2>2, ClickMoves
<1>. QED  BY <1>2, <1>3

\* An approval that was given is on record, and a mutation that extends an offer above the
\* band has seen one.
ApprovalInv ==
    /\ \A o \in Offers : \A i \in DOMAIN requests[o] :
            requests[o][i] = "approved" => o \in approved
    /\ \A s \in Staff : staff[s].op = "extend" /\ staff[s].offer \in OverBand =>
            staff[s].offer \in approved
    /\ OverBandApproved

\* Decisions and requests keep the record (decideApproval, requestOfferApproval).
LEMMA ApprovalsOnRecord ==
  ASSUME TypeInv, ApprovalInv, NEW s \in Staff, Recruiter(s)
  PROVE  \A o \in Offers : \A i \in DOMAIN requests'[o] :
            requests'[o][i] = "approved" => o \in approved'
<1>0. RowsTyped /\ Carries(s)
  BY TypeParts DEF TypeInv
<1> DEFINE o == staff[s].offer
<1>1. CASE CommitRequest(s)
  <2>1. o \in Offers /\ UNCHANGED approved
    BY <1>0, <1>1 DEF Carries, OfOffer, CommitRequest, End
  <2>2. CASE UNCHANGED requests
    BY <2>1, <2>2 DEF ApprovalInv
  <2>3. CASE requests' = [requests EXCEPT ![o] = Append(@, "pending")]
    BY <1>0, <2>1, <2>3, RaisedRequests DEF ApprovalInv
  <2>. QED  BY <1>1, <2>2, <2>3 DEF CommitRequest
<1>2. ASSUME NEW decision \in {"approved", "rejected"}, CommitDecide(s, decision)
      PROVE  \A p \in Offers : \A i \in DOMAIN requests'[p] :
                requests'[p][i] = "approved" => p \in approved'
  <2>1. o \in Offers /\ staff[s].nth \in DOMAIN requests[o]
    BY <1>0, <1>2 DEF Carries, OfOffer, CommitDecide, End
  <2>2. /\ requests' = [requests EXCEPT ![o][staff[s].nth] = decision]
        /\ approved' = IF decision = "approved" THEN approved \union {o} ELSE approved
    BY <1>2 DEF CommitDecide
  <2>. QED  BY <1>0, <2>1, <2>2, DecidedRequests DEF ApprovalInv
<1>3. CASE /\ ~CommitRequest(s)
           /\ \A decision \in {"approved", "rejected"} : ~CommitDecide(s, decision)
  <2>1. UNCHANGED <<requests, approved>>
    BY <1>3
       DEF Recruiter, BeginDraft, BeginExtend, BeginCancel, BeginRequest, BeginDecide,
           BeginAssess, BeginMove, Begin, BeginNth, CommitDraft, CommitExtend, CommitCancel,
           CommitAssess, CommitMove, Abort, offerVars
  <2>. QED  BY <2>1 DEF ApprovalInv
<1>. QED  BY <1>1, <1>2, <1>3

\* A mutation that extends an offer above the band began when the latest verdict was an
\* approval (offerExtendBlockReason).
LEMMA ExtendsApproved ==
  ASSUME TypeInv, ApprovalInv, NEW s \in Staff, Recruiter(s), NEW t \in Staff,
         staff'[t].op = "extend", staff'[t].offer \in OverBand
  PROVE  staff'[t].offer \in approved'
<1>0. RowsTyped /\ Flying
  BY TypeParts DEF TypeInv
<1>1. approved \subseteq approved'
  BY RecruiterEffect
<1>2. CASE staff'[t] = staff[t]
  BY <1>1, <1>2 DEF ApprovalInv
<1>3. CASE staff'[t] # staff[t]
  <2>1. staff' # staff /\ (t # s => staff'[t] = staff[t])
    BY <1>0, <1>3
       DEF Recruiter, BeginDraft, BeginExtend, BeginCancel, BeginRequest, BeginDecide,
           BeginAssess, BeginMove, Begin, BeginNth, CommitDraft, CommitExtend, CommitCancel,
           CommitRequest, CommitDecide, CommitAssess, CommitMove, Abort, End, Flying
  <2>2. t = s
    BY <1>3, <2>1
  <2>3. ASSUME staff' = [staff EXCEPT ![s] = NoMutation]
        PROVE  FALSE
    BY <1>0, <2>2, <2>3 DEF NoMutation, Flying
  <2>4. ASSUME NEW op, NEW o, NEW seen, NEW n, BeginNth(s, op, o, seen, n)
        PROVE  op = "extend" /\ staff'[t].offer = o
    BY <1>0, <2>2, <2>4 DEF BeginNth, Flying
  <2>5. PICK o \in Offers : BeginExtend(s, o)
    BY <2>3, <2>4
       DEF Recruiter, BeginDraft, BeginCancel, BeginRequest, BeginDecide,
           BeginAssess, BeginMove, Begin, CommitDraft, CommitExtend, CommitCancel,
           CommitRequest, CommitDecide, CommitAssess, CommitMove, Abort, End
  <2>6. staff'[t].offer = o /\ ~Blocked(o)
    BY <2>4, <2>5 DEF BeginExtend, Begin
  <2>7. Latest(o) = "approved"
    BY <2>6 DEF Blocked
  <2>. QED  BY <1>0, <1>1, <2>6, <2>7, LatestRequest DEF ApprovalInv
<1>. QED  BY <1>2, <1>3

\* However requests, decisions and extensions overlap, an offer above the band is extended,
\* accepted or declined only after an approver has approved it (HROPS-02).
THEOREM ApprovedAboveBand == Spec => []OverBandApproved
<1>1. Init => ApprovalInv
  BY OfferAssumption DEF Init, ApprovalInv, OverBandApproved, NoMutation
<1>2. TypeInv /\ ApprovalInv /\ [Next]_vars => ApprovalInv'
  <2> SUFFICES ASSUME TypeInv, ApprovalInv, [Next]_vars
               PROVE  ApprovalInv'
    OBVIOUS
  <2>1. ASSUME NEW s \in Staff, Recruiter(s)
        PROVE  ApprovalInv'
    <3>1. OverBandApproved'
      BY <2>1, RecruiterEffect, OfferAssumption DEF ApprovalInv, OverBandApproved
    <3>. QED  BY <2>1, <3>1, ApprovalsOnRecord, ExtendsApproved DEF ApprovalInv
  <2>2. ASSUME NEW c \in Clicks,
               \/ \E o \in Offers, kind \in {"accept", "decline"} : Answer(c, o, kind)
               \/ Serve(c) \/ SideEffectFails(c) \/ RequestDies(c)
        PROVE  ApprovalInv'
    <3>1. /\ UNCHANGED <<requests, approved, staff>>
          /\ Answers(c) \/ UNCHANGED offer
      BY <2>2, CandidateEffect
    <3>2. \A o \in Offers : offer'[o] \in {"extended", "accepted", "declined"} =>
                offer[o] \in {"extended", "accepted", "declined"}
      BY <3>1, TypeParts DEF Answers, TypeInv, RowsTyped
    <3>. QED  BY <3>1, <3>2, OfferAssumption DEF ApprovalInv, OverBandApproved
  <2>3. CASE UNCHANGED vars
    BY <2>3 DEF ApprovalInv, OverBandApproved, vars, offerVars
  <2>. QED  BY <2>1, <2>2, <2>3 DEF Next
<1>3. ApprovalInv => OverBandApproved
  BY DEF ApprovalInv
<1>. QED  BY <1>1, <1>2, <1>3, TypeInvariant, PTL DEF Spec

-----------------------------------------------------------------------------
(* Answers                                                                 *)

\* An extended offer has been notified, once, and not been answered.
AnswerInv ==
    \A o \in Offers :
        /\ offer[o] = "extended" => o \in notified /\ answers[o] = 0
        /\ o \notin notified => answers[o] = 0
        /\ answers[o] <= 1

\* AnswerInv holds: only a first notification extends an offer (extendOffer).
LEMMA AnswerInvariant == Spec => []AnswerInv
<1>1. Init => AnswerInv
  <2> SUFFICES ASSUME Init, NEW o \in Offers
               PROVE  offer[o] # "extended" /\ answers[o] = 0 /\ answers[o] <= 1
    BY DEF AnswerInv
  <2>. QED  BY DEF Init
<1>2. TypeInv /\ AnswerInv /\ [Next]_vars => AnswerInv'
  <2> SUFFICES ASSUME TypeInv, AnswerInv, [Next]_vars
               PROVE  AnswerInv'
    OBVIOUS
  <2>0. RowsTyped
    BY TypeParts DEF TypeInv
  <2>1. ASSUME NEW s \in Staff, Recruiter(s)
        PROVE  AnswerInv'
    BY <2>1, RecruiterEffect DEF AnswerInv
  <2>2. ASSUME NEW c \in Clicks,
               \/ \E o \in Offers, kind \in {"accept", "decline"} : Answer(c, o, kind)
               \/ Serve(c) \/ SideEffectFails(c) \/ RequestDies(c)
        PROVE  AnswerInv'
    <3>1. UNCHANGED notified /\ (Answers(c) \/ UNCHANGED <<offer, answers>>)
      BY <2>2, CandidateEffect
    <3>2. CASE Answers(c)
      <4> DEFINE o == click[c].offer
      <4>1. /\ o \in Offers /\ offer[o] = "extended"
            /\ offer'[o] # "extended" /\ answers'[o] = answers[o] + 1
            /\ \A p \in Offers \ {o} : offer'[p] = offer[p] /\ answers'[p] = answers[p]
        BY <2>0, <3>2 DEF Answers, RowsTyped
      <4>. QED  BY <2>0, <3>1, <4>1 DEF AnswerInv
    <3>. QED  BY <3>1, <3>2 DEF AnswerInv
  <2>3. CASE UNCHANGED vars
    BY <2>3 DEF AnswerInv, vars, offerVars
  <2>. QED  BY <2>1, <2>2, <2>3 DEF Next
<1>. QED  BY <1>1, <1>2, TypeInvariant, PTL DEF Spec

\* Whatever overlaps, an offer is answered at most once: a link, the portal and a decline
\* compete by a conditional UPDATE, and no offer is extended twice (routes/offers.ts).
THEOREM AnswersOnce == Spec => []AnsweredOnce
<1>1. AnswerInv => AnsweredOnce
  BY DEF AnswerInv, AnsweredOnce
<1>. QED  BY <1>1, AnswerInvariant, PTL

-----------------------------------------------------------------------------
(* What follows an acceptance                                              *)

\* A request that is past the acceptance has an accepted offer in hand, or one that was
\* accepted.
Pipeline == {"stage", "fee", "hire", "onboard", "tasks"}
HireInv ==
    /\ \A c \in Clicks : click[c].pc \in Pipeline =>
            answers[click[c].offer] > 0 /\ offer[click[c].offer] # "declined"
    /\ HireFollowsAnswer

\* An answered offer is not declined any more.
LEMMA AnsweredStays ==
  ASSUME TypeInv, AnswerInv, [Next]_vars, NEW o \in Offers, answers[o] > 0,
         offer[o] # "declined"
  PROVE  answers'[o] > 0 /\ offer'[o] # "declined"
<1>0. RowsTyped
  BY TypeParts DEF TypeInv
<1>1. offer[o] # "extended"
  BY DEF AnswerInv
<1>2. ASSUME NEW s \in Staff, Recruiter(s)
      PROVE  answers'[o] > 0 /\ offer'[o] # "declined"
  BY <1>2, RecruiterEffect
<1>3. ASSUME NEW c \in Clicks,
             \/ \E p \in Offers, kind \in {"accept", "decline"} : Answer(c, p, kind)
             \/ Serve(c) \/ SideEffectFails(c) \/ RequestDies(c)
      PROVE  answers'[o] > 0 /\ offer'[o] # "declined"
  <2>1. Answers(c) \/ UNCHANGED <<offer, answers>>
    BY <1>3, CandidateEffect
  <2>2. CASE Answers(c)
    <3>1. click[c].offer # o
      BY <1>1, <2>2 DEF Answers
    <3>. QED  BY <1>0, <2>2, <3>1 DEF Answers, RowsTyped
  <2>. QED  BY <2>1, <2>2
<1>4. CASE UNCHANGED vars
  BY <1>4 DEF vars, offerVars
<1>. QED  BY <1>2, <1>3, <1>4 DEF Next

\* A candidate's step: where the request is afterwards, and what it has left behind.
Follows(c) ==
    LET o == click[c].offer
    IN  \/ Answers(c)
        \/ /\ At(c, "stage") /\ Goto(c, "fee") /\ UNCHANGED <<fee, hire, onboarding>>
        \/ /\ At(c, "fee") /\ Goto(c, "hire")
           /\ fee' = (IF fee = "none" THEN o ELSE fee) /\ UNCHANGED <<hire, onboarding>>
        \/ /\ At(c, "hire") /\ Goto(c, "onboard")
           /\ hire' = (IF hire = "none" THEN o ELSE hire) /\ UNCHANGED <<fee, onboarding>>
        \/ /\ At(c, "onboard") /\ onboarding = "none" /\ onboarding' = "bare"
           /\ Goto(c, "tasks") /\ UNCHANGED <<fee, hire>>
        \/ /\ At(c, "onboard") /\ onboarding # "none" /\ Done(c)
           /\ UNCHANGED <<fee, hire, onboarding>>
        \/ /\ At(c, "tasks") /\ onboarding' = "checklist" /\ Done(c) /\ UNCHANGED <<fee, hire>>
        \/ /\ click'[c].pc \notin Pipeline /\ click[c].pc \notin Pipeline
           /\ UNCHANGED <<fee, hire, onboarding>>
        \/ /\ faults' > 0 /\ UNCHANGED <<fee, hire, onboarding>>
           /\ \/ click'[c].pc \notin Pipeline
              \/ /\ click[c].pc \in {"stage", "fee", "hire"}
                 /\ \E pc \in {"fee", "hire", "onboard"} : Goto(c, pc)

\* A candidate's step is one of these, and failures are counted.
LEMMA CandidateFollows ==
  ASSUME TypeInv, NEW c \in Clicks,
         \/ \E o \in Offers, kind \in {"accept", "decline"} : Answer(c, o, kind)
         \/ Serve(c) \/ SideEffectFails(c) \/ RequestDies(c)
  PROVE  Follows(c) /\ (faults' = 0 => faults = 0)
<1>0. RowsTyped /\ Flying /\ faults \in Nat
  BY TypeParts, OfferAssumption DEF TypeInv, RowsTyped
<1>1. ASSUME NEW o \in Offers, NEW kind \in {"accept", "decline"}, Answer(c, o, kind)
      PROVE  Follows(c) /\ UNCHANGED faults
  <2>1. click[c] = NoClick /\ click'[c].pc = kind
    BY <1>0, <1>1 DEF Answer, Flying
  <2>. QED  BY <1>1, <2>1 DEF Answer, Follows, hireVars, NoClick, Pipeline
<1>2. CASE Accept(c) \/ Decline(c)
  BY <1>0, <1>2, InHand DEF Accept, Decline, Won, Follows, Answers, hireVars, Phases
<1>3. CASE Lose(c) \/ DeclineStage(c)
  <2>1. click'[c].pc = "idle" /\ click[c].pc \notin Pipeline
    BY <1>0, <1>3 DEF Lose, DeclineStage, Done, NoClick, Flying, At, Pipeline
  <2>. QED  BY <1>3, <2>1 DEF Lose, DeclineStage, Follows, hireVars, Pipeline
<1>4. CASE AcceptStage(c) \/ AccrueFee(c) \/ EnqueueHire(c) \/ OpenCase(c) \/ CreateTasks(c)
  BY <1>4 DEF AcceptStage, AccrueFee, EnqueueHire, OpenCase, CreateTasks, Follows, hireVars
<1>5. CASE SideEffectFails(c) \/ RequestDies(c)
  <2>1. faults' > 0 /\ UNCHANGED <<fee, hire, onboarding>>
    BY <1>0, <1>5 DEF SideEffectFails, RequestDies, hireVars
  <2>2. Done(c) => click'[c].pc \notin Pipeline
    BY <1>0 DEF Done, NoClick, Flying, Pipeline
  <2>. QED  BY <1>5, <2>1, <2>2 DEF SideEffectFails, RequestDies, Follows, At
<1>. QED  BY <1>1, <1>2, <1>3, <1>4, <1>5 DEF Serve

\* HireInv holds: a fee is accrued, a hire enqueued and a case opened only for the offer that
\* a request past the acceptance has in hand (runOfferAcceptSideEffects).
LEMMA HireInvariant == Spec => []HireInv
<1>1. Init => HireInv
  BY OfferAssumption DEF Init, HireInv, HireFollowsAnswer, NoClick, Pipeline
<1>2. TypeInv /\ AnswerInv /\ HireInv /\ [Next]_vars => HireInv'
  <2> SUFFICES ASSUME TypeInv, AnswerInv, HireInv, [Next]_vars
               PROVE  HireInv'
    OBVIOUS
  <2>0. RowsTyped /\ Flying
    BY TypeParts DEF TypeInv
  <2>1. \A o \in Offers : answers[o] > 0 /\ offer[o] # "declined" =>
              answers'[o] > 0 /\ offer'[o] # "declined"
    BY AnsweredStays
  <2>2. (\E o \in Offers : answers[o] > 0) => \E o \in Offers : answers'[o] > 0
    <3>1. ASSUME NEW o \in Offers, answers[o] > 0
          PROVE  answers'[o] > 0
      <4>1. ASSUME NEW s \in Staff, Recruiter(s)
            PROVE  answers' = answers
        BY <4>1, RecruiterEffect
      <4>2. ASSUME NEW c \in Clicks,
                   \/ \E p \in Offers, kind \in {"accept", "decline"} : Answer(c, p, kind)
                   \/ Serve(c) \/ SideEffectFails(c) \/ RequestDies(c)
            PROVE  answers'[o] \in {answers[o], answers[o] + 1}
        BY <2>0, <4>2, CandidateEffect DEF Answers, RowsTyped
      <4>3. UNCHANGED vars => answers' = answers
        BY DEF vars
      <4>4. answers[o] \in Nat
        BY <2>0 DEF RowsTyped
      <4>5. answers'[o] \in {answers[o], answers[o] + 1}
        BY <4>1, <4>2, <4>3 DEF Next
      <4>. QED  BY <3>1, <4>4, <4>5
    <3>. QED  BY <3>1
  <2>3. \A c \in Clicks : click[c].pc \in Pipeline => click[c].offer \in Offers
    BY <2>0, InHand DEF Pipeline, Phases, At
  <2>4. ASSUME UNCHANGED <<fee, hire, onboarding>>
        PROVE  HireFollowsAnswer'
    BY <2>1, <2>2, <2>4 DEF HireInv, HireFollowsAnswer
  <2>5. ASSUME NEW s \in Staff, Recruiter(s)
        PROVE  HireInv'
    <3>1. UNCHANGED <<fee, hire, onboarding, click>>
      BY <2>5, RecruiterEffect
    <3>. QED  BY <2>1, <2>3, <2>4, <3>1 DEF HireInv
  <2>6. ASSUME NEW c \in Clicks,
               \/ \E o \in Offers, kind \in {"accept", "decline"} : Answer(c, o, kind)
               \/ Serve(c) \/ SideEffectFails(c) \/ RequestDies(c)
        PROVE  HireInv'
    <3> DEFINE o == click[c].offer
    <3>1. \A d \in Clicks \ {c} : click'[d] = click[d]
      BY <2>6, CandidateEffect
    <3>2. \A d \in Clicks \ {c} : click'[d].pc \in Pipeline =>
                answers'[click'[d].offer] > 0 /\ offer'[click'[d].offer] # "declined"
      BY <2>1, <2>3, <3>1 DEF HireInv
    <3>3. Follows(c)
      BY <2>6, CandidateFollows
    <3>4. ASSUME NEW pc, Goto(c, pc), click[c] # NoClick
          PROVE  click'[c].pc = pc /\ click'[c].offer = o
      BY <2>0, <3>4 DEF Goto, Flying, Click
    <3>5. Done(c) => click'[c].pc \notin Pipeline
      BY <2>0 DEF Done, Flying, NoClick, Pipeline
    <3>6. CASE Answers(c)
      <4>1. click[c] # NoClick
        BY <3>6 DEF Answers, At, NoClick
      <4>2. answers'[o] > 0
        BY <2>0, <3>6 DEF Answers, RowsTyped
      <4>3. click'[c].pc = "stage" => offer'[o] # "declined"
        BY <2>0, <3>4, <3>6, <4>1 DEF Answers, RowsTyped
      <4>4. click'[c].pc \in {"stage", "declined"} /\ click'[c].offer = o
        BY <3>4, <3>6, <4>1 DEF Answers
      <4>5. HireFollowsAnswer'
        BY <2>4, <3>6 DEF Answers
      <4>. QED  BY <3>2, <4>2, <4>3, <4>4, <4>5 DEF HireInv, Pipeline
    <3>7. CASE click[c].pc \in Pipeline /\ ~Answers(c)
      <4>1. /\ click[c] # NoClick /\ o \in Offers
            /\ answers'[o] > 0 /\ offer'[o] # "declined"
        BY <2>1, <2>3, <3>7 DEF HireInv, NoClick, Pipeline
      <4>2. click'[c].pc \in Pipeline => click'[c].offer = o
        BY <3>3, <3>4, <3>5, <3>7, <4>1 DEF Follows, Pipeline
      <4>3. /\ fee' \in {fee, o} /\ hire' \in {hire, o}
        BY <3>3, <3>7 DEF Follows
      <4>4. HireFollowsAnswer'
        BY <2>1, <4>1, <4>3 DEF HireInv, HireFollowsAnswer
      <4>. QED  BY <3>2, <4>1, <4>2, <4>4 DEF HireInv
    <3>8. CASE click[c].pc \notin Pipeline /\ ~Answers(c)
      <4>1. click'[c].pc \notin Pipeline /\ UNCHANGED <<fee, hire, onboarding>>
        BY <3>3, <3>8 DEF Follows, At, Pipeline
      <4>. QED  BY <2>4, <3>2, <4>1 DEF HireInv
    <3>. QED  BY <3>6, <3>7, <3>8
  <2>7. CASE UNCHANGED vars
    BY <2>7 DEF HireInv, HireFollowsAnswer, vars, offerVars, hireVars
  <2>. QED  BY <2>5, <2>6, <2>7 DEF Next
<1>. QED  BY <1>1, <1>2, TypeInvariant, AnswerInvariant, PTL DEF Spec

\* What is hired, paid for and onboarded is an offer the candidate has accepted, never one
\* that was declined (lib/offer-accept.ts).
THEOREM HiresTheAccepted == Spec => []HireFollowsAnswer
BY HireInvariant, PTL DEF HireInv

-----------------------------------------------------------------------------
(* What an acceptance leaves behind                                        *)

\* As long as nothing has failed: how far a request has come shows in the rows, an accepted
\* offer has a request at work or its case, and a case without a checklist has its maker.
Wake(c) ==
    /\ click[c].pc = "hire" => fee # "none"
    /\ click[c].pc \in {"onboard", "tasks"} => fee # "none" /\ hire # "none"
    /\ click[c].pc = "tasks" => onboarding # "none"

WakeInv ==
    faults = 0 =>
        /\ \A c \in Clicks : Wake(c)
        /\ onboarding # "none" => fee # "none" /\ hire # "none"
        /\ onboarding = "bare" => \E c \in Clicks : click[c].pc = "tasks"
        /\ (\E o \in Offers : offer[o] = "accepted") =>
              onboarding # "none" \/ \E c \in Clicks : click[c].pc \in Pipeline

\* WakeInv holds: the side effects of an acceptance run one after the other, each on the
\* rows of those before it (runOfferAcceptSideEffects, ensureOnboardingCase).
LEMMA WakeInvariant == Spec => []WakeInv
<1>1. Init => WakeInv
  BY DEF Init, WakeInv, Wake, NoClick
<1>2. TypeInv /\ WakeInv /\ [Next]_vars => WakeInv'
  <2> SUFFICES ASSUME TypeInv, WakeInv, [Next]_vars, faults' = 0
               PROVE  WakeInv'
    BY DEF WakeInv
  <2>0. RowsTyped /\ Flying
    BY TypeParts DEF TypeInv
  <2>1. ASSUME NEW s \in Staff, Recruiter(s)
        PROVE  WakeInv'
    <3>1. /\ UNCHANGED <<fee, hire, onboarding, click, faults>>
          /\ \A o \in Offers : offer'[o] \in {offer[o], "drafted", "cancelled", "extended"}
      BY <2>1, RecruiterEffect
    <3>. QED  BY <3>1 DEF WakeInv, Wake
  <2>2. ASSUME NEW c \in Clicks,
               \/ \E o \in Offers, kind \in {"accept", "decline"} : Answer(c, o, kind)
               \/ Serve(c) \/ SideEffectFails(c) \/ RequestDies(c)
        PROVE  WakeInv'
    <3> DEFINE o == click[c].offer
    <3>1. \A d \in Clicks \ {c} : click'[d] = click[d]
      BY <2>2, CandidateEffect
    <3>2. Follows(c) /\ faults = 0
      BY <2>2, CandidateFollows
    <3>3. ASSUME NEW pc, Goto(c, pc), click[c] # NoClick
          PROVE  click'[c].pc = pc
      BY <2>0, <3>3 DEF Goto, Flying, Click
    <3>4. Done(c) => click'[c].pc = "idle"
      BY <2>0 DEF Done, Flying, NoClick
    <3>5. ASSUME NEW pc \in Phases, At(c, pc)
          PROVE  click[c] # NoClick /\ click[c].offer \in Offers
      BY <2>0, <3>5, InHand
    <3>6. CASE Answers(c)
      <4>1. /\ click'[c].pc \in {"stage", "declined"}
            /\ At(c, "accept") \/ At(c, "decline")
            /\ At(c, "decline") => click'[c].pc = "declined"
        BY <3>3, <3>5, <3>6 DEF Answers, Phases, At
      <4>2. UNCHANGED <<fee, hire, onboarding, faults>>
        BY <3>6 DEF Answers
      <4>3. \A p \in Offers : offer'[p] = "accepted" =>
                offer[p] = "accepted" \/ click'[c].pc = "stage"
        BY <2>0, <3>3, <3>5, <3>6 DEF Answers, RowsTyped, Phases
      <4>4. \A d \in Clicks : Wake(d)'
        BY <3>1, <3>2, <4>1, <4>2 DEF WakeInv, Wake
      <4>5. onboarding' = "bare" => \E d \in Clicks : click'[d].pc = "tasks"
        BY <3>1, <3>2, <4>1, <4>2 DEF WakeInv, At
      <4>6. (\E p \in Offers : offer'[p] = "accepted") =>
                onboarding' # "none" \/ \E d \in Clicks : click'[d].pc \in Pipeline
        BY <3>1, <3>2, <4>1, <4>2, <4>3 DEF WakeInv, At, Pipeline
      <4>. QED  BY <3>2, <4>2, <4>4, <4>5, <4>6 DEF WakeInv
    <3>7. CASE ~Answers(c)
      <4>1. UNCHANGED offer
        BY <2>2, <3>7, CandidateEffect
      <4>2. CASE At(c, "stage") \/ At(c, "fee") \/ At(c, "hire")
        <5>1. /\ \/ At(c, "stage") /\ click'[c].pc = "fee" /\ UNCHANGED <<fee, hire>>
                 \/ At(c, "fee") /\ click'[c].pc = "hire" /\ fee' # "none" /\ UNCHANGED hire
                 \/ /\ At(c, "hire") /\ click'[c].pc = "onboard" /\ hire' # "none"
                    /\ UNCHANGED fee
              /\ hire # "none" => hire' # "none"
              /\ fee # "none" => fee' # "none"
              /\ UNCHANGED onboarding
          BY <3>2, <3>3, <3>5, <3>7, <4>2, OfferAssumption DEF Follows, Phases, Pipeline, At
        <5>2. \A d \in Clicks : Wake(d)'
          BY <3>1, <3>2, <5>1 DEF WakeInv, Wake, At
        <5>. QED  BY <3>1, <3>2, <4>1, <5>1, <5>2 DEF WakeInv, At, Pipeline
      <4>3. CASE At(c, "onboard") \/ At(c, "tasks")
        <5>1. /\ onboarding' # "none" /\ UNCHANGED <<fee, hire>>
              /\ \/ click'[c].pc = "tasks"
                 \/ click'[c].pc = "idle" /\ At(c, "onboard") /\ UNCHANGED onboarding
                 \/ click'[c].pc = "idle" /\ onboarding' = "checklist"
          BY <3>2, <3>3, <3>4, <3>5, <3>7, <4>3 DEF Follows, Phases, Pipeline, At
        <5>2. \A d \in Clicks : Wake(d)'
          BY <3>1, <3>2, <4>3, <5>1 DEF WakeInv, Wake, At
        <5>3. fee' # "none" /\ hire' # "none"
          BY <3>2, <4>3, <5>1 DEF WakeInv, Wake, At
        <5>4. onboarding' = "bare" => \E d \in Clicks : click'[d].pc = "tasks"
          BY <3>1, <3>2, <4>3, <5>1 DEF WakeInv, At
        <5>. QED  BY <5>1, <5>2, <5>3, <5>4 DEF WakeInv
      <4>4. CASE click[c].pc \notin Pipeline
        <5>1. click'[c].pc \notin Pipeline /\ UNCHANGED <<fee, hire, onboarding>>
          BY <3>2, <3>7, <4>4 DEF Follows, Pipeline, At
        <5>2. \A d \in Clicks : Wake(d)'
          BY <3>1, <3>2, <5>1 DEF WakeInv, Wake, Pipeline
        <5>. QED  BY <3>1, <3>2, <4>1, <4>4, <5>1, <5>2 DEF WakeInv, Pipeline
      <4>. QED  BY <4>2, <4>3, <4>4 DEF Pipeline, At
    <3>. QED  BY <3>6, <3>7
  <2>3. CASE UNCHANGED vars
    BY <2>3 DEF WakeInv, Wake, vars, offerVars, hireVars
  <2>. QED  BY <2>1, <2>2, <2>3 DEF Next
<1>. QED  BY <1>1, <1>2, TypeInvariant, PTL DEF Spec

\* Once the requests that answered are over and nothing has failed, an accepted offer has
\* its fee, its hire and a case with a checklist (runOfferAcceptSideEffects).
THEOREM AcceptanceCompletes == Spec => []AcceptedIsHired
<1>1. TypeInv /\ WakeInv => AcceptedIsHired
  <2> SUFFICES ASSUME TypeInv, WakeInv, \E o \in Offers : offer[o] = "accepted",
                      \A c \in Clicks : click[c] = NoClick, ~(faults > 0)
               PROVE  hire # "none" /\ fee # "none" /\ onboarding = "checklist"
    BY DEF AcceptedIsHired
  <2>1. faults = 0 /\ onboarding \in {"none", "bare", "checklist"}
    BY TypeParts, OfferAssumption DEF TypeInv, RowsTyped
  <2>2. \A c \in Clicks : click[c].pc = "idle"
    BY DEF NoClick
  <2>. QED  BY <2>1, <2>2 DEF WakeInv, Pipeline
<1>. QED  BY <1>1, TypeInvariant, WakeInvariant, PTL
=============================================================================
