-------------------------- MODULE Requisition_proofs --------------------------
(***************************************************************************)
(* What holds of a requisition for any number of users, revisions,         *)
(* requests and holds.                                                     *)
(*                                                                         *)
(* Typing and LiveWasApproved hold however mutations overlap.  The other   *)
(* results are about the mutations of one user at a time; they follow from *)
(* AloneInv, which says that what a transaction has read is still true.    *)
(***************************************************************************)
EXTENDS Requisition, TLAPS


-----------------------------------------------------------------------------
(* Typing                                                                  *)

\* What the procedures put into a transaction is of its type.
LEMMA TxTypes ==
  /\ NoTx \in Txs
  /\ \A pc \in {"edit", "generate", "submit"} : [NoTx EXCEPT !.pc = pc] \in Txs
  /\ \A pc \in {"edit", "generate"} :
        [pc |-> pc, request |-> 0, verdict |-> "none", was |-> "none"] \in Txs
  /\ \A i \in RequestIds, verdict \in Verdicts :
        [pc |-> "decide", request |-> i, verdict |-> verdict, was |-> "none"] \in Txs
  /\ \A was \in {"approved", "posted"} :
        [pc |-> "resume", request |-> 0, verdict |-> "none", was |-> was] \in Txs
BY DEF NoTx, Txs

\* What a transaction under way has read (decideRequisitionApproval, setRequisitionHold).
LEMMA TxFields ==
  ASSUME NEW t \in Txs
  PROVE  /\ t.pc = "decide" => t.request \in RequestIds /\ t.verdict \in Verdicts
         /\ t.pc = "resume" => t.was \in {"approved", "posted"}
BY DEF Txs

\* TypeOK is an invariant of the requisition procedures (router.ts).
THEOREM TypeCorrect == Spec => []TypeOK
<1> USE RequisitionAssumption, TxTypes, TxFields DEF TypeOK
<1>1. Init => TypeOK
  <2>1. /\ NoRequest \in RequestRows
        /\ [rev |-> 0, coded |-> FALSE] \in [rev : Revisions, coded : BOOLEAN]
    BY DEF NoRequest, RequestRows, Revisions
  <2>2. 0 \in 0 .. MaxRequests /\ 0 \in 0 .. MaxHolds
    OBVIOUS
  <2>. QED  BY <2>1, <2>2 DEF Init, Statuses
<1>2. ASSUME TypeOK, [Next]_vars
      PROVE  TypeOK'
  <2> USE <1>2
  <2>1. ASSUME NEW u \in Users, BeginEdit(u) \/ BeginGenerate(u)
        PROVE  TypeOK'
    <3>1. PICK pc \in {"edit", "generate"} : Open(u, pc, 0, "none", "none")
      BY <2>1 DEF BeginEdit, BeginGenerate
    <3>. QED  BY <3>1 DEF Open, rowVars
  <2>2. ASSUME NEW u \in Users, CommitEdit(u) \/ CommitGenerate(u)
        PROVE  TypeOK'
    BY <2>2 DEF CommitEdit, CommitGenerate, WriteJd, End, historyVars, Revisions
  <2>3. ASSUME NEW u \in Users, BeginSubmit(u)
        PROVE  TypeOK'
    BY <2>3 DEF BeginSubmit, rowVars
  <2>4. ASSUME NEW u \in Users, CommitSubmit(u)
        PROVE  TypeOK'
    <3>1. [status |-> "pending", rev |-> jd.rev] \in RequestRows
      BY DEF RequestRows
    <3>2. requests' \in [RequestIds -> RequestRows]
      BY <2>4, <3>1 DEF CommitSubmit
    <3>3. status' \in Statuses /\ raised' \in 0 .. MaxRequests
      BY <2>4 DEF CommitSubmit, Statuses
    <3>. QED  BY <2>4, <3>2, <3>3 DEF CommitSubmit, End, historyVars
  <2>5. ASSUME NEW u \in Users, NEW i \in RequestIds, NEW verdict \in Verdicts,
               BeginDecide(u, i, verdict)
        PROVE  TypeOK'
    BY <2>5 DEF BeginDecide, Open, rowVars
  <2>6. ASSUME NEW u \in Users, CommitDecide(u)
        PROVE  TypeOK'
    <3> DEFINE i == tx[u].request
               verdict == tx[u].verdict
    <3>1. i \in RequestIds /\ verdict \in Verdicts
      BY <2>6 DEF CommitDecide, At
    <3>2. [requests[i] EXCEPT !.status = RequestAfter(verdict)] \in RequestRows
      BY <3>1 DEF RequestRows, RequestAfter, Verdicts
    <3>3. requests' \in [RequestIds -> RequestRows]
      BY <2>6, <3>1, <3>2 DEF CommitDecide
    <3>4. status' \in Statuses /\ verdicts' \subseteq RequestIds \X Verdicts
      BY <2>6, <3>1 DEF CommitDecide, StatusAfter, Verdicts, Statuses
    <3>. QED  BY <2>6, <3>3, <3>4 DEF CommitDecide, End
  <2>7. ASSUME NEW u \in Users, Post(u) \/ Hold(u)
        PROVE  TypeOK'
    <3>1. CASE Post(u)
      BY <3>1 DEF Post, historyVars, Statuses
    <3>2. CASE Hold(u)
      BY <3>2 DEF Hold, historyVars, Statuses
    <3>. QED  BY <2>7, <3>1, <3>2
  <2>8. ASSUME NEW u \in Users, BeginResume(u)
        PROVE  TypeOK'
    BY <2>8 DEF BeginResume, ResumesTo, Open, rowVars
  <2>9. ASSUME NEW u \in Users, CommitResume(u)
        PROVE  TypeOK'
    BY <2>9 DEF CommitResume, At, End, historyVars, Statuses
  <2>10. ASSUME NEW u \in Users, Abort(u)
         PROVE  TypeOK'
    BY <2>10 DEF Abort, End, rowVars, historyVars
  <2>11. CASE UNCHANGED vars
    BY <2>11 DEF vars, rowVars, historyVars
  <2>. QED
    BY <2>1, <2>2, <2>3, <2>4, <2>5, <2>6, <2>7, <2>8, <2>9, <2>10, <2>11 DEF Next
<1>. QED  BY <1>1, <1>2, PTL DEF Spec

-----------------------------------------------------------------------------
(* Nothing goes live unapproved, however mutations overlap                 *)

\* A requisition that is resumed was live.
ResumedWasLive ==
    (\E u \in Users : At(u, "resume")) => \E i \in RequestIds : <<i, "approve">> \in verdicts

\* LiveWasApproved is an invariant, whatever the mutations of several users overwrite
\* (decideRequisitionApproval, postRequisition, setRequisitionHold).
THEOREM ApprovedFirst == Spec => []LiveWasApproved
<1> DEFINE Approved == \E i \in RequestIds : <<i, "approve">> \in verdicts
<1>1. Init => LiveWasApproved /\ ResumedWasLive
  BY DEF Init, LiveWasApproved, Live, ResumedWasLive, At, NoTx
<1>2. ASSUME TypeOK, LiveWasApproved, ResumedWasLive, [Next]_vars
      PROVE  LiveWasApproved' /\ ResumedWasLive'
  <2> USE <1>2
      DEF TypeOK, LiveWasApproved, ResumedWasLive, Live, At, NoTx
  <2>1. Approved => Approved'
    BY DEF Next, vars, rowVars, historyVars, BeginEdit, BeginGenerate, CommitEdit, CommitGenerate,
           WriteJd, BeginSubmit, CommitSubmit, BeginDecide, CommitDecide, Open, Post,
           Hold, BeginResume, CommitResume, Abort
  <2>2. ASSUME NEW u \in Users, CommitDecide(u)
        PROVE  LiveWasApproved' /\ ResumedWasLive'
    <3>1. tx[u].request \in RequestIds /\ tx[u].verdict \in Verdicts
      BY <2>2, TxFields DEF CommitDecide
    <3>2. CASE tx[u].verdict = "approve"
      BY <2>2, <3>1, <3>2 DEF CommitDecide
    <3>3. CASE tx[u].verdict # "approve"
      <4>1. ~Live'
        BY <2>2, <3>1, <3>3 DEF CommitDecide, StatusAfter, Verdicts
      <4>. QED  BY <2>1, <2>2, <4>1 DEF CommitDecide, End
    <3>. QED  BY <3>2, <3>3
  <2>3. ASSUME NEW u \in Users, BeginResume(u)
        PROVE  LiveWasApproved' /\ ResumedWasLive'
    BY <2>1, <2>3 DEF BeginResume, Open, rowVars
  <2>4. ASSUME NEW u \in Users, CommitResume(u)
        PROVE  LiveWasApproved' /\ ResumedWasLive'
    BY <2>1, <2>4 DEF CommitResume, End
  <2>5. CASE /\ Live' => Live
             /\ \A u \in Users : tx'[u].pc = "resume" => tx[u].pc = "resume"
    BY <2>1, <2>5
  <2>6. ASSUME NEW u \in Users,
               \/ BeginEdit(u) \/ BeginGenerate(u) \/ BeginSubmit(u)
               \/ \E i \in RequestIds, verdict \in Verdicts : BeginDecide(u, i, verdict)
        PROVE  LiveWasApproved' /\ ResumedWasLive'
    <3>1. status' = status
      BY <2>6 DEF BeginEdit, BeginGenerate, BeginSubmit, BeginDecide, Open, rowVars
    <3>2. \E pc \in {"edit", "generate", "submit", "decide"}, t \in Txs :
                t.pc = pc /\ tx' = [tx EXCEPT ![u] = t]
      BY <2>6, TxTypes DEF BeginEdit, BeginGenerate, BeginSubmit, BeginDecide, Open
    <3>. QED  BY <2>5, <3>1, <3>2
  <2>7. ASSUME NEW u \in Users,
               CommitEdit(u) \/ CommitGenerate(u) \/ CommitSubmit(u) \/ Abort(u)
        PROVE  LiveWasApproved' /\ ResumedWasLive'
    <3>1. status' \in {status, "pending_approval"}
      BY <2>7 DEF CommitEdit, CommitGenerate, WriteJd, CommitSubmit, Abort, rowVars
    <3>2. tx' = [tx EXCEPT ![u] = NoTx]
      BY <2>7 DEF CommitEdit, CommitGenerate, WriteJd, CommitSubmit, Abort, End
    <3>. QED  BY <2>5, <3>1, <3>2
  <2>8. ASSUME NEW u \in Users, Post(u) \/ Hold(u)
        PROVE  LiveWasApproved' /\ ResumedWasLive'
    BY <2>5, <2>8 DEF Post, Hold
  <2>9. CASE UNCHANGED vars
    BY <2>5, <2>9 DEF vars, rowVars
  <2>. QED
    BY <2>2, <2>3, <2>4, <2>6, <2>7, <2>8, <2>9 DEF Next
<1>. QED  BY <1>1, <1>2, TypeCorrect, PTL DEF Spec

-----------------------------------------------------------------------------
(* One mutation at a time                                                  *)

\* What a transaction has read is still so.
StillSo(u) ==
    /\ tx[u].pc \in {"edit", "generate", "submit"} => status = "draft"
    /\ At(u, "submit") => jd = scanned /\ ~jd.coded
    /\ At(u, "decide") => status = "pending_approval" /\ tx[u].request = raised
    /\ At(u, "resume") => status = "on_hold" /\ tx[u].was = ResumesTo

\* Requests are raised in order, and only the last one can be pending.
RequestsInOrder ==
    \A i \in RequestIds :
        /\ i > raised => requests[i].status = "none"
        /\ Pending(i) <=> (status = "pending_approval" /\ i = raised)

\* What awaits approval or is live is what was scanned.
UnderReview ==
    status \in {"pending_approval", "approved", "posted", "on_hold"} =>
        /\ raised \in RequestIds
        /\ jd = scanned /\ ~jd.coded
        /\ requests[raised].rev = jd.rev
        /\ status # "pending_approval" => requests[raised].status = "approved"

AloneInv ==
    ~overlapped =>
        /\ \A u, v \in Users : u = v \/ Idle(u) \/ Idle(v)
        /\ \A u \in Users : StillSo(u)
        /\ RequestsInOrder
        /\ UnderReview
        /\ posted => status \in {"posted", "on_hold"}

\* A transaction opened while no other is has read what holds.
LEMMA AloneBegins ==
  ASSUME TypeOK, AloneInv, NEW u \in Users, NEW t \in Txs, Idle(u),
         tx' = [tx EXCEPT ![u] = t],
         overlapped' = (overlapped \/ \E v \in Users \ {u} : ~Idle(v)),
         UNCHANGED <<status, posted, jd, requests, raised>>,
         scanned' = scanned \/ status = "draft",
         t.pc \in {"edit", "generate", "submit"} => status = "draft",
         t.pc = "submit" => jd = scanned' /\ ~jd.coded,
         t.pc = "decide" => status = "pending_approval" /\ t.request = raised,
         t.pc = "resume" => status = "on_hold" /\ t.was = ResumesTo
  PROVE  AloneInv'
<1> SUFFICES ASSUME ~overlapped'
             PROVE  AloneInv'
  BY DEF AloneInv
<1>1. ~overlapped /\ \A v \in Users \ {u} : Idle(v)
  OBVIOUS
<1>2. tx'[u] = t /\ \A v \in Users \ {u} : tx'[v] = tx[v]
  BY DEF TypeOK
<1>3. \A v, w \in Users : v = w \/ Idle(v)' \/ Idle(w)'
  BY <1>1, <1>2 DEF Idle
<1>4. \A v \in Users : StillSo(v)'
  <2>1. StillSo(u)'
    BY <1>2 DEF StillSo, At, ResumesTo
  <2>2. ASSUME NEW v \in Users \ {u}
        PROVE  StillSo(v)'
    BY <1>1, <1>2 DEF StillSo, At, Idle
  <2>. QED  BY <2>1, <2>2
<1>5. RequestsInOrder'
  BY <1>1 DEF AloneInv, RequestsInOrder, Pending
<1>6. UnderReview' /\ (posted => status \in {"posted", "on_hold"})'
  BY <1>1 DEF AloneInv, UnderReview
<1>. QED  BY <1>3, <1>4, <1>5, <1>6 DEF AloneInv

\* Once the only transaction has ended, only the rows matter.
LEMMA AloneEnds ==
  ASSUME TypeOK, AloneInv, NEW u \in Users, ~Idle(u), End(u), overlapped' = overlapped,
         ~overlapped => /\ RequestsInOrder'
                        /\ UnderReview'
                        /\ posted' => status' \in {"posted", "on_hold"}
  PROVE  AloneInv'
<1> SUFFICES ASSUME ~overlapped
             PROVE  AloneInv'
  BY DEF AloneInv
<1>1. \A v \in Users : tx'[v].pc = "idle"
  BY DEF TypeOK, AloneInv, End, NoTx, Idle
<1>2. \A v \in Users : StillSo(v)' /\ Idle(v)'
  BY <1>1 DEF StillSo, At, Idle
<1>. QED  BY <1>2 DEF AloneInv

\* A submission raises the next request, of the job description it has scanned.
LEMMA SubmitAlone ==
  ASSUME TypeOK, AloneInv, NEW u \in Users, CommitSubmit(u)
  PROVE  AloneInv'
<1> USE RequisitionAssumption
<1>1. ASSUME ~overlapped
      PROVE  /\ RequestsInOrder'
             /\ UnderReview'
             /\ posted' => status' \in {"posted", "on_hold"}
  <2>1. status = "draft" /\ jd = scanned /\ ~jd.coded /\ ~posted
    BY <1>1 DEF AloneInv, StillSo, CommitSubmit, At
  <2>2. NoPending
    BY <1>1, <2>1 DEF AloneInv, RequestsInOrder, NoPending
  <2>3. /\ raised' = raised + 1 /\ raised' \in RequestIds
        /\ requests'[raised'] = [status |-> "pending", rev |-> jd.rev]
        /\ \A i \in RequestIds : i # raised' => requests'[i] = requests[i]
        /\ status' = "pending_approval"
        /\ UNCHANGED <<posted, jd, scanned>>
    BY <2>2 DEF CommitSubmit, TypeOK, RequestIds, historyVars
  <2>4. RequestsInOrder'
    <3>1. ASSUME NEW i \in RequestIds
          PROVE  /\ i > raised' => requests'[i].status = "none"
                 /\ requests'[i].status = "pending" <=> i = raised'
      <4>1. CASE i = raised'
        BY <2>3, <4>1 DEF RequestIds
      <4>2. CASE i # raised'
        BY <1>1, <2>1, <2>3, <4>2 DEF AloneInv, RequestsInOrder, Pending, RequestIds, TypeOK
      <4>. QED  BY <4>1, <4>2
    <3>. QED  BY <2>3, <3>1 DEF RequestsInOrder, Pending
  <2>5. UnderReview'
    BY <2>1, <2>3 DEF UnderReview
  <2>. QED  BY <2>1, <2>3, <2>4, <2>5
<1>. QED  BY <1>1, AloneEnds DEF CommitSubmit, At, Idle, historyVars

\* A verdict settles the pending request and the requisition together.
LEMMA DecideAlone ==
  ASSUME TypeOK, AloneInv, NEW u \in Users, CommitDecide(u)
  PROVE  AloneInv'
<1>1. ASSUME ~overlapped
      PROVE  /\ RequestsInOrder'
             /\ UnderReview'
             /\ posted' => status' \in {"posted", "on_hold"}
  <2>1. /\ tx[u].request = raised /\ raised \in RequestIds /\ tx[u].verdict \in Verdicts
        /\ status = "pending_approval" /\ ~posted
    BY <1>1, TxFields DEF AloneInv, StillSo, CommitDecide, At, TypeOK
  <2>2. /\ requests'[raised] = [requests[raised] EXCEPT !.status = RequestAfter(tx[u].verdict)]
        /\ \A i \in RequestIds : i # raised => requests'[i] = requests[i]
        /\ status' = StatusAfter(tx[u].verdict)
        /\ UNCHANGED <<posted, jd, scanned, raised>>
    BY <2>1 DEF CommitDecide, TypeOK
  <2>3. requests[raised] \in RequestRows
    BY <2>1 DEF TypeOK
  <2>4. /\ requests'[raised].status = RequestAfter(tx[u].verdict)
        /\ requests'[raised].rev = requests[raised].rev
    BY <2>2, <2>3 DEF RequestRows
  <2>5. /\ status' # "pending_approval" /\ requests'[raised].status # "pending"
        /\ status' \in {"approved", "posted", "on_hold"} => requests'[raised].status = "approved"
    BY <2>1, <2>2, <2>4 DEF StatusAfter, RequestAfter, Verdicts
  <2>6. RequestsInOrder'
    <3>1. ASSUME NEW i \in RequestIds
          PROVE  /\ i > raised => requests'[i].status = "none"
                 /\ requests'[i].status # "pending"
      BY <1>1, <2>1, <2>2, <2>5 DEF AloneInv, RequestsInOrder, Pending, RequestIds
    <3>. QED  BY <2>2, <2>5, <3>1 DEF RequestsInOrder, Pending
  <2>7. UnderReview'
    BY <1>1, <2>1, <2>2, <2>4, <2>5 DEF AloneInv, UnderReview
  <2>. QED  BY <2>1, <2>2, <2>6, <2>7
<1>. QED  BY <1>1, AloneEnds DEF CommitDecide, At, Idle

\* AloneInv is an invariant of the requisition procedures (router.ts).
LEMMA AloneInvariant == Spec => []AloneInv
<1>1. ASSUME Init, TypeOK
      PROVE  AloneInv
  BY <1>1 DEF Init, AloneInv, Idle, StillSo, At, NoTx, RequestsInOrder, UnderReview,
              Pending, NoRequest
<1>2. ASSUME TypeOK, AloneInv, [Next]_vars
      PROVE  AloneInv'
  <2> USE <1>2
  <2>1. ASSUME NEW u \in Users, BeginEdit(u) \/ BeginGenerate(u)
        PROVE  AloneInv'
    BY <2>1, AloneBegins, TxTypes DEF BeginEdit, BeginGenerate, Open, rowVars
  <2>2. ASSUME NEW u \in Users, BeginSubmit(u)
        PROVE  AloneInv'
    <3>1. [NoTx EXCEPT !.pc = "submit"] \in Txs /\ [NoTx EXCEPT !.pc = "submit"].pc = "submit"
      BY TxTypes DEF NoTx
    <3>. QED  BY <2>2, <3>1, AloneBegins DEF BeginSubmit, PassesGate, rowVars
  <2>3. ASSUME NEW u \in Users, NEW i \in RequestIds, NEW verdict \in Verdicts,
               BeginDecide(u, i, verdict)
        PROVE  AloneInv'
    <3>1. CASE overlapped
      BY <2>3, <3>1 DEF BeginDecide, Open, AloneInv
    <3>2. CASE ~overlapped
      <4>1. i = raised
        BY <2>3, <3>2 DEF BeginDecide, AloneInv, RequestsInOrder
      <4>. QED  BY <2>3, <4>1, AloneBegins, TxTypes DEF BeginDecide, Open, rowVars
    <3>. QED  BY <3>1, <3>2
  <2>4. ASSUME NEW u \in Users, BeginResume(u)
        PROVE  AloneInv'
    BY <2>4, AloneBegins, TxTypes DEF BeginResume, ResumesTo, Open, rowVars
  <2>5. ASSUME NEW u \in Users, CommitEdit(u) \/ CommitGenerate(u)
        PROVE  AloneInv'
    <3>1. ~overlapped => status = "draft"
      BY <2>5 DEF CommitEdit, CommitGenerate, AloneInv, StillSo, At
    <3>2. UNCHANGED <<status, posted, requests, raised, overlapped>>
      BY <2>5 DEF CommitEdit, CommitGenerate, WriteJd, historyVars
    <3>3. ~overlapped => /\ RequestsInOrder' /\ UnderReview'
                         /\ posted' => status' \in {"posted", "on_hold"}
      BY <3>1, <3>2 DEF AloneInv, RequestsInOrder, UnderReview, Pending
    <3>. QED
      BY <2>5, <3>2, <3>3, AloneEnds DEF CommitEdit, CommitGenerate, WriteJd, At, Idle
  <2>6. ASSUME NEW u \in Users, CommitResume(u) \/ Abort(u)
        PROVE  AloneInv'
    <3>1. UNCHANGED <<posted, jd, requests, raised, scanned, overlapped>>
      BY <2>6 DEF CommitResume, Abort, rowVars, historyVars
    <3>2. \/ status' = status
          \/ status = "on_hold" /\ (~overlapped => status' = ResumesTo)
      BY <2>6 DEF CommitResume, Abort, rowVars, AloneInv, StillSo, At
    <3>3. ~overlapped => /\ RequestsInOrder' /\ UnderReview'
                         /\ posted' => status' \in {"posted", "on_hold"}
      BY <3>1, <3>2 DEF AloneInv, RequestsInOrder, UnderReview, Pending, ResumesTo
    <3>. QED
      BY <2>6, <3>1, <3>3, AloneEnds DEF CommitResume, Abort, At, Idle
  <2>7. ASSUME NEW u \in Users, Post(u) \/ Hold(u)
        PROVE  AloneInv'
    <3>1. /\ UNCHANGED <<jd, requests, raised, tx, scanned, overlapped>>
          /\ status \in {"approved", "posted"} /\ status' \in {"posted", "on_hold"}
      BY <2>7 DEF Post, Hold, historyVars
    <3>2. ~overlapped => \A v \in Users :
                /\ tx[v].pc \notin {"edit", "generate", "submit", "decide", "resume"}
      BY <3>1 DEF AloneInv, StillSo, At
    <3>. QED
      BY <3>1, <3>2 DEF AloneInv, RequestsInOrder, UnderReview, Pending, StillSo, At, Idle
  <2>8. CASE UNCHANGED vars
    BY <2>8 DEF vars, rowVars, historyVars, AloneInv, StillSo, At, Idle, ResumesTo,
                RequestsInOrder, UnderReview, Pending
  <2>. QED
    BY <2>1, <2>2, <2>3, <2>4, <2>5, <2>6, <2>7, <2>8, SubmitAlone, DecideAlone DEF Next
<1>. QED  BY <1>1, <1>2, TypeCorrect, PTL DEF Spec

\* As long as no two mutations overlap, the approval queue and the requisition agree.
THEOREM QueueAgrees == Spec => []QueueMatchesStatus
<1>1. AloneInv => QueueMatchesStatus
  BY DEF AloneInv, RequestsInOrder, QueueMatchesStatus
<1>. QED  BY <1>1, AloneInvariant, PTL

\* As long as no two mutations overlap, what goes live is what the bias gate has passed.
THEOREM ScannedLive == Spec => []LiveAsScanned
<1>1. TypeOK /\ AloneInv => LiveAsScanned
  <2> SUFFICES ASSUME TypeOK, AloneInv, ~overlapped, Live
               PROVE  /\ jd = scanned /\ ~jd.coded
                      /\ requests[raised] = [status |-> "approved", rev |-> jd.rev]
    BY DEF LiveAsScanned
  <2>1. /\ raised \in RequestIds /\ jd = scanned /\ ~jd.coded
        /\ requests[raised].rev = jd.rev /\ requests[raised].status = "approved"
    BY DEF AloneInv, UnderReview, Live
  <2>2. requests[raised] \in RequestRows
    BY <2>1 DEF TypeOK
  <2>. QED  BY <2>1, <2>2 DEF RequestRows
<1>. QED  BY <1>1, AloneInvariant, TypeCorrect, PTL

\* As long as no two mutations overlap, a posted requisition never falls back.
THEOREM PostedStays == Spec => []PostedStaysPosted
<1>1. AloneInv => PostedStaysPosted
  BY DEF AloneInv, PostedStaysPosted
<1>. QED  BY <1>1, AloneInvariant, PTL
=============================================================================
