-------------------------- MODULE Employment_proofs --------------------------
(***************************************************************************)
(* What holds of departures and their Workday events, for any number of    *)
(* mutations, cases and failures.                                          *)
(*                                                                         *)
(* A termination is enqueued from a transaction that has read its gates    *)
(* some time before.  SawGates says what such a transaction can rely on:   *)
(* what is recorded for good, whatever else becomes of the tasks and the   *)
(* settlement; Recorded ties that record to the tables.  ReportInv, which  *)
(* rests on both, carries the two properties of a reported termination.    *)
(***************************************************************************)
EXTENDS Employment, FiniteSetTheorems, TLAPS

-----------------------------------------------------------------------------
(* Typing                                                                  *)

CaseStatuses == {"none", "initiated", "notice_period", "clearance", "completed", "cancelled"}
SettlementStatuses == {"none", "pending", "calculated", "approved", "paid"}
OnboardingStatuses == {"pre_boarding", "day_zero", "in_progress", "completed", "cancelled"}

CaseRows == [status : CaseStatuses, settlement : SettlementStatuses]

\* The fields of a request, whichever cases are open by now.
Asks(req) ==
    /\ req.op \in {"onboard", "advance", "settle", "initiate"}
    /\ req.op = "onboard" => req.to \in Targets \intersect OnboardingStatuses
    /\ req.op = "advance" =>
            req.k \in Opened /\ req.to \in CaseStatuses \ {"none"}
    /\ req.op = "settle" =>
            req.k \in Cases /\ req.to \in SettlementStatuses \ {"none"}

\* Where a transaction can be.
Placed(s) ==
    /\ tx[s].pc \in {"idle", "begun", "enqueued", "checklist"}
    /\ tx[s].pc # "idle" => Asks(tx[s].req)
    /\ tx[s] = [pc |-> tx[s].pc, req |-> tx[s].req, saw |-> tx[s].saw]

TypeInv ==
    /\ TypeOK
    /\ DOMAIN tx = Sessions
    /\ \A s \in Sessions : Placed(s)

\* A request that passes its checks asks for something there is.
LEMMA RequestFields ==
  ASSUME NEW req \in Requests, Passes(req)
  PROVE  Asks(req)
<1>1. CASE req \in OnboardingMoves
  BY <1>1 DEF OnboardingMoves, Passes, Asks, OnboardingSteps, OnboardingStatuses
<1>2. CASE req \in CaseMoves
  BY <1>2 DEF CaseMoves, Asks, CaseStatuses
<1>3. CASE req \in Settlements
  BY <1>3 DEF Settlements, Asks, SettlementStatuses, Opened
<1>4. CASE req = [op |-> "initiate"]
  BY <1>4 DEF Asks
<1>. QED  BY <1>1, <1>2, <1>3, <1>4 DEF Requests

\* Cases stay open, so that requests stay meaningful.
LEMMA AsksStays ==
  ASSUME NEW req, Asks(req), Opened \subseteq Opened'
  PROVE  Asks(req)'
BY DEF Asks

\* A step of s keeps the transactions of the others.
LEMMA OthersPlaced ==
  ASSUME TypeInv, NEW s \in Sessions, NEW pc \in {"idle", "begun", "enqueued", "checklist"},
         NEW req, NEW saw, tx' = [tx EXCEPT ![s] = [pc |-> pc, req |-> req, saw |-> saw]],
         pc # "idle" => Asks(req)', Opened \subseteq Opened'
  PROVE  DOMAIN tx' = Sessions /\ \A u \in Sessions : Placed(u)'
<1>1. /\ tx'[s] = [pc |-> pc, req |-> req, saw |-> saw]
      /\ \A u \in Sessions \ {s} : tx'[u] = tx[u]
      /\ DOMAIN tx' = Sessions
  BY DEF TypeInv
<1>2. Placed(s)'
  BY <1>1 DEF Placed
<1>3. ASSUME NEW u \in Sessions \ {s}
      PROVE  Placed(u)'
  <2>1. Placed(u) /\ tx'[u] = tx[u]
    BY <1>1 DEF TypeInv
  <2>2. tx[u].pc # "idle" => Asks(tx[u].req)'
    BY <2>1, AsksStays DEF Placed
  <2>. QED  BY <2>1, <2>2 DEF Placed
<1>. QED  BY <1>1, <1>2, <1>3

\* A transaction that ends, or is given up, leaves the others.
LEMMA EndsPlaced ==
  ASSUME TypeInv, NEW s \in Sessions, tx' = [tx EXCEPT ![s] = NoTx], Opened \subseteq Opened'
  PROVE  DOMAIN tx' = Sessions /\ \A u \in Sessions : Placed(u)'
BY OthersPlaced DEF NoTx

\* A transaction that goes on keeps what it asks.
LEMMA GoesOnPlaced ==
  ASSUME TypeInv, NEW s \in Sessions, tx[s].pc # "idle", NEW pc \in {"enqueued", "checklist"},
         NEW saw,
         tx' = [tx EXCEPT ![s] = [pc |-> pc, req |-> tx[s].req, saw |-> saw]],
         Opened \subseteq Opened'
  PROVE  DOMAIN tx' = Sessions /\ \A u \in Sessions : Placed(u)'
<1>1. Asks(tx[s].req)'
  BY AsksStays DEF TypeInv, Placed
<1>. QED  BY <1>1, OthersPlaced

\* The number of open cases is the last one.
OpenedInOrder == \E n \in 0 .. MaxCases : Opened = 1 .. n

\* A new case is the one after the last (createOffboardingCase).
LEMMA InsertsNext ==
  ASSUME OpenedInOrder, Opened # Cases
  PROVE  /\ Cardinality(Opened) + 1 \in Cases \ Opened
         /\ Opened \union {Cardinality(Opened) + 1} = 1 .. Cardinality(Opened) + 1
<1>1. PICK n \in 0 .. MaxCases : Opened = 1 .. n
  BY DEF OpenedInOrder
<1>2. n \in Nat /\ MaxCases \in Nat /\ n <= MaxCases
  BY EmploymentAssumption
<1>3. Cardinality(Opened) = n
  BY <1>1, <1>2, FS_Interval
<1>4. n # MaxCases
  BY <1>1 DEF Cases
<1>. QED  BY <1>1, <1>2, <1>3, <1>4 DEF Cases

\* The sentence of TypeOK about the rows, apart from the transactions.
RowsTyped ==
    /\ onboarding \in [status : OnboardingStatuses, linked : BOOLEAN]
    /\ cases \in [Cases -> CaseRows]
    /\ tasks \in [Cases -> [Tasks -> {"missing", "open", "completed"}]]
    /\ outbox \in [Events -> {"none", "pending", "processing", "simulated", "failed"}]
    /\ drain \in [rows : SUBSET Events, link : BOOLEAN]
    /\ revoked \subseteq Cases /\ approved \subseteq Cases

CountsTyped == requests \in 0 .. MaxRequests /\ faults \in 0 .. MaxFaults

\* TypeOK is about the rows and about the bounds.
LEMMA TypeParts == TypeOK <=> RowsTyped /\ CountsTyped
BY DEF TypeOK, RowsTyped, CountsTyped, CaseRows, CaseStatuses, SettlementStatuses,
       OnboardingStatuses

\* Requests and failures are counted within their bounds.
LEMMA CountsKept ==
  ASSUME CountsTyped, Next
  PROVE  CountsTyped'
<1> USE EmploymentAssumption DEF CountsTyped
<1>1. ASSUME NEW s \in Sessions, Mutation(s)
      PROVE  CountsTyped'
  <2>1. CASE Begin(s)
    BY <2>1 DEF Begin
  <2>2. CASE RequestDies(s)
    BY <2>2 DEF RequestDies, Fault
  <2>3. CASE ~Begin(s) /\ ~RequestDies(s)
    <3>1. CASE Abort(s) \/ EnqueueHire(s) \/ EnqueueTerminate(s)
      BY <3>1 DEF Abort, EnqueueHire, EnqueueTerminate, Fault
    <3>2. CASE Finish(s) \/ InsertCase(s)
      BY <3>2 DEF Finish, CommitOnboard, CommitAdvance, InsertCase
    <3>3. CASE CreateTasks(s) \/ CommitSettle(s)
      BY <3>3 DEF CreateTasks, CommitSettle, Fault
    <3>. QED  BY <1>1, <2>3, <3>1, <3>2, <3>3 DEF Mutation
  <2>. QED  BY <2>1, <2>2, <2>3
<1>2. ASSUME NEW k \in Cases, NEW t \in Tasks, NEW to, SetTask(k, t, to)
      PROVE  CountsTyped'
  BY <1>2 DEF SetTask
<1>3. CASE Drain \/ SimulateFails \/ WriteBackFails \/ WorkerDies
  BY <1>3 DEF Drain, Claim, Simulate, WriteBack, SimulateFails, WriteBackFails, WorkerDies,
              Fault
<1>. QED  BY <1>1, <1>2, <1>3 DEF Next

\* The drain changes its own rows, and links the case (drainWorkdayOutboxOnce).
LEMMA DrainTyped ==
  ASSUME TypeInv, Drain \/ SimulateFails \/ WriteBackFails \/ WorkerDies
  PROVE  RowsTyped' /\ UNCHANGED <<cases, tasks, tx, revoked, approved, stale>>
<1> USE TypeParts DEF TypeInv, RowsTyped
<1>1. CASE Claim
  BY <1>1 DEF Claim, caseVars, historyVars
<1>2. CASE Simulate
  <2>1. PICK e \in drain.rows :
          /\ outbox' = [outbox EXCEPT ![e] = "simulated"]
          /\ drain' = [rows |-> drain.rows \ {e}, link |-> e = Hire]
    BY <1>2 DEF Simulate
  <2>2. (e = Hire) \in BOOLEAN
    OBVIOUS
  <2>3. drain' \in [rows : SUBSET Events, link : BOOLEAN]
    BY <2>1, <2>2
  <2>4. outbox' \in [Events -> {"none", "pending", "processing", "simulated", "failed"}]
    BY <2>1
  <2>. QED  BY <1>2, <2>3, <2>4 DEF Simulate, caseVars, historyVars
<1>3. CASE WriteBack
  BY <1>3 DEF WriteBack, Links, historyVars
<1>4. CASE SimulateFails
  BY <1>4 DEF SimulateFails, caseVars, historyVars
<1>5. CASE WriteBackFails
  BY <1>5 DEF WriteBackFails, caseVars, historyVars
<1>6. CASE WorkerDies
  BY <1>6 DEF WorkerDies, caseVars, historyVars
<1>. QED  BY <1>1, <1>2, <1>3, <1>4, <1>5, <1>6 DEF Drain

\* A transaction that has enqueued its event keeps what it asks and has read.
LEMMA EnqueuedPlaced ==
  ASSUME TypeInv, NEW s \in Sessions, tx[s].pc # "idle",
         tx' = [tx EXCEPT ![s].pc = "enqueued"], Opened \subseteq Opened'
  PROVE  DOMAIN tx' = Sessions /\ \A u \in Sessions : Placed(u)'
<1> DEFINE req == tx[s].req
           saw == tx[s].saw
<1>1. tx[s] = [pc |-> tx[s].pc, req |-> req, saw |-> saw]
  BY DEF TypeInv, Placed
<1>2. [tx[s] EXCEPT !.pc = "enqueued"] = [pc |-> "enqueued", req |-> req, saw |-> saw]
  BY <1>1
<1>3. tx' = [tx EXCEPT ![s] = [tx[s] EXCEPT !.pc = "enqueued"]]
  OBVIOUS
<1>4. tx' = [tx EXCEPT ![s] = [pc |-> "enqueued", req |-> req, saw |-> saw]]
  BY <1>2, <1>3
<1>. QED  BY <1>4, GoesOnPlaced

\* What is enqueued is a row of the outbox.
LEMMA EnqueueTyped ==
  ASSUME RowsTyped, NEW e \in Events, Enqueue(e)
  PROVE  /\ outbox' \in [Events -> {"none", "pending", "processing", "simulated", "failed"}]
         /\ outbox'[e] # "none"
         /\ \A f \in Events \ {e} : outbox'[f] = outbox[f]
BY DEF RowsTyped, Enqueue

\* A mutation begins, is given up, or enqueues: the cases stay as they are.
LEMMA EarlyTyped ==
  ASSUME TypeInv, OpenedInOrder, NEW s \in Sessions,
         Begin(s) \/ Abort(s) \/ RequestDies(s) \/ EnqueueHire(s) \/ EnqueueTerminate(s)
  PROVE  /\ RowsTyped' /\ UNCHANGED <<caseVars, drain, revoked, approved>> /\ OpenedInOrder'
         /\ DOMAIN tx' = Sessions /\ \A u \in Sessions : Placed(u)'
<1>0. RowsTyped
  BY TypeParts DEF TypeInv
<1>1. CASE Begin(s)
  <2>1. PICK req \in Requests :
          Passes(req) /\ tx' = [tx EXCEPT ![s] = [pc |-> "begun", req |-> req, saw |-> Reads(req)]]
    BY <1>1 DEF Begin
  <2>2. UNCHANGED <<onboarding, cases, tasks, outbox, drain, revoked, approved>>
    BY <1>1 DEF Begin, caseVars, historyVars
  <2>3. Opened' = Opened
    BY <2>2 DEF Opened
  <2>4. Asks(req)'
    BY <2>1, <2>3, RequestFields, AsksStays
  <2>. QED  BY <1>0, <2>1, <2>2, <2>3, <2>4, OthersPlaced DEF RowsTyped, OpenedInOrder, caseVars
<1>2. CASE Abort(s) \/ RequestDies(s)
  <2>1. UNCHANGED <<onboarding, cases, tasks, outbox, drain, revoked, approved>>
    BY <1>2 DEF Abort, RequestDies, caseVars, historyVars
  <2>2. tx' = [tx EXCEPT ![s] = NoTx]
    BY <1>2 DEF Abort, RequestDies
  <2>3. Opened' = Opened
    BY <2>1 DEF Opened
  <2>. QED  BY <1>0, <2>1, <2>2, <2>3, EndsPlaced DEF RowsTyped, OpenedInOrder, caseVars
<1>3. CASE EnqueueHire(s) \/ EnqueueTerminate(s)
  <2>1. UNCHANGED <<onboarding, cases, tasks, drain, revoked, approved>>
    BY <1>3 DEF EnqueueHire, EnqueueTerminate, caseVars
  <2>2. tx' = [tx EXCEPT ![s].pc = "enqueued"] /\ tx[s].pc # "idle"
    BY <1>3 DEF EnqueueHire, EnqueueTerminate, At
  <2>3. Opened' = Opened
    BY <2>1 DEF Opened
  <2>4. outbox' \in [Events -> {"none", "pending", "processing", "simulated", "failed"}]
    <3>1. CASE EnqueueHire(s)
      BY <1>0, <3>1, EnqueueTyped DEF EnqueueHire, RowsTyped, Events
    <3>2. CASE EnqueueTerminate(s)
      <4>1. tx[s].req.k \in Cases
        BY <3>2 DEF EnqueueTerminate, At, TypeInv, Placed, Asks, Opened
      <4>2. Terminate(tx[s].req.k) \in Events
        BY <4>1 DEF Events
      <4>. QED  BY <1>0, <3>2, <4>2, EnqueueTyped DEF EnqueueTerminate, RowsTyped
    <3>. QED  BY <1>3, <3>1, <3>2
  <2>. QED  BY <1>0, <2>1, <2>2, <2>3, <2>4, EnqueuedPlaced DEF RowsTyped, OpenedInOrder, caseVars
<1>. QED  BY <1>1, <1>2, <1>3

\* A mutation writes its case, its checklist or its settlement.
LEMMA LateTyped ==
  ASSUME TypeInv, OpenedInOrder, NEW s \in Sessions,
         Finish(s) \/ InsertCase(s) \/ CreateTasks(s) \/ CommitSettle(s)
  PROVE  /\ RowsTyped' /\ UNCHANGED outbox
         /\ Opened \subseteq Opened' /\ OpenedInOrder'
         /\ DOMAIN tx' = Sessions /\ \A u \in Sessions : Placed(u)'
<1>0. RowsTyped /\ Placed(s)
  BY TypeParts DEF TypeInv
<1>1. CASE CommitOnboard(s)
  <2>1. /\ tx' = [tx EXCEPT ![s] = NoTx]
        /\ UNCHANGED <<cases, tasks, outbox, drain, revoked, approved>>
    BY <1>1 DEF CommitOnboard, Ends
  <2>2. tx[s].req.to \in OnboardingStatuses
    BY <1>0, <1>1 DEF CommitOnboard, HoldsOnboarding, At, Placed, Asks
  <2>3. onboarding' = [onboarding EXCEPT !.status = tx[s].req.to]
    BY <1>1 DEF CommitOnboard
  <2>4. Opened' = Opened
    BY <2>1 DEF Opened
  <2>. QED  BY <1>0, <2>1, <2>2, <2>3, <2>4, EndsPlaced DEF RowsTyped, OpenedInOrder
<1>2. CASE CommitAdvance(s)
  <2>1. /\ tx' = [tx EXCEPT ![s] = NoTx]
        /\ UNCHANGED <<onboarding, tasks, outbox, drain, revoked, approved>>
    BY <1>2 DEF CommitAdvance, Ends
  <2>2. tx[s].req.k \in Opened /\ tx[s].req.to \in CaseStatuses \ {"none"}
    BY <1>0, <1>2 DEF CommitAdvance, At, Placed, Asks
  <2>3. cases' = [cases EXCEPT ![tx[s].req.k].status = tx[s].req.to]
    BY <1>2 DEF CommitAdvance
  <2>4. Opened' = Opened /\ cases' \in [Cases -> CaseRows]
    BY <1>0, <2>2, <2>3 DEF Opened, RowsTyped, CaseRows
  <2>. QED  BY <1>0, <2>1, <2>4, EndsPlaced DEF RowsTyped, OpenedInOrder
<1>3. CASE InsertCase(s)
  <2>1. DEFINE k == Cardinality(Opened) + 1
  <2>2. /\ Opened # Cases /\ At(s, "begun", "initiate")
        /\ cases' = [cases EXCEPT ![k] = [NoCase EXCEPT !.status = "initiated"]]
        /\ tx' = [tx EXCEPT ![s] = [pc |-> "checklist", req |-> @.req, saw |-> <<k>>]]
        /\ UNCHANGED <<onboarding, tasks, outbox, drain, revoked, approved>>
    BY <1>3 DEF InsertCase, historyVars
  <2>3. k \in Cases \ Opened /\ Opened \union {k} = 1 .. k
    BY <2>2, InsertsNext
  <2>4. cases' \in [Cases -> CaseRows] /\ Opened' = Opened \union {k}
    <3>1. [NoCase EXCEPT !.status = "initiated"] = [status |-> "initiated", settlement |-> "none"]
      BY DEF NoCase
    <3>2. cases' = [cases EXCEPT ![k] = [status |-> "initiated", settlement |-> "none"]]
      BY <2>2, <3>1
    <3>3. cases' \in [Cases -> CaseRows]
      BY <1>0, <3>2 DEF RowsTyped, CaseRows, CaseStatuses, SettlementStatuses
    <3>4. cases'[k].status = "initiated" /\ \A j \in Cases \ {k} : cases'[j] = cases[j]
      BY <1>0, <2>3, <3>2 DEF RowsTyped
    <3>. QED  BY <2>3, <3>3, <3>4 DEF Opened
  <2>5. OpenedInOrder'
    BY <2>3, <2>4, EmploymentAssumption DEF OpenedInOrder, Cases
  <2>6. tx' = [tx EXCEPT ![s] = [pc |-> "checklist", req |-> tx[s].req, saw |-> <<k>>]]
    BY <2>2
  <2>7. tx[s].pc # "idle"
    BY <2>2 DEF At
  <2>8. DOMAIN tx' = Sessions /\ \A u \in Sessions : Placed(u)'
    BY <2>4, <2>6, <2>7, GoesOnPlaced
  <2>. QED  BY <1>0, <2>2, <2>4, <2>5, <2>8 DEF RowsTyped
<1>4. CASE CreateTasks(s)
  <2>1. PICK n \in 0 .. 2 : tasks' = [tasks EXCEPT ![tx[s].saw[1]] = FirstTasks(n)]
    BY <1>4 DEF CreateTasks
  <2>2. FirstTasks(n) \in [Tasks -> {"missing", "open", "completed"}]
    BY DEF FirstTasks
  <2>3. /\ tx' = [tx EXCEPT ![s] = NoTx]
        /\ UNCHANGED <<onboarding, cases, outbox, drain, revoked, approved>>
    BY <1>4 DEF CreateTasks, Ends, historyVars
  <2>4. Opened' = Opened
    BY <2>3 DEF Opened
  <2>. QED  BY <1>0, <2>1, <2>2, <2>3, <2>4, EndsPlaced DEF RowsTyped, OpenedInOrder
<1>5. CASE CommitSettle(s)
  <2>1. DEFINE k == tx[s].req.k
               to == tx[s].req.to
               was == IF tx[s].saw[1] = "none" THEN "pending" ELSE tx[s].saw[1]
  <2>2. k \in Cases /\ to \in SettlementStatuses \ {"none"}
    BY <1>0, <1>5 DEF CommitSettle, At, Placed, Asks
  <2>3. /\ tx' = [tx EXCEPT ![s] = NoTx]
        /\ cases' = [cases EXCEPT ![k].settlement = IF to = was /\ @ # "none" THEN @ ELSE to]
        /\ approved' \subseteq approved \union {k}
        /\ UNCHANGED <<onboarding, tasks, outbox, drain, revoked>>
    BY <1>5 DEF CommitSettle, Ends
  <2>4. Opened' = Opened /\ cases' \in [Cases -> CaseRows]
    BY <1>0, <2>2, <2>3 DEF Opened, RowsTyped, CaseRows
  <2>. QED  BY <1>0, <2>2, <2>3, <2>4, EndsPlaced DEF RowsTyped, OpenedInOrder
<1>. QED  BY <1>1, <1>2, <1>3, <1>4, <1>5 DEF Finish

\* The checklist moves, and only its own task (updateOffboardingTaskStatus).
LEMMA SetTaskTyped ==
  ASSUME TypeInv, OpenedInOrder, NEW k \in Cases, NEW t \in Tasks,
         NEW to \in {"open", "completed"}, SetTask(k, t, to)
  PROVE  /\ RowsTyped' /\ UNCHANGED <<cases, outbox, tx, approved, stale, faults>>
BY TypeParts DEF TypeInv, SetTask, RowsTyped

IInv == TypeInv /\ OpenedInOrder

\* The rows and the transactions keep their shapes, and cases are numbered in order.
LEMMA TypeInvariant == Spec => []IInv
<1>1. Init => IInv
  <2>1. ASSUME Init
        PROVE  TypeInv
    BY <2>1, EmploymentAssumption
       DEF Init, TypeInv, TypeOK, Placed, NoTx, NoCase
  <2>2. ASSUME Init
        PROVE  OpenedInOrder
    <3>1. Opened = {}
      BY <2>2 DEF Init, Opened, NoCase
    <3>2. 0 \in 0 .. MaxCases /\ {} = 1 .. 0
      BY EmploymentAssumption
    <3>. QED  BY <3>1, <3>2 DEF OpenedInOrder
  <2>. QED  BY <2>1, <2>2 DEF IInv
<1>2. IInv /\ [Next]_vars => IInv'
  <2> SUFFICES ASSUME IInv, [Next]_vars
               PROVE  IInv'
    OBVIOUS
  <2> USE DEF IInv
  <2>0. TypeInv /\ OpenedInOrder /\ RowsTyped /\ CountsTyped
    BY TypeParts DEF TypeInv
  <2>1. ASSUME RowsTyped', Next, DOMAIN tx' = Sessions, \A s \in Sessions : Placed(s)'
        PROVE  TypeInv'
    <3>1. CountsTyped'
      BY <2>0, <2>1, CountsKept
    <3>2. TypeOK'
      BY <2>1, <3>1
         DEF TypeOK, RowsTyped, CountsTyped, CaseRows, CaseStatuses, SettlementStatuses,
             OnboardingStatuses
    <3>. QED  BY <2>1, <3>2 DEF TypeInv
  <2>2. ASSUME UNCHANGED <<cases, tx>>
        PROVE  OpenedInOrder' /\ DOMAIN tx' = Sessions /\ \A s \in Sessions : Placed(s)'
    <3>1. Opened' = Opened
      BY <2>2 DEF Opened
    <3>. QED  BY <2>0, <2>2, <3>1 DEF OpenedInOrder, TypeInv, Placed, Asks
  <2>3. ASSUME NEW s \in Sessions, Mutation(s)
        PROVE  IInv'
    <3>1. CASE Begin(s) \/ Abort(s) \/ RequestDies(s) \/ EnqueueHire(s) \/ EnqueueTerminate(s)
      BY <2>0, <2>1, <2>3, <3>1, EarlyTyped DEF Next
    <3>2. CASE Finish(s) \/ InsertCase(s) \/ CreateTasks(s) \/ CommitSettle(s)
      BY <2>0, <2>1, <2>3, <3>2, LateTyped DEF Next
    <3>. QED  BY <2>3, <3>1, <3>2 DEF Mutation
  <2>4. ASSUME NEW k \in Cases, NEW t \in Tasks, NEW to \in {"open", "completed"},
               SetTask(k, t, to)
        PROVE  IInv'
    BY <2>0, <2>1, <2>2, <2>4, SetTaskTyped DEF Next
  <2>5. CASE Drain \/ SimulateFails \/ WriteBackFails \/ WorkerDies
    BY <2>0, <2>1, <2>2, <2>5, DrainTyped DEF Next
  <2>6. CASE UNCHANGED vars
    <3>1. UNCHANGED <<onboarding, cases, tasks, outbox, drain, requests, revoked, approved,
                      faults>>
      BY <2>6 DEF vars, caseVars, historyVars
    <3>2. RowsTyped' /\ CountsTyped'
      BY <2>0, <3>1 DEF RowsTyped, CountsTyped
    <3>3. TypeOK'
      BY <3>2
         DEF TypeOK, RowsTyped, CountsTyped, CaseRows, CaseStatuses, SettlementStatuses,
             OnboardingStatuses
    <3>. QED  BY <2>2, <2>6, <3>3 DEF TypeInv, vars, caseVars
  <2>. QED  BY <2>3, <2>4, <2>5, <2>6 DEF Next
<1>. QED  BY <1>1, <1>2, PTL DEF Spec

\* Whatever mutations, the drain and failures do, the rows keep their shapes, and what is
\* counted its bounds.
THEOREM TypeCorrect == Spec => []TypeOK
BY TypeInvariant, PTL DEF IInv, TypeInv

-----------------------------------------------------------------------------
(* What a transaction has read                                             *)

Recorded ==
    \A k \in Cases :
        /\ Done(k, "access_revocation") => k \in revoked
        /\ cases[k].settlement \in {"approved", "paid"} => k \in approved

SawGates(s) ==
    LET req == tx[s].req
        saw == tx[s].saw
        was == IF saw[1] = "none" THEN "pending" ELSE saw[1]
    IN  /\ At(s, "begun", "advance") =>
            /\ <<saw[1], req.to>> \in CaseSteps
            /\ req.to = "completed" => saw[2] = TRUE /\ req.k \in revoked /\ req.k \in approved
        /\ At(s, "enqueued", "advance") => req.to = "completed"
        /\ At(s, "begun", "settle") =>
            /\ <<was, req.to>> \in SettlementSteps \/ (req.to = was /\ req.to # "paid")
            /\ saw[1] \in {"approved", "paid"} => req.k \in approved

GatesInv == Recorded /\ \A s \in Sessions : SawGates(s)

\* What is recorded stays recorded, so that what a transaction has seen stays true.
LEMMA SawStays ==
  ASSUME NEW s, SawGates(s), tx'[s] = tx[s],
         revoked \subseteq revoked', approved \subseteq approved'
  PROVE  SawGates(s)'
BY DEF SawGates, At

\* A mutation that has passed its checks has seen what they ask for.
LEMMA BeginSaw ==
  ASSUME IInv, GatesInv, NEW s \in Sessions, Begin(s)
  PROVE  SawGates(s)'
<1>1. PICK req \in Requests :
        Passes(req) /\ tx' = [tx EXCEPT ![s] = [pc |-> "begun", req |-> req, saw |-> Reads(req)]]
  BY DEF Begin
<1>2. tx'[s] = [pc |-> "begun", req |-> req, saw |-> Reads(req)]
  BY <1>1 DEF IInv, TypeInv
<1>3. UNCHANGED <<revoked, approved>>
  BY DEF Begin, historyVars
<1>4. Asks(req)
  BY <1>1, RequestFields
<1>5. CASE req.op = "advance"
  <2>1. req.k \in Cases /\ <<cases[req.k].status, req.to>> \in CaseSteps
    BY <1>1, <1>4, <1>5 DEF Passes, Asks, Opened
  <2>2. req.to = "completed" => Cleared(req.k)
    BY <1>1, <1>5 DEF Passes
  <2>3. req.to = "completed" => req.k \in revoked /\ req.k \in approved
    BY <2>1, <2>2 DEF Cleared, GatesInv, Recorded
  <2>4. Reads(req) = <<cases[req.k].status, req.to = "completed" => Cleared(req.k)>>
    BY <1>5 DEF Reads
  <2>5. (req.to = "completed" => Cleared(req.k)) = TRUE
    BY <2>2
  <2>6. Reads(req) = <<cases[req.k].status, TRUE>>
    BY <2>4, <2>5
  <2>. QED  BY <1>2, <1>3, <1>5, <2>1, <2>3, <2>6 DEF SawGates, At
<1>6. CASE req.op = "settle"
  <2>1. Reads(req)[1] = cases[req.k].settlement
    BY <1>6 DEF Reads
  <2>2. \/ <<Settlement(req.k), req.to>> \in SettlementSteps
        \/ (req.to = Settlement(req.k) /\ req.to # "paid")
    BY <1>1, <1>6 DEF Passes
  <2>3. req.k \in Cases
    BY <1>4, <1>6 DEF Asks
  <2>4. cases[req.k].settlement \in {"approved", "paid"} => req.k \in approved
    BY <2>3 DEF GatesInv, Recorded
  <2>5. tx'[s].pc = "begun" /\ tx'[s].req = req /\ tx'[s].saw[1] = cases[req.k].settlement
    BY <1>2, <2>1
  <2>6. approved' = approved
    BY <1>3
  <2>. QED  BY <1>6, <2>2, <2>4, <2>5, <2>6 DEF SawGates, At, Settlement
<1>7. tx'[s].req.op \notin {"advance", "settle"} => SawGates(s)'
  BY DEF SawGates, At
<1>. QED  BY <1>2, <1>5, <1>6, <1>7

\* A mutation that enqueues its event completes a case, or is another's business.
LEMMA EnqueueSaw ==
  ASSUME IInv, GatesInv, NEW s \in Sessions, EnqueueHire(s) \/ EnqueueTerminate(s)
  PROVE  SawGates(s)' /\ UNCHANGED <<cases, tasks, revoked, approved>>
<1>1. tx'[s].pc = "enqueued" /\ tx'[s].req = tx[s].req
  BY DEF EnqueueHire, EnqueueTerminate, IInv, TypeInv, Placed
<1>2. tx[s].req.op = "advance" => tx[s].req.to = "completed"
  BY DEF EnqueueHire, EnqueueTerminate, At
<1>3. UNCHANGED <<cases, tasks, revoked, approved>>
  BY DEF EnqueueHire, EnqueueTerminate, caseVars
<1>. QED  BY <1>1, <1>2, <1>3 DEF SawGates, At

\* A walk of the settlement leaves an approved one approved or paid (updateFinalSettlement).
LEMMA SettleRecorded ==
  ASSUME IInv, GatesInv, NEW s \in Sessions, CommitSettle(s)
  PROVE  /\ Recorded' /\ approved \subseteq approved' /\ tx[s].req.k \in Cases
         /\ UNCHANGED <<tasks, revoked>>
<1> DEFINE k == tx[s].req.k
           to == tx[s].req.to
           was == IF tx[s].saw[1] = "none" THEN "pending" ELSE tx[s].saw[1]
<1>1. k \in Cases
  BY DEF CommitSettle, At, IInv, TypeInv, Placed, Asks
<1>2. /\ cases' = [cases EXCEPT ![k].settlement = IF to = was /\ @ # "none" THEN @ ELSE to]
      /\ approved' = IF to = "approved" /\ was # "approved" THEN approved \union {k} ELSE approved
      /\ UNCHANGED <<tasks, revoked>>
  BY DEF CommitSettle
<1>3. /\ <<was, to>> \in SettlementSteps \/ (to = was /\ to # "paid")
      /\ tx[s].saw[1] \in {"approved", "paid"} => k \in approved
  BY DEF CommitSettle, GatesInv, SawGates, At
<1>4. to \in {"approved", "paid"} => k \in approved'
  <2>1. to = "paid" => was = "approved"
    BY <1>3 DEF SettlementSteps
  <2>. QED  BY <1>2, <1>3, <2>1
<1>5. cases'[k].settlement \in {cases[k].settlement, to}
  BY <1>1, <1>2 DEF IInv, TypeInv, TypeOK
<1>6. \A j \in Cases \ {k} : cases'[j] = cases[j]
  BY <1>1, <1>2 DEF IInv, TypeInv, TypeOK
<1>7. approved \subseteq approved'
  BY <1>2
<1>. QED  BY <1>1, <1>2, <1>4, <1>5, <1>6, <1>7 DEF GatesInv, Recorded, Done

\* A completed revocation and an approved settlement are on record, and a transaction that
\* completes a case has seen them so.
LEMMA GatesInvariant == Spec => []GatesInv
<1>1. Init => GatesInv
  BY DEF Init, GatesInv, Recorded, SawGates, NoTx, NoCase, Done, At, Tasks
<1>2. IInv /\ IInv' /\ GatesInv /\ [Next]_vars => GatesInv'
  <2> SUFFICES ASSUME IInv, IInv', GatesInv, [Next]_vars
               PROVE  GatesInv'
    OBVIOUS
  <2>0. RowsTyped
    BY TypeParts DEF IInv, TypeInv
  <2>1. ASSUME UNCHANGED <<cases, tasks, revoked, approved>>
        PROVE  Recorded'
    BY <2>1 DEF GatesInv, Recorded, Done
  <2>2. ASSUME NEW s \in Sessions, NEW new, tx' = [tx EXCEPT ![s] = new], SawGates(s)',
               revoked \subseteq revoked', approved \subseteq approved'
        PROVE  \A u \in Sessions : SawGates(u)'
    <3>1. ASSUME NEW u \in Sessions \ {s}
          PROVE  SawGates(u)'
      <4>1. tx'[u] = tx[u]
        BY <2>2 DEF IInv, TypeInv
      <4>. QED  BY <2>2, <4>1, SawStays DEF GatesInv
    <3>. QED  BY <2>2, <3>1
  <2>3. ASSUME NEW s \in Sessions, NEW new, tx' = [tx EXCEPT ![s] = new],
               new.pc \in {"idle", "checklist"}
        PROVE  SawGates(s)'
    BY <2>3 DEF IInv, TypeInv, SawGates, At
  <2>4. ASSUME NEW s \in Sessions, Mutation(s)
        PROVE  GatesInv'
    <3>1. CASE Begin(s)
      <4>1. SawGates(s)'
        BY <3>1, BeginSaw
      <4>2. UNCHANGED <<cases, tasks, revoked, approved>>
        BY <3>1 DEF Begin, caseVars, historyVars
      <4>3. PICK new : tx' = [tx EXCEPT ![s] = new]
        BY <3>1 DEF Begin
      <4>. QED  BY <2>1, <2>2, <4>1, <4>2, <4>3 DEF GatesInv
    <3>2. CASE Abort(s) \/ RequestDies(s)
      <4>1. UNCHANGED <<cases, tasks, revoked, approved>> /\ tx' = [tx EXCEPT ![s] = NoTx]
        BY <3>2 DEF Abort, RequestDies, caseVars, historyVars
      <4>. QED  BY <2>1, <2>2, <2>3, <4>1 DEF GatesInv, NoTx
    <3>3. CASE EnqueueHire(s) \/ EnqueueTerminate(s)
      <4>1. tx' = [tx EXCEPT ![s].pc = "enqueued"]
        BY <3>3 DEF EnqueueHire, EnqueueTerminate
      <4>2. tx' = [tx EXCEPT ![s] = [tx[s] EXCEPT !.pc = "enqueued"]]
        BY <4>1
      <4>3. SawGates(s)' /\ UNCHANGED <<cases, tasks, revoked, approved>>
        BY <3>3, EnqueueSaw
      <4>. QED  BY <2>1, <2>2, <4>2, <4>3 DEF GatesInv
    <3>4. CASE CommitOnboard(s)
      <4>1. UNCHANGED <<cases, tasks, revoked, approved>> /\ tx' = [tx EXCEPT ![s] = NoTx]
        BY <3>4 DEF CommitOnboard, Ends
      <4>. QED  BY <2>1, <2>2, <2>3, <4>1 DEF GatesInv, NoTx
    <3>5. CASE CommitAdvance(s)
      <4>1. UNCHANGED <<tasks, revoked, approved>> /\ tx' = [tx EXCEPT ![s] = NoTx]
        BY <3>5 DEF CommitAdvance, Ends
      <4>2. cases' = [cases EXCEPT ![tx[s].req.k].status = tx[s].req.to]
        BY <3>5 DEF CommitAdvance
      <4>3. \A k \in Cases : cases'[k].settlement = cases[k].settlement
        BY <2>0, <4>2 DEF RowsTyped, CaseRows
      <4>4. Recorded'
        BY <4>1, <4>3 DEF GatesInv, Recorded, Done
      <4>. QED  BY <2>2, <2>3, <4>1, <4>4 DEF GatesInv, NoTx
    <3>6. CASE InsertCase(s)
      <4>1. DEFINE k == Cardinality(Opened) + 1
                   new == [pc |-> "checklist", req |-> tx[s].req, saw |-> <<k>>]
      <4>2. UNCHANGED <<tasks, revoked, approved>> /\ tx' = [tx EXCEPT ![s] = new]
        BY <3>6 DEF InsertCase, historyVars
      <4>3. cases' = [cases EXCEPT ![k] = [NoCase EXCEPT !.status = "initiated"]]
        BY <3>6 DEF InsertCase
      <4>4. [NoCase EXCEPT !.status = "initiated"].settlement = "none"
        BY DEF NoCase
      <4>5. \A j \in Cases : cases'[j].settlement \in {"none", cases[j].settlement}
        BY <2>0, <4>3, <4>4 DEF RowsTyped
      <4>6. Recorded'
        BY <4>2, <4>5 DEF GatesInv, Recorded, Done
      <4>7. new.pc = "checklist"
        OBVIOUS
      <4>8. SawGates(s)'
        BY <2>3, <4>2, <4>7
      <4>. QED  BY <2>2, <4>2, <4>6, <4>8 DEF GatesInv
    <3>7. CASE CreateTasks(s)
      <4>1. UNCHANGED <<cases, revoked, approved>> /\ tx' = [tx EXCEPT ![s] = NoTx]
        BY <3>7 DEF CreateTasks, Ends, historyVars
      <4>2. PICK n \in 0 .. 2 : tasks' = [tasks EXCEPT ![tx[s].saw[1]] = FirstTasks(n)]
        BY <3>7 DEF CreateTasks
      <4>3. \A k \in Cases : Done(k, "access_revocation")' => Done(k, "access_revocation")
        BY <2>0, <4>2 DEF RowsTyped, Done, FirstTasks, Tasks
      <4>4. Recorded'
        BY <4>1, <4>3 DEF GatesInv, Recorded
      <4>. QED  BY <2>2, <2>3, <4>1, <4>4 DEF GatesInv, NoTx
    <3>8. CASE CommitSettle(s)
      <4>1. Recorded' /\ approved \subseteq approved' /\ UNCHANGED revoked
        BY <3>8, SettleRecorded
      <4>2. tx' = [tx EXCEPT ![s] = NoTx]
        BY <3>8 DEF CommitSettle, Ends
      <4>. QED  BY <2>2, <2>3, <4>1, <4>2 DEF GatesInv, NoTx
    <3>. QED  BY <2>4, <3>1, <3>2, <3>3, <3>4, <3>5, <3>6, <3>7, <3>8 DEF Mutation, Finish
  <2>5. ASSUME NEW k \in Cases, NEW t \in Tasks, NEW to \in {"open", "completed"},
               SetTask(k, t, to)
        PROVE  GatesInv'
    <3>1. revoked \subseteq revoked' /\ UNCHANGED <<cases, tx, approved>>
      BY <2>5 DEF SetTask
    <3>2. \A u \in Sessions : SawGates(u)'
      BY <3>1, SawStays DEF GatesInv
    <3>3. Recorded'
      BY <2>0, <2>5, <3>1 DEF SetTask, GatesInv, Recorded, Done, RowsTyped, Tasks
    <3>. QED  BY <3>2, <3>3 DEF GatesInv
  <2>6. CASE (Drain \/ SimulateFails \/ WriteBackFails \/ WorkerDies) \/ UNCHANGED vars
    <3>1. UNCHANGED <<cases, tasks, tx, revoked, approved>>
      BY <2>6, DrainTyped DEF IInv, vars, caseVars, historyVars
    <3>2. \A u \in Sessions : SawGates(u)'
      BY <3>1, SawStays DEF GatesInv
    <3>. QED  BY <2>1, <3>1, <3>2 DEF GatesInv
  <2>. QED  BY <2>4, <2>5, <2>6 DEF Next
<1>. QED  BY <1>1, <1>2, TypeInvariant, PTL DEF Spec

-----------------------------------------------------------------------------
(* What has been reported to Workday                                       *)

Reported(k) == outbox[Terminate(k)] # "none"
Settled(k) == cases[k].settlement \in {"approved", "paid"}
Closes(k) == cases[k].status = "completed" \/ ~Free(k)

ReportInv ==
    /\ \A e \in drain.rows : outbox[e] # "none"
    /\ \A k \in Cases : Reported(k) =>
        /\ k \in Opened /\ k \in revoked /\ k \in approved
        /\ ~stale => Settled(k)
        /\ (~stale /\ faults = 0) => Closes(k)

\* What a step has to leave, if nothing is reported by it.
LEMMA ReportStays ==
  ASSUME IInv, ReportInv,
         \A e \in drain'.rows : outbox'[e] # "none",
         \A k \in Cases : Reported(k)' => Reported(k),
         Opened \subseteq Opened', revoked \subseteq revoked', approved \subseteq approved',
         stale => stale', faults' = 0 => faults = 0,
         \A k \in Opened : Reported(k) /\ Settled(k) /\ ~stale' => Settled(k)',
         \A k \in Opened : Reported(k) /\ Closes(k) /\ ~stale' /\ faults' = 0 => Closes(k)'
  PROVE  ReportInv'
BY DEF ReportInv

\* A transaction that holds no case changes nobody's hold.
LEMMA FreeStays ==
  ASSUME IInv, NEW s \in Sessions, NEW new, tx' = [tx EXCEPT ![s] = new],
         NEW k, ~Holds(s, k), ~Free(k)
  PROVE  ~Free(k)'
<1>1. PICK u \in Sessions : Holds(u, k)
  BY DEF Free
<1>2. tx'[u] = tx[u]
  BY <1>1 DEF IInv, TypeInv
<1>3. Holds(u, k)'
  BY <1>1, <1>2 DEF Holds, At
<1>. QED  BY <1>3 DEF Free

\* The termination that advanceOffboardingCase enqueues has been cleared, and its case is
\* held until it is completed.
LEMMA TerminateReported ==
  ASSUME IInv, GatesInv, ReportInv, NEW s \in Sessions, EnqueueTerminate(s)
  PROVE  ReportInv'
<1> DEFINE req == tx[s].req
           k == req.k
<1>1. /\ At(s, "begun", "advance") /\ req.to = "completed"
      /\ Enqueue(Terminate(k)) \/ (Fault /\ UNCHANGED outbox)
      /\ WritesOnRead(s)
      /\ tx' = [tx EXCEPT ![s].pc = "enqueued"]
      /\ UNCHANGED <<cases, tasks, drain, revoked, approved>>
  BY DEF EnqueueTerminate, caseVars
<1>2. k \in Opened /\ k \in Cases
  BY <1>1 DEF IInv, TypeInv, Placed, Asks, At, Opened
<1>3. k \in revoked /\ k \in approved /\ tx[s].saw[2] = TRUE
  BY <1>1 DEF GatesInv, SawGates
<1>4. ~stale' => ~stale /\ Reads(req) = tx[s].saw
  BY <1>1 DEF WritesOnRead
<1>5. ~stale' => Settled(k)
  <2>1. SUFFICES ASSUME ~stale'
                 PROVE  Cleared(k)
    BY DEF Cleared, Settled
  <2>2. Reads(req)[2] = TRUE
    BY <1>3, <1>4, <2>1
  <2>3. Reads(req) = <<cases[k].status, req.to = "completed" => Cleared(k)>>
    BY <1>1 DEF Reads, At
  <2>4. ASSUME ~Cleared(k)
        PROVE  FALSE
    <3>1. (req.to = "completed" => Cleared(k)) = FALSE
      BY <1>1, <2>4
    <3>2. Reads(req) = <<cases[k].status, FALSE>>
      BY <2>3, <3>1
    <3>. QED  BY <2>2, <3>2
  <2>. QED  BY <2>4
<1>6. Opened' = Opened /\ \A j \in Cases : Settled(j)' = Settled(j)
  BY <1>1 DEF Opened, Settled
<1>7. ~Free(k)'
  <2>1. Holds(s, k)'
    BY <1>1 DEF Holds, At, IInv, TypeInv, Placed
  <2>. QED  BY <2>1 DEF Free
<1>8. tx' = [tx EXCEPT ![s] = [tx[s] EXCEPT !.pc = "enqueued"]]
  BY <1>1
<1>9. \A j \in Cases : Closes(j) => Closes(j)'
  BY <1>1, <1>8, FreeStays DEF Closes, Holds, At
<1>10. faults' = 0 => faults = 0
  BY <1>1, EmploymentAssumption DEF EnqueueTerminate, Fault, IInv, TypeInv, TypeOK
<1>11. /\ \A j \in Cases \ {k} : Reported(j)' => Reported(j)
       /\ \A e \in drain'.rows : outbox'[e] # "none"
  <2>1. CASE Enqueue(Terminate(k))
    <3>1. /\ Terminate(k) \in Events /\ RowsTyped
          /\ \A j \in Cases \ {k} : Terminate(j) \in Events \ {Terminate(k)}
      BY <1>2, TypeParts DEF Events, Terminate, IInv, TypeInv
    <3>2. /\ outbox'[Terminate(k)] # "none"
          /\ \A f \in Events \ {Terminate(k)} : outbox'[f] = outbox[f]
      BY <2>1, <3>1, EnqueueTyped
    <3>3. drain.rows \subseteq Events
      BY <3>1 DEF RowsTyped
    <3>. QED  BY <1>1, <3>1, <3>2, <3>3 DEF Reported, ReportInv
  <2>2. CASE UNCHANGED outbox
    BY <1>1, <2>2 DEF Reported, ReportInv
  <2>. QED  BY <1>1, <2>1, <2>2
<1>12. ASSUME NEW j \in Cases, Reported(j)'
       PROVE  /\ j \in Opened' /\ j \in revoked' /\ j \in approved'
              /\ ~stale' => Settled(j)'
              /\ (~stale' /\ faults' = 0) => Closes(j)'
  <2>1. CASE j = k
    BY <1>1, <1>2, <1>3, <1>5, <1>6, <1>7, <2>1 DEF Closes
  <2>2. CASE j # k
    <3>1. Reported(j)
      BY <1>11, <1>12, <2>2
    <3>. QED  BY <1>1, <1>4, <1>6, <1>9, <1>10, <3>1 DEF ReportInv
  <2>. QED  BY <2>1, <2>2
<1>. QED  BY <1>11, <1>12 DEF ReportInv

\* A move of a case, done on a fresh read, does not reopen a completed departure
\* (advanceOffboardingCase).
LEMMA AdvanceReported ==
  ASSUME IInv, GatesInv, ReportInv, NEW s \in Sessions, CommitAdvance(s)
  PROVE  ReportInv'
<1> DEFINE req == tx[s].req
           k == req.k
<1>1. /\ cases' = [cases EXCEPT ![k].status = req.to]
      /\ tx' = [tx EXCEPT ![s] = NoTx]
      /\ UNCHANGED <<outbox, drain, revoked, approved, faults>>
  BY DEF CommitAdvance, Ends
<1>2. RowsTyped /\ k \in Opened /\ k \in Cases /\ req.to # "none"
  BY TypeParts DEF CommitAdvance, At, IInv, TypeInv, Placed, Asks, Opened
<1>3. /\ \A j \in Cases : cases'[j].settlement = cases[j].settlement
      /\ \A j \in Cases \ {k} : cases'[j].status = cases[j].status
      /\ cases'[k].status = req.to
  BY <1>1, <1>2 DEF RowsTyped, CaseRows
<1>4. Opened' = Opened
  BY <1>2, <1>3 DEF Opened
<1>5. stale => stale'
  BY DEF CommitAdvance, WritesOnRead
<1>6. ASSUME NEW j \in Opened, Closes(j), ~stale'
      PROVE  Closes(j)'
  <2>0. j \in Cases
    BY DEF Opened
  <2>1. CASE j # k
    <3>1. ~Holds(s, j)
      BY <2>1 DEF Holds
    <3>. QED  BY <1>1, <1>3, <1>6, <2>0, <2>1, <3>1, FreeStays DEF Closes
  <2>2. CASE j = k /\ At(s, "enqueued", "advance")
    <3>1. req.to = "completed"
      BY <2>2 DEF GatesInv, SawGates
    <3>. QED  BY <1>3, <2>2, <3>1 DEF Closes
  <2>3. CASE j = k /\ ~At(s, "enqueued", "advance")
    <3>1. At(s, "begun", "advance") /\ Free(k) /\ WritesOnRead(s)
      BY <2>3 DEF CommitAdvance
    <3>2. cases[k].status = "completed"
      BY <1>6, <2>3, <3>1 DEF Closes
    <3>3. Reads(req)[1] = tx[s].saw[1]
      BY <1>6, <3>1 DEF WritesOnRead
    <3>4. tx[s].saw[1] = "completed"
      BY <3>1, <3>2, <3>3 DEF Reads, At
    <3>5. <<tx[s].saw[1], req.to>> \in CaseSteps
      BY <3>1 DEF GatesInv, SawGates
    <3>. QED  BY <3>4, <3>5 DEF CaseSteps
  <2>. QED  BY <2>1, <2>2, <2>3
<1>7. \A j \in Opened : Settled(j) => Settled(j)'
  BY <1>3 DEF Settled, Opened
<1>8. /\ \A e \in drain'.rows : outbox'[e] # "none"
      /\ \A j \in Cases : Reported(j)' => Reported(j)
  BY <1>1 DEF ReportInv, Reported
<1>. QED  BY <1>1, <1>4, <1>5, <1>6, <1>7, <1>8, ReportStays

\* A walk of the settlement, done on a fresh read, leaves an approved one approved or paid
\* (updateFinalSettlement).
LEMMA SettleReported ==
  ASSUME IInv, GatesInv, ReportInv, NEW s \in Sessions, CommitSettle(s)
  PROVE  ReportInv'
<1> DEFINE req == tx[s].req
           k == req.k
           was == IF tx[s].saw[1] = "none" THEN "pending" ELSE tx[s].saw[1]
<1>1. /\ At(s, "begun", "settle") /\ WritesOnRead(s)
      /\ cases' = [cases EXCEPT ![k].settlement =
                      IF req.to = was /\ @ # "none" THEN @ ELSE req.to]
      /\ tx' = [tx EXCEPT ![s] = NoTx]
      /\ UNCHANGED <<outbox, drain, revoked, faults>>
  BY DEF CommitSettle, Ends
<1>2. RowsTyped /\ k \in Cases /\ approved \subseteq approved'
  BY SettleRecorded, TypeParts DEF IInv, TypeInv
<1>3. /\ \A j \in Cases : cases'[j].status = cases[j].status
      /\ \A j \in Cases \ {k} : cases'[j].settlement = cases[j].settlement
      /\ cases'[k].settlement \in {cases[k].settlement, req.to}
  BY <1>1, <1>2 DEF RowsTyped, CaseRows
<1>4. Opened' = Opened
  BY <1>3 DEF Opened
<1>5. stale => stale'
  BY <1>1 DEF WritesOnRead
<1>6. ASSUME NEW j \in Opened, Settled(j), ~stale'
      PROVE  Settled(j)'
  <2>1. CASE j # k
    BY <1>3, <1>6, <2>1 DEF Settled, Opened
  <2>2. CASE j = k
    <3>1. Reads(req)[1] = tx[s].saw[1]
      BY <1>1, <1>6 DEF WritesOnRead
    <3>2. tx[s].saw[1] = cases[k].settlement
      BY <1>1, <3>1 DEF Reads, At
    <3>3. <<was, req.to>> \in SettlementSteps \/ (req.to = was /\ req.to # "paid")
      BY <1>1 DEF GatesInv, SawGates
    <3>4. was \in {"approved", "paid"}
      BY <1>6, <2>2, <3>2 DEF Settled
    <3>5. req.to \in {"approved", "paid"}
      BY <3>3, <3>4 DEF SettlementSteps
    <3>. QED  BY <1>3, <1>6, <2>2, <3>5 DEF Settled
  <2>. QED  BY <2>1, <2>2
<1>7. \A j \in Cases : ~Holds(s, j)
  BY <1>1 DEF Holds, At
<1>8. \A j \in Opened : Closes(j) => Closes(j)'
  BY <1>1, <1>3, <1>7, FreeStays DEF Closes, Opened
<1>9. /\ \A e \in drain'.rows : outbox'[e] # "none"
      /\ \A j \in Cases : Reported(j)' => Reported(j)
  BY <1>1 DEF ReportInv, Reported
<1>. QED  BY <1>1, <1>2, <1>4, <1>5, <1>6, <1>8, <1>9, ReportStays

\* A new case is not one that has been reported (createOffboardingCase).
LEMMA InsertReported ==
  ASSUME IInv, ReportInv, NEW s \in Sessions, InsertCase(s)
  PROVE  ReportInv'
<1> DEFINE k == Cardinality(Opened) + 1
<1>1. /\ At(s, "begun", "initiate") /\ Opened # Cases
      /\ cases' = [cases EXCEPT ![k] = [NoCase EXCEPT !.status = "initiated"]]
      /\ tx' = [tx EXCEPT ![s] = [pc |-> "checklist", req |-> @.req, saw |-> <<k>>]]
      /\ UNCHANGED <<outbox, drain, revoked, approved, stale, faults>>
  BY DEF InsertCase, historyVars
<1>2. k \in Cases \ Opened /\ RowsTyped
  BY <1>1, InsertsNext, TypeParts DEF IInv, TypeInv
<1>3. \A j \in Opened : cases'[j] = cases[j]
  BY <1>1, <1>2 DEF RowsTyped, Opened
<1>4. Opened \subseteq Opened'
  BY <1>3 DEF Opened
<1>5. \A j \in Cases : ~Holds(s, j)
  BY <1>1 DEF Holds, At
<1>6. tx' = [tx EXCEPT ![s] = [pc |-> "checklist", req |-> tx[s].req, saw |-> <<k>>]]
  BY <1>1
<1>7. ASSUME NEW j \in Opened, ~Free(j)
      PROVE  ~Free(j)'
  BY <1>5, <1>6, <1>7, FreeStays DEF Opened
<1>8. \A j \in Opened : (Closes(j) => Closes(j)') /\ (Settled(j) => Settled(j)')
  BY <1>3, <1>7 DEF Closes, Settled
<1>9. /\ \A e \in drain'.rows : outbox'[e] # "none"
      /\ \A j \in Cases : Reported(j)' => Reported(j)
  BY <1>1 DEF ReportInv, Reported
<1>. QED  BY <1>1, <1>4, <1>8, <1>9, ReportStays

\* A mutation that leaves the offboarding cases alone, and reports nothing of them.
LEMMA QuietReported ==
  ASSUME IInv, ReportInv, NEW s \in Sessions,
         \/ Begin(s) \/ Abort(s) \/ RequestDies(s) \/ EnqueueHire(s)
         \/ CommitOnboard(s) \/ CreateTasks(s)
  PROVE  ReportInv'
<1>0. RowsTyped /\ faults \in Nat
  BY TypeParts, EmploymentAssumption DEF IInv, TypeInv, CountsTyped
<1>1. UNCHANGED <<cases, drain, revoked, approved>>
  BY DEF Begin, Abort, RequestDies, EnqueueHire, CommitOnboard, CreateTasks, caseVars,
         historyVars
<1>2. stale => stale'
  BY DEF Begin, Abort, RequestDies, EnqueueHire, CommitOnboard, CreateTasks, WritesOnRead,
         historyVars
<1>3. faults' = 0 => faults = 0
  BY <1>0 DEF Begin, Abort, RequestDies, EnqueueHire, CommitOnboard, CreateTasks, Fault
<1>4. /\ \A k \in Cases : Reported(k)' => Reported(k)
      /\ \A e \in drain'.rows : outbox'[e] # "none"
  <2>1. CASE EnqueueHire(s) /\ Enqueue(Hire)
    <3>1. Hire \in Events /\ \A k \in Cases : Terminate(k) \in Events \ {Hire}
      BY DEF Events, Hire, Terminate
    <3>2. outbox'[Hire] # "none" /\ \A f \in Events \ {Hire} : outbox'[f] = outbox[f]
      BY <1>0, <2>1, <3>1, EnqueueTyped
    <3>3. drain.rows \subseteq Events
      BY <1>0 DEF RowsTyped
    <3>. QED  BY <1>1, <3>1, <3>2, <3>3 DEF Reported, ReportInv
  <2>2. CASE UNCHANGED outbox
    BY <1>1, <2>2 DEF Reported, ReportInv
  <2>. QED  BY <2>1, <2>2
            DEF Begin, Abort, RequestDies, EnqueueHire, CommitOnboard, CreateTasks
<1>5. Opened' = Opened /\ \A k \in Opened : Settled(k) => Settled(k)'
  BY <1>1 DEF Opened, Settled
<1>6. CASE RequestDies(s)
  <2>1. faults' # 0
    BY <1>0, <1>6 DEF RequestDies, Fault
  <2>. QED  BY <1>1, <1>2, <1>3, <1>4, <1>5, <2>1, ReportStays
<1>7. CASE ~RequestDies(s)
  <2>1. \A k \in Cases : ~Holds(s, k)
    BY <1>7 DEF Begin, Abort, EnqueueHire, CommitOnboard, CreateTasks, HoldsOnboarding, Holds,
                At, NoTx
  <2>2. PICK new : tx' = [tx EXCEPT ![s] = new]
    <3>1. CASE EnqueueHire(s)
      <4>1. tx' = [tx EXCEPT ![s] = [tx[s] EXCEPT !.pc = "enqueued"]]
        BY <3>1 DEF EnqueueHire
      <4>. QED  BY <4>1
    <3>2. CASE Begin(s)
      BY <3>2 DEF Begin
    <3>3. CASE Abort(s) \/ CommitOnboard(s) \/ CreateTasks(s)
      BY <3>3 DEF Abort, CommitOnboard, CreateTasks, Ends
    <3>. QED  BY <1>7, <3>1, <3>2, <3>3
  <2>3. \A k \in Opened : Closes(k) => Closes(k)'
    BY <1>1, <2>1, <2>2, FreeStays DEF Closes, Opened
  <2>. QED  BY <1>1, <1>2, <1>3, <1>4, <1>5, <2>3, ReportStays
<1>. QED  BY <1>6, <1>7

\* The drain moves rows that are there already (drainWorkdayOutboxOnce).
LEMMA DrainReported ==
  ASSUME IInv, ReportInv, Drain \/ SimulateFails \/ WriteBackFails \/ WorkerDies
  PROVE  ReportInv'
<1>0. RowsTyped /\ faults \in Nat /\ \A k \in Cases : Terminate(k) \in Events
  BY TypeParts, EmploymentAssumption DEF IInv, TypeInv, CountsTyped, Events
<1>1. UNCHANGED <<cases, tx, revoked, approved, stale>>
  BY DrainTyped DEF IInv
<1>2. /\ \A e \in drain'.rows : outbox'[e] # "none"
      /\ \A e \in Events : outbox'[e] # "none" => outbox[e] # "none"
  <2>1. CASE Claim
    <3>1. DEFINE rows == {e \in Events : outbox[e] = "pending"}
    <3>2. /\ outbox' = [e \in Events |-> IF e \in rows THEN "processing" ELSE outbox[e]]
          /\ drain'.rows = rows
      BY <1>0, <2>1 DEF Claim, RowsTyped
    <3>. QED  BY <3>2
  <2>2. CASE Simulate
    <3>1. PICK e \in drain.rows :
            /\ outbox' = [outbox EXCEPT ![e] = "simulated"]
            /\ drain' = [rows |-> drain.rows \ {e}, link |-> e = Hire]
      BY <2>2 DEF Simulate
    <3>2. drain'.rows = drain.rows \ {e}
      BY <3>1
    <3>. QED  BY <1>0, <3>1, <3>2 DEF ReportInv, RowsTyped
  <2>3. CASE SimulateFails
    <3>1. PICK e \in drain.rows :
            /\ outbox' = [outbox EXCEPT ![e] = "failed"]
            /\ drain' = [drain EXCEPT !.rows = @ \ {e}]
      BY <2>3 DEF SimulateFails
    <3>2. drain'.rows = drain.rows \ {e}
      BY <1>0, <3>1 DEF RowsTyped
    <3>. QED  BY <1>0, <3>1, <3>2 DEF ReportInv, RowsTyped
  <2>4. CASE WriteBack \/ WriteBackFails \/ WorkerDies
    <3>1. UNCHANGED outbox /\ drain'.rows \subseteq drain.rows
      BY <1>0, <2>4 DEF WriteBack, WriteBackFails, WorkerDies, RowsTyped
    <3>. QED  BY <3>1 DEF ReportInv
  <2>. QED  BY <2>1, <2>2, <2>3, <2>4 DEF Drain
<1>3. faults' = 0 => faults = 0
  BY <1>0 DEF Drain, Claim, Simulate, WriteBack, SimulateFails, WriteBackFails, WorkerDies, Fault
<1>4. Opened' = Opened /\ \A k \in Opened : (Settled(k) => Settled(k)') /\ (Closes(k) => Closes(k)')
  BY <1>1 DEF Opened, Settled, Closes, Free, Holds, At
<1>. QED  BY <1>0, <1>1, <1>2, <1>3, <1>4, ReportStays DEF Reported

\* What is reported to Workday has been cleared, and its case is on its way to completion.
LEMMA ReportInvariant == Spec => []ReportInv
<1>1. Init => ReportInv
  BY DEF Init, ReportInv, Reported, Events
<1>2. IInv /\ GatesInv /\ ReportInv /\ [Next]_vars => ReportInv'
  <2> SUFFICES ASSUME IInv, GatesInv, ReportInv, [Next]_vars
               PROVE  ReportInv'
    OBVIOUS
  <2>1. ASSUME NEW s \in Sessions, Mutation(s)
        PROVE  ReportInv'
    BY <2>1, QuietReported, TerminateReported, AdvanceReported, SettleReported, InsertReported
       DEF Mutation, Finish
  <2>2. ASSUME NEW k \in Cases, NEW t \in Tasks, NEW to \in {"open", "completed"},
               SetTask(k, t, to)
        PROVE  ReportInv'
    <3>1. /\ UNCHANGED <<cases, outbox, drain, tx, approved, stale, faults>>
          /\ revoked \subseteq revoked'
      BY <2>2 DEF SetTask
    <3>2. /\ Opened' = Opened
          /\ \A j \in Opened : (Settled(j) => Settled(j)') /\ (Closes(j) => Closes(j)')
      BY <3>1 DEF Opened, Settled, Closes, Free, Holds, At
    <3>. QED  BY <3>1, <3>2, ReportStays DEF Reported, ReportInv
  <2>3. CASE Drain \/ SimulateFails \/ WriteBackFails \/ WorkerDies
    BY <2>3, DrainReported
  <2>4. CASE UNCHANGED vars
    <3>1. UNCHANGED <<cases, outbox, drain, tx, revoked, approved, stale, faults>>
      BY <2>4 DEF vars, caseVars, historyVars
    <3>2. /\ Opened' = Opened
          /\ \A j \in Opened : (Settled(j) => Settled(j)') /\ (Closes(j) => Closes(j)')
      BY <3>1 DEF Opened, Settled, Closes, Free, Holds, At
    <3>. QED  BY <3>1, <3>2, ReportStays DEF Reported, ReportInv
  <2>. QED  BY <2>1, <2>2, <2>3, <2>4 DEF Next
<1>. QED  BY <1>1, <1>2, TypeInvariant, GatesInvariant, PTL DEF Spec

\* For any number of mutations, cases and failures: nobody is reported to Workday as
\* terminated before access has been revoked and the settlement approved, and as long as
\* nobody writes on a stale read the settlement still is (advanceOffboardingCase and
\* updateFinalSettlement).
THEOREM ReportedAsCleared == Spec => []TerminatedWasCleared
<1>1. ReportInv => TerminatedWasCleared
  BY DEF ReportInv, TerminatedWasCleared, Reported, Settled
<1>. QED  BY <1>1, ReportInvariant, PTL

\* As long as nothing fails and nobody writes on a stale read, the case of a person who has
\* been reported as terminated is completed, or held by the transaction that completes it
\* (advanceOffboardingCase, enqueueTerminateWorkday).
THEOREM ReportStands == Spec => []TerminationStands
<1>1. ReportInv => TerminationStands
  BY DEF ReportInv, TerminationStands, Reported, Closes
<1>. QED  BY <1>1, ReportInvariant, PTL

-----------------------------------------------------------------------------
(* The worker id of a hire                                                 *)

HireSent == outbox[Hire] # "none"
Carried ==
    \/ onboarding.linked
    \/ outbox[Hire] = "pending" \/ Hire \in drain.rows \/ drain.link

\* A transaction that takes the case to day zero, or that found it there.
MovesOn(s) ==
    \/ HoldsOnboarding(s)
    \/ At(s, "begun", "onboard") /\ tx[s].req.to \in {"in_progress", "completed"}

\* Nobody finds a case at day zero, or takes it there, before the event has been
\* enqueued; and an event that has been enqueued is not lost.
HireInv ==
    faults = 0 =>
        /\ HireSent => Carried
        /\ onboarding.status \in {"day_zero", "in_progress", "completed"} => HireSent
        /\ \A s \in Sessions : MovesOn(s) => HireSent

\* A step that neither writes the hire event nor links the case.
LEMMA HireStays ==
  ASSUME HireInv, faults' = 0 => faults = 0,
         UNCHANGED <<outbox, drain>> \/ (UNCHANGED drain /\ outbox'[Hire] = outbox[Hire]),
         onboarding'.linked = onboarding.linked,
         faults' = 0 /\ onboarding'.status \in {"day_zero", "in_progress", "completed"}
            => HireSent,
         \A s \in Sessions : faults' = 0 /\ MovesOn(s)' => HireSent
  PROVE  HireInv'
BY DEF HireInv, HireSent, Carried

\* A mutation that ends, or of something else, lets nobody move on.
LEMMA OnlyEnds ==
  ASSUME TypeInv, NEW s \in Sessions, NEW new, tx' = [tx EXCEPT ![s] = new],
         ~(new.pc \in {"begun", "enqueued"} /\ new.req.op = "onboard")
  PROVE  \A u \in Sessions : MovesOn(u)' => MovesOn(u)
<1>1. tx'[s] = new /\ \A u \in Sessions \ {s} : tx'[u] = tx[u]
  BY DEF TypeInv
<1>. QED  BY <1>1 DEF MovesOn, HoldsOnboarding, At

\* The mutations of the onboarding case (updateOnboardingCase): the event goes first.
LEMMA OnboardHires ==
  ASSUME IInv, HireInv, NEW s \in Sessions, EnqueueHire(s) \/ CommitOnboard(s)
  PROVE  HireInv'
<1>0. RowsTyped /\ faults \in Nat /\ Hire \in Events /\ TypeInv
  BY TypeParts, EmploymentAssumption DEF IInv, TypeInv, CountsTyped, Events
<1>1. CASE EnqueueHire(s) /\ Enqueue(Hire)
  <2>1. outbox'[Hire] = IF outbox[Hire] = "none" THEN "pending" ELSE outbox[Hire]
    BY <1>0, <1>1 DEF Enqueue, RowsTyped
  <2>2. UNCHANGED <<onboarding, drain>>
    BY <1>1 DEF EnqueueHire, caseVars
  <2>3. faults' = 0 => faults = 0
    BY <1>0, <1>1 DEF EnqueueHire, Fault
  <2>. QED  BY <2>1, <2>2, <2>3 DEF HireInv, HireSent, Carried
<1>2. CASE EnqueueHire(s) /\ Fault
  BY <1>0, <1>2 DEF Fault, HireInv
<1>3. CASE CommitOnboard(s)
  <2>1. /\ onboarding' = [onboarding EXCEPT !.status = tx[s].req.to]
        /\ tx' = [tx EXCEPT ![s] = NoTx] /\ UNCHANGED <<outbox, drain, faults>>
    BY <1>3 DEF CommitOnboard, Ends
  <2>2. onboarding'.linked = onboarding.linked /\ onboarding'.status = tx[s].req.to
    BY <1>0, <2>1 DEF RowsTyped
  <2>3. tx[s].req.to \in {"day_zero", "in_progress", "completed"} => MovesOn(s)
    BY <1>3 DEF CommitOnboard, MovesOn
  <2>4. \A u \in Sessions : MovesOn(u)' => MovesOn(u)
    BY <1>0, <2>1, OnlyEnds DEF NoTx
  <2>. QED  BY <2>1, <2>2, <2>3, <2>4, HireStays DEF HireInv
<1>. QED  BY <1>1, <1>2, <1>3 DEF EnqueueHire

\* A mutation that begins has found the case where it is (ALLOWED_CASE_TRANSITIONS).
LEMMA BeginHires ==
  ASSUME IInv, HireInv, NEW s \in Sessions, Begin(s)
  PROVE  HireInv'
<1>1. PICK req \in Requests :
        Passes(req) /\ tx' = [tx EXCEPT ![s] = [pc |-> "begun", req |-> req, saw |-> Reads(req)]]
  BY DEF Begin
<1>2. UNCHANGED <<onboarding, outbox, drain, faults>>
  BY DEF Begin, caseVars
<1>3. /\ tx'[s] = [pc |-> "begun", req |-> req, saw |-> Reads(req)]
      /\ \A u \in Sessions \ {s} : tx'[u] = tx[u]
  BY <1>1 DEF IInv, TypeInv
<1>4. MovesOn(s)' => onboarding.status \in {"day_zero", "in_progress"}
  <2> SUFFICES ASSUME MovesOn(s)'
               PROVE  onboarding.status \in {"day_zero", "in_progress"}
    OBVIOUS
  <2>1. req.op = "onboard" /\ req.to \in {"in_progress", "completed"}
    BY <1>3 DEF MovesOn, HoldsOnboarding, At
  <2>2. <<onboarding.status, req.to>> \in OnboardingSteps
    BY <1>1, <2>1 DEF Passes
  <2>. QED  BY <2>1, <2>2 DEF OnboardingSteps
<1>5. \A u \in Sessions \ {s} : MovesOn(u)' => MovesOn(u)
  BY <1>3 DEF MovesOn, HoldsOnboarding, At
<1>. QED  BY <1>2, <1>4, <1>5, HireStays DEF HireInv

\* Any other mutation leaves the event, the case and those who move it alone.
LEMMA OtherHires ==
  ASSUME IInv, HireInv, NEW s \in Sessions,
         \/ Abort(s) \/ RequestDies(s) \/ EnqueueTerminate(s) \/ CommitAdvance(s)
         \/ InsertCase(s) \/ CreateTasks(s) \/ CommitSettle(s)
  PROVE  HireInv'
<1>0. RowsTyped /\ faults \in Nat /\ Hire \in Events /\ TypeInv
  BY TypeParts, EmploymentAssumption DEF IInv, TypeInv, CountsTyped, Events
<1>1. UNCHANGED <<onboarding, drain>>
  BY DEF Abort, RequestDies, EnqueueTerminate, CommitAdvance, InsertCase, CreateTasks,
         CommitSettle, caseVars
<1>2. outbox'[Hire] = outbox[Hire]
  <2>1. CASE EnqueueTerminate(s)
    <3>1. Terminate(tx[s].req.k) # Hire
      BY <1>0, <2>1 DEF EnqueueTerminate, At, Placed, TypeInv, Asks, Opened, Cases, Terminate, Hire
    <3>. QED  BY <1>0, <2>1, <3>1 DEF EnqueueTerminate, Enqueue, RowsTyped
  <2>2. CASE ~EnqueueTerminate(s)
    BY <2>2 DEF Abort, RequestDies, CommitAdvance, InsertCase, CreateTasks, CommitSettle
  <2>. QED  BY <2>1, <2>2
<1>3. faults' = 0 => faults = 0
  <2>1. CASE UNCHANGED faults
    BY <2>1
  <2>2. CASE Fault
    BY <1>0, <2>2 DEF Fault
  <2>3. CASE Abort(s) \/ CommitAdvance(s) \/ InsertCase(s) \/ CommitSettle(s)
    BY <2>1, <2>3 DEF Abort, CommitAdvance, InsertCase, CommitSettle
  <2>4. CASE RequestDies(s) \/ EnqueueTerminate(s) \/ CreateTasks(s)
    BY <2>1, <2>2, <2>4 DEF RequestDies, EnqueueTerminate, CreateTasks
  <2>. QED  BY <2>3, <2>4
<1>4. \A u \in Sessions : MovesOn(u)' => MovesOn(u)
  <2>1. CASE Abort(s) \/ RequestDies(s) \/ CommitAdvance(s) \/ CreateTasks(s) \/ CommitSettle(s)
    <3>1. tx' = [tx EXCEPT ![s] = NoTx]
      BY <2>1 DEF Abort, RequestDies, CommitAdvance, CreateTasks, CommitSettle, Ends
    <3>. QED  BY <1>0, <3>1, OnlyEnds DEF NoTx
  <2>2. CASE EnqueueTerminate(s)
    <3>1. tx' = [tx EXCEPT ![s] = [tx[s] EXCEPT !.pc = "enqueued"]]
      BY <2>2 DEF EnqueueTerminate
    <3>2. [tx[s] EXCEPT !.pc = "enqueued"].req.op = "advance"
      BY <1>0, <2>2 DEF EnqueueTerminate, At, TypeInv, Placed
    <3>. QED  BY <1>0, <3>1, <3>2, OnlyEnds
  <2>3. CASE InsertCase(s)
    <3>1. PICK k : tx' = [tx EXCEPT ![s] =
                              [pc |-> "checklist", req |-> tx[s].req, saw |-> <<k>>]]
      BY <2>3 DEF InsertCase
    <3>. QED  BY <1>0, <3>1, OnlyEnds
  <2>. QED  BY <2>1, <2>2, <2>3
<1>. QED  BY <1>0, <1>1, <1>2, <1>3, <1>4, HireStays DEF HireInv

\* The drain carries the event from the queue to the case (drainWorkdayOutboxOnce,
\* writeBackWorkerIdForCase).
LEMMA DrainHires ==
  ASSUME IInv, HireInv, Drain \/ SimulateFails \/ WriteBackFails \/ WorkerDies
  PROVE  HireInv'
<1>0. RowsTyped /\ faults \in Nat /\ Hire \in Events /\ TypeInv
  BY TypeParts, EmploymentAssumption DEF IInv, TypeInv, CountsTyped, Events
<1>1. CASE SimulateFails \/ WriteBackFails \/ WorkerDies
  BY <1>0, <1>1 DEF SimulateFails, WriteBackFails, WorkerDies, Fault, HireInv
<1>2. CASE Drain
  <2>1. UNCHANGED <<tx, faults>> /\ onboarding'.status = onboarding.status
    BY <1>0, <1>2 DEF Drain, Claim, Simulate, WriteBack, Links, caseVars, RowsTyped
  <2>2. /\ HireSent => HireSent'
        /\ (HireSent => Carried) => (HireSent' => Carried')
    <3>1. CASE Claim
      <4>. DEFINE rows == {e \in Events : outbox[e] = "pending"}
      <4>1. /\ outbox' = [e \in Events |-> IF e \in rows THEN "processing" ELSE outbox[e]]
            /\ drain'.rows = rows /\ drain.rows = {} /\ ~drain.link /\ UNCHANGED onboarding
        BY <1>0, <3>1 DEF Claim, RowsTyped, caseVars
      <4>. QED  BY <1>0, <4>1 DEF HireSent, Carried
    <3>2. CASE Simulate
      <4>1. PICK e \in drain.rows :
              /\ outbox' = [outbox EXCEPT ![e] = "simulated"]
              /\ drain' = [rows |-> drain.rows \ {e}, link |-> e = Hire]
        BY <3>2 DEF Simulate
      <4>2. drain'.rows = drain.rows \ {e} /\ (drain'.link <=> e = Hire) /\ ~drain.link
        BY <3>2, <4>1 DEF Simulate
      <4>3. /\ e # Hire => outbox'[Hire] = outbox[Hire]
            /\ e = Hire => outbox'[Hire] = "simulated"
            /\ UNCHANGED onboarding
        BY <1>0, <3>2, <4>1 DEF RowsTyped, Simulate, caseVars
      <4>. QED  BY <4>2, <4>3 DEF HireSent, Carried
    <3>3. CASE WriteBack
      BY <1>0, <3>3 DEF WriteBack, Links, HireSent, Carried, RowsTyped
    <3>. QED  BY <1>2, <3>1, <3>2, <3>3 DEF Drain
  <2>3. \A s \in Sessions : MovesOn(s)' => MovesOn(s)
    BY <2>1 DEF MovesOn, HoldsOnboarding, At
  <2>. QED  BY <2>1, <2>2, <2>3 DEF HireInv
<1>. QED  BY <1>1, <1>2

\* Whatever order the event, its simulation and the move of the case come in, a case that
\* has reached day zero has its worker id or is on the way to it, as long as nothing fails
\* (enqueueDayZeroWorkdayHire, writeBackWorkerIdForCase).
THEOREM HireIsNotLost == Spec => []HireIsUnderWay
<1>1. Init => HireInv
  BY DEF Init, HireInv, HireSent, MovesOn, HoldsOnboarding, At, NoTx, Events
<1>2. IInv /\ HireInv /\ [Next]_vars => HireInv'
  <2> SUFFICES ASSUME IInv, HireInv, [Next]_vars
               PROVE  HireInv'
    OBVIOUS
  <2>1. ASSUME NEW s \in Sessions, Mutation(s)
        PROVE  HireInv'
    BY <2>1, OnboardHires, BeginHires, OtherHires DEF Mutation, Finish
  <2>2. ASSUME NEW k \in Cases, NEW t \in Tasks, NEW to \in {"open", "completed"},
               SetTask(k, t, to)
        PROVE  HireInv'
    BY <2>2 DEF SetTask, HireInv, HireSent, Carried, MovesOn, HoldsOnboarding, At
  <2>3. CASE Drain \/ SimulateFails \/ WriteBackFails \/ WorkerDies
    BY <2>3, DrainHires
  <2>4. CASE UNCHANGED vars
    BY <2>4 DEF vars, caseVars, HireInv, HireSent, Carried, MovesOn, HoldsOnboarding, At
  <2>. QED  BY <2>1, <2>2, <2>3, <2>4 DEF Next
<1>3. HireInv => HireIsUnderWay
  BY DEF HireInv, HireIsUnderWay, Carried
<1>. QED  BY <1>1, <1>2, <1>3, TypeInvariant, PTL DEF Spec

=============================================================================
