--------------------------- MODULE OfferLifecycle ---------------------------
(***************************************************************************)
(* The offers of one application, from draft to hire.                      *)
(*                                                                         *)
(* Recruiters draft, extend and cancel offers, raise and decide approvals  *)
(* of offers above the compensation band, assess the HR round and move the *)
(* application along its pipeline (apps/api/src/trpc/router.ts).  The      *)
(* candidate accepts by signed link or in the portal, or declines          *)
(* (apps/api/src/routes/offers.ts, lib/offer-accept.ts); an acceptance     *)
(* accrues the partner's fee, queues the Workday hire and opens the        *)
(* onboarding case (lib/onboarding-case.ts).                               *)
(*                                                                         *)
(* A recruiter's mutation is one READ COMMITTED transaction that reads and *)
(* checks without locks and then writes by id: Begin* is its reads, Commit *)
(* its writes, and others may commit in between.  The candidate's requests *)
(* run on the pool, one statement at a time, each an action.               *)
(***************************************************************************)
EXTENDS Naturals, Sequences

CONSTANTS
    Offers,         \* offer rows of the application
    OverBand,       \* the offers whose base exceeds the role's band
    Staff,          \* recruiters' requests that may be under way at a time
    Clicks,         \* candidate's requests that may be under way at a time
    Targets,        \* stages recruiters move the application to
    Advice,         \* recommendations HR saves, of hold and proceed
    MaxRequests,    \* bound: approval requests per offer
    MaxFaults       \* bound: requests that die, side effects that fail

ASSUME OfferAssumption ==
    /\ OverBand \subseteq Offers
    /\ "none" \notin Offers
    /\ Advice \subseteq {"hold", "proceed"}
    /\ MaxRequests \in Nat
    /\ MaxFaults \in Nat

VARIABLES
    offer,      \* offer[o]: status column, "absent" before the INSERT
    notified,   \* offers whose offer_extended notification row exists
    requests,   \* requests[o]: statuses of its approval_requests, oldest first
    stage,      \* applications.current_stage
    assessment, \* recommendation of the HR round assessment
    staff,      \* staff[s]: the mutation under way and what it has read
    click,      \* click[c]: program counter of the candidate's request
    fee,        \* the offer the partner's fee was computed from, or "none"
    hire,       \* the offer the queued Workday hire carries, or "none"
    onboarding, \* the onboarding case: "none", "bare" or with its "checklist"
    faults,     \* faults so far
    approved,   \* history: offers some approver has approved
    answers     \* history: answers[o], the candidate's answers that won

offerVars == <<offer, notified, requests, approved>>
stageVars == <<stage, assessment>>
hireVars == <<fee, hire, onboarding>>
vars == <<offerVars, stageVars, hireVars, staff, click, faults, answers>>

Stages == {"tech_interview", "hr_round", "offer_drafted", "offer_accepted",
           "offer_declined", "recruiter_rejected"}

ASSUME TargetsAssumption == Targets \subseteq Stages

\* OFFER_DRAFTABLE_STAGES, HR_ROUND_FORWARD_STAGES, HR_CASE_STAGES.
Draftable == {"hr_round", "offer_drafted"}
Forward == {"offer_drafted", "offer_accepted"}
HrCase == {"tech_interview", "hr_round", "offer_drafted", "offer_accepted"}

NoMutation == [op |-> "idle"]
NoClick == [pc |-> "idle"]

Init ==
    /\ offer = [o \in Offers |-> "absent"]
    /\ notified = {}
    /\ requests = [o \in Offers |-> <<>>]
    /\ stage = "tech_interview"
    /\ assessment = "none"
    /\ staff = [s \in Staff |-> NoMutation]
    /\ click = [c \in Clicks |-> NoClick]
    /\ fee = "none"
    /\ hire = "none"
    /\ onboarding = "none"
    /\ faults = 0
    /\ approved = {}
    /\ answers = [o \in Offers |-> 0]

-----------------------------------------------------------------------------
(* Recruiters: the skeleton of a mutation                                  *)

\* The reads and checks of a mutation; `seen` and `nth` are what it carries
\* to its writes.
BeginNth(s, op, o, seen, nth) ==
    /\ staff[s] = NoMutation
    /\ staff' = [staff EXCEPT ![s] = [op |-> op, offer |-> o, seen |-> seen, nth |-> nth]]
    /\ UNCHANGED <<offerVars, stageVars, hireVars, click, faults, answers>>

Begin(s, op, o, seen) == BeginNth(s, op, o, seen, 0)

\* The transaction of mutation op ends, and with it the request.
End(s, op) ==
    /\ staff[s].op = op
    /\ staff' = [staff EXCEPT ![s] = NoMutation]
    /\ UNCHANGED <<hireVars, click, faults, answers>>

\* A transaction that a unique index aborts, or whose request dies.
Abort(s) ==
    /\ staff[s] # NoMutation
    /\ End(s, staff[s].op)
    /\ UNCHANGED <<offerVars, stageVars>>

-----------------------------------------------------------------------------
(* Recruiters: offers                                                      *)

\* The row is a fresh one: no other request inserts it.
BeginDraft(s, o) ==
    /\ offer[o] = "absent"
    /\ \A t \in Staff : staff[t].op = "draft" => staff[t].offer # o
    /\ stage \in Draftable
    /\ Begin(s, "draft", o, "none")

CommitDraft(s) ==
    /\ End(s, "draft")
    /\ offer' = [offer EXCEPT ![staff[s].offer] = "drafted"]
    /\ UNCHANGED <<notified, requests, approved, stageVars>>

\* The latest approval request of the offer, "none" without one.
Latest(o) == IF requests[o] = <<>> THEN "none" ELSE requests[o][Len(requests[o])]

\* Faulty variant: a request is enough, whatever became of it.
BlockedUntilRequested(o) == o \in OverBand /\ Latest(o) = "none"

\* offerExtendBlockReason.
Blocked(o) == o \in OverBand /\ Latest(o) # "approved"

BeginExtend(s, o) ==
    /\ offer[o] = "drafted"
    /\ ~Blocked(o)
    /\ Begin(s, "extend", o, stage)

\* Faulty variant: no dedup key on the notification.
CommitExtendAgain(s) ==
    /\ End(s, "extend")
    /\ \A o \in Offers \ {staff[s].offer} : offer[o] # "extended"
    /\ offer' = [offer EXCEPT ![staff[s].offer] = "extended"]
    /\ notified' = notified \union {staff[s].offer}
    /\ stage' = IF staff[s].seen = "offer_drafted" THEN stage ELSE "offer_drafted"
    /\ UNCHANGED <<requests, approved, assessment>>

\* By id, whatever the status is by now; but a second extended offer, or a
\* second offer_extended:<id> notification, violates a unique index.
CommitExtend(s) ==
    /\ End(s, "extend")
    /\ \A o \in Offers \ {staff[s].offer} : offer[o] # "extended"
    /\ staff[s].offer \notin notified
    /\ offer' = [offer EXCEPT ![staff[s].offer] = "extended"]
    /\ notified' = notified \union {staff[s].offer}
    /\ stage' = IF staff[s].seen = "offer_drafted" THEN stage ELSE "offer_drafted"
    /\ UNCHANGED <<requests, approved, assessment>>

BeginCancel(s, o) ==
    /\ offer[o] \in {"drafted", "extended"}
    /\ Begin(s, "cancel", o, offer[o])

\* By id, whatever the status is by now.
CommitCancel(s) ==
    /\ End(s, "cancel")
    /\ offer' = [offer EXCEPT ![staff[s].offer] = "cancelled"]
    /\ stage' = IF staff[s].seen = "extended" THEN "hr_round" ELSE stage
    /\ UNCHANGED <<notified, requests, approved, assessment>>

-----------------------------------------------------------------------------
(* Recruiters: approval of offers above the band                           *)

BeginRequest(s, o) ==
    /\ offer[o] \in {"drafted", "extended"}
    /\ o \in OverBand
    /\ Latest(o) \notin {"pending", "approved"}
    /\ Len(requests[o]) < MaxRequests
    /\ Begin(s, "request", o, "none")

\* ON CONFLICT DO NOTHING on the one-pending-per-subject index.
CommitRequest(s) ==
    LET o == staff[s].offer IN
    /\ End(s, "request")
    /\ \/ /\ \A i \in DOMAIN requests[o] : requests[o][i] # "pending"
          /\ Len(requests[o]) < MaxRequests
          /\ requests' = [requests EXCEPT ![o] = Append(@, "pending")]
       \/ /\ \E i \in DOMAIN requests[o] : requests[o][i] = "pending"
          /\ UNCHANGED requests
    /\ UNCHANGED <<offer, notified, approved, stageVars>>

BeginDecide(s, o, i, decision) ==
    /\ i \in DOMAIN requests[o]
    /\ requests[o][i] = "pending"
    /\ BeginNth(s, decision, o, "none", i)

\* By id: a second decider overwrites the first.
CommitDecide(s, decision) ==
    LET o == staff[s].offer IN
    /\ End(s, decision)
    /\ requests' = [requests EXCEPT ![o][staff[s].nth] = decision]
    /\ approved' = IF decision = "approved" THEN approved \union {o} ELSE approved
    /\ UNCHANGED <<offer, notified, stageVars>>

-----------------------------------------------------------------------------
(* Recruiters: HR round and pipeline                                       *)

BeginAssess(s, recommendation) ==
    /\ stage \in HrCase
    /\ Begin(s, "assess", "none", recommendation)

CommitAssess(s) ==
    /\ End(s, "assess")
    /\ assessment' = staff[s].seen
    /\ UNCHANGED <<offerVars, stage>>

\* transitionApplicationStage: any stage but the current one; HROPS-01.
BeginMove(s, target) ==
    /\ stage # target
    /\ stage = "hr_round" /\ target \in Forward => assessment = "proceed"
    /\ Begin(s, "move", "none", target)

CommitMove(s) ==
    /\ End(s, "move")
    /\ stage' = staff[s].seen
    /\ UNCHANGED <<offerVars, assessment>>

-----------------------------------------------------------------------------
(* The candidate                                                           *)

At(c, pc) == click[c].pc = pc
Goto(c, pc) == click' = [click EXCEPT ![c].pc = pc]
Done(c) == click' = [click EXCEPT ![c] = NoClick]

\* A link or the portal page is used while the offer reads 'extended' and is
\* not past its expiry (no one enforces that on the row itself).
Answer(c, o, kind) ==
    /\ click[c] = NoClick
    /\ offer[o] = "extended"
    /\ click' = [click EXCEPT ![c] = [pc |-> kind, offer |-> o]]
    /\ UNCHANGED <<offerVars, stageVars, hireVars, staff, faults, answers>>

Won(c) ==
    /\ answers' = [answers EXCEPT ![click[c].offer] = @ + 1]
    /\ UNCHANGED <<notified, requests, approved, stageVars, hireVars, staff, faults>>

\* acceptOfferAtomically: UPDATE ... WHERE status = 'extended'.
Accept(c) ==
    /\ At(c, "accept")
    /\ offer[click[c].offer] = "extended"
    /\ offer' = [offer EXCEPT ![click[c].offer] = "accepted"]
    /\ Goto(c, "stage")
    /\ Won(c)

\* Faulty variant: a decline runs the side effects of an acceptance.
DeclineHires(c) ==
    /\ At(c, "decline")
    /\ offer[click[c].offer] = "extended"
    /\ offer' = [offer EXCEPT ![click[c].offer] = "declined"]
    /\ Goto(c, "stage")
    /\ Won(c)

Decline(c) ==
    /\ At(c, "decline")
    /\ offer[click[c].offer] = "extended"
    /\ offer' = [offer EXCEPT ![click[c].offer] = "declined"]
    /\ Goto(c, "declined")
    /\ Won(c)

\* The WHERE clause matches nothing: 409.
Lose(c) ==
    /\ At(c, "accept") \/ At(c, "decline")
    /\ offer[click[c].offer] # "extended"
    /\ Done(c)
    /\ UNCHANGED <<offerVars, stageVars, hireVars, staff, faults, answers>>

DeclineStage(c) ==
    /\ At(c, "declined")
    /\ stage' = "offer_declined"
    /\ Done(c)
    /\ UNCHANGED <<offerVars, assessment, hireVars, staff, faults, answers>>

-----------------------------------------------------------------------------
(* After an acceptance: runOfferAcceptSideEffects                          *)

AcceptStage(c) ==
    /\ At(c, "stage")
    /\ stage' = "offer_accepted"
    /\ Goto(c, "fee")
    /\ UNCHANGED <<offerVars, assessment, hireVars, staff, faults, answers>>

\* One fee per application; the application came from a partner with terms.
AccrueFee(c) ==
    /\ At(c, "fee")
    /\ fee' = IF fee = "none" THEN click[c].offer ELSE fee
    /\ Goto(c, "hire")
    /\ UNCHANGED <<offerVars, stageVars, hire, onboarding, staff, faults, answers>>

\* Faulty variant: the hire of an application that left the stage is not queued.
EnqueueHireAtStage(c) ==
    /\ At(c, "hire")
    /\ hire' = IF hire = "none" /\ stage = "offer_accepted" THEN click[c].offer ELSE hire
    /\ Goto(c, "onboard")
    /\ UNCHANGED <<offerVars, stageVars, fee, onboarding, staff, faults, answers>>

\* Unique business key hire:application:<id>.
EnqueueHire(c) ==
    /\ At(c, "hire")
    /\ hire' = IF hire = "none" THEN click[c].offer ELSE hire
    /\ Goto(c, "onboard")
    /\ UNCHANGED <<offerVars, stageVars, fee, onboarding, staff, faults, answers>>

\* ON CONFLICT DO NOTHING; only the creator of the case writes its tasks.
OpenCase(c) ==
    /\ At(c, "onboard")
    /\ IF onboarding = "none"
       THEN onboarding' = "bare" /\ Goto(c, "tasks")
       ELSE UNCHANGED onboarding /\ Done(c)
    /\ UNCHANGED <<offerVars, stageVars, fee, hire, staff, faults, answers>>

CreateTasks(c) ==
    /\ At(c, "tasks")
    /\ onboarding' = "checklist"
    /\ Done(c)
    /\ UNCHANGED <<offerVars, stageVars, fee, hire, staff, faults, answers>>

\* A side effect fails: logged, and the next one runs.
SideEffectFails(c) ==
    /\ faults < MaxFaults
    /\ faults' = faults + 1
    /\ \/ At(c, "stage") /\ Goto(c, "fee")
       \/ At(c, "fee") /\ Goto(c, "hire")
       \/ At(c, "hire") /\ Goto(c, "onboard")
       \/ click[c].pc \in {"onboard", "tasks", "declined"} /\ Done(c)
    /\ UNCHANGED <<offerVars, stageVars, hireVars, staff, answers>>

\* The API process dies: nothing ever runs the remaining side effects.
RequestDies(c) ==
    /\ click[c] # NoClick
    /\ faults < MaxFaults
    /\ faults' = faults + 1
    /\ Done(c)
    /\ UNCHANGED <<offerVars, stageVars, hireVars, staff, answers>>

-----------------------------------------------------------------------------
Recruiter(s) ==
    \/ \E o \in Offers :
        \/ BeginDraft(s, o) \/ BeginExtend(s, o) \/ BeginCancel(s, o)
        \/ BeginRequest(s, o)
        \/ \E i \in 1 .. MaxRequests, decision \in {"approved", "rejected"} :
            BeginDecide(s, o, i, decision)
    \/ \E recommendation \in Advice : BeginAssess(s, recommendation)
    \/ \E target \in Targets : BeginMove(s, target)
    \/ CommitDraft(s) \/ CommitExtend(s) \/ CommitCancel(s) \/ CommitRequest(s)
    \/ \E decision \in {"approved", "rejected"} : CommitDecide(s, decision)
    \/ CommitAssess(s) \/ CommitMove(s) \/ Abort(s)

\* The rest of a candidate's request, once it is under way.
Serve(c) ==
    \/ Accept(c) \/ Decline(c) \/ Lose(c) \/ DeclineStage(c) \/ AcceptStage(c)
    \/ AccrueFee(c) \/ EnqueueHire(c) \/ OpenCase(c) \/ CreateTasks(c)

Next ==
    \/ \E s \in Staff : Recruiter(s)
    \/ \E c \in Clicks, o \in Offers, kind \in {"accept", "decline"} : Answer(c, o, kind)
    \/ \E c \in Clicks : Serve(c) \/ SideEffectFails(c) \/ RequestDies(c)

Spec == Init /\ [][Next]_vars

-----------------------------------------------------------------------------
(* Properties                                                              *)

OfferStatus == {"absent", "drafted", "extended", "accepted", "declined", "cancelled"}
Mutation ==
    [op : {"draft", "extend", "cancel", "request", "approved", "rejected", "assess", "move"},
     offer : Offers \union {"none"},
     seen : Stages \union OfferStatus \union {"none", "hold", "proceed"},
     nth : 0 .. MaxRequests]
Click ==
    [pc : {"accept", "decline", "declined", "stage", "fee", "hire", "onboard", "tasks"},
     offer : Offers]

TypeOK ==
    /\ offer \in [Offers -> OfferStatus]
    /\ notified \subseteq Offers
    /\ requests \in [Offers -> Seq({"pending", "approved", "rejected"})]
    /\ stage \in Stages
    /\ assessment \in {"none", "hold", "proceed"}
    /\ staff \in [Staff -> Mutation \union {NoMutation}]
    /\ click \in [Clicks -> Click \union {NoClick}]
    /\ {fee, hire} \subseteq Offers \union {"none"}
    /\ onboarding \in {"none", "bare", "checklist"}
    /\ faults \in 0 .. MaxFaults
    /\ approved \subseteq Offers
    /\ answers \in [Offers -> Nat]

\* An offer above the band reaches the candidate only after an approver has
\* approved it, however requests and decisions overlap (router.ts, HROPS-02).
OverBandApproved ==
    \A o \in OverBand : offer[o] \in {"extended", "accepted", "declined"} => o \in approved

\* The candidate's answer to an offer is taken once: of an accept by link, an
\* accept in the portal and a decline one wins, and no recruiter's overlapping
\* mutation puts an answered offer in front of the candidate again
\* (routes/offers.ts, race protection).
AnsweredOnce == \A o \in Offers : answers[o] <= 1

\* What is hired, paid for and onboarded is an offer the candidate accepted,
\* never one that was declined (lib/offer-accept.ts).
HireFollowsAnswer ==
    /\ \A o \in Offers \intersect {hire, fee} : answers[o] > 0 /\ offer[o] # "declined"
    /\ onboarding # "none" => \E o \in Offers : answers[o] > 0

\* Once the requests that answered are over, an accepted offer has its hire
\* queued, its fee accrued and its case opened with a checklist, whatever
\* recruiters did meanwhile, unless a request died or a side effect failed
\* (lib/offer-accept.ts).
AcceptedIsHired ==
    (\E o \in Offers : offer[o] = "accepted") /\ (\A c \in Clicks : click[c] = NoClick)
        => (hire # "none" /\ fee # "none" /\ onboarding = "checklist") \/ faults > 0

=============================================================================
