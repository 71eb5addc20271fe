--------------------------- MODULE PartnerClaims ---------------------------
(***************************************************************************)
(* Who owns a candidate: submissions by recruitment partners, direct        *)
(* applications, and the ownership claims with their exclusivity window.    *)
(*                                                                         *)
(* A partner submits a candidate for a requisition it is assigned to        *)
(* (partnerSubmitCandidate, one transaction): the person is found by e-mail,*)
(* else by phone; a person another partner has an active claim on is        *)
(* refused, a person of the partner's own gets one more application, and    *)
(* for everybody else a claim is made with the application.  A direct       *)
(* applicant (submitApplication, statement by statement) makes no claim.    *)
(* Staff may release a claim; the sweep of the worker expires it when its   *)
(* window is over (composed with the worker in ClaimSweep).                 *)
(*                                                                         *)
(* The transaction reads at its start, waits for the parser of the résumé   *)
(* and writes at its end: a Begin and a Commit.  The assignment of          *)
(* requisitions and the status of the requisition are taken as given.       *)
(***************************************************************************)
EXTENDS Integers, FiniteSets

CONSTANTS
    Partners,       \* partner organisations
    Sessions,       \* requests in flight: portal users and applicants
    Contacts,       \* what is typed in: [email, phone]
    Requisitions,
    MaxPersons,     \* bound: persons rows
    MaxClaims,      \* bound: candidate_ownership_claims rows
    MaxRequests     \* bound: requests made

ASSUME ClaimsAssumption ==
    /\ {"none", "direct"} \intersect Partners = {}
    /\ MaxPersons \in Nat /\ MaxClaims \in Nat /\ MaxRequests \in Nat

VARIABLES
    persons,    \* the persons rows: the contact each was made with
    claims,     \* the claims rows: person, owner, status, and where its window is
    source,     \* source[p, r]: who brought person p to r: a partner, "direct" or "none"
    request,    \* what each session is doing, with what it has read
    made,       \* requests made so far
    overlapped, \* history: two requests have been in flight at once
    collided    \* history: an e-mail and a phone have matched different persons

claimsVars == <<persons, claims, source, request, made, overlapped, collided>>

PersonIds == 1 .. MaxPersons
ClaimIds == 1 .. MaxClaims

NoContact == [email |-> "none", phone |-> "none"]
NoClaim == [person |-> 0, owner |-> "none", status |-> "none", window |-> "none"]
NoRequest == [pc |-> "idle", owner |-> "none", contact |-> NoContact, req |-> "none",
              person |-> 0]

ClaimsInit ==
    /\ persons = [p \in PersonIds |-> NoContact]
    /\ claims = [i \in ClaimIds |-> NoClaim]
    /\ source = [p \in PersonIds |-> [r \in Requisitions |-> "none"]]
    /\ request = [s \in Sessions |-> NoRequest]
    /\ made = 0
    /\ overlapped = FALSE
    /\ collided = FALSE

Known == {p \in PersonIds : persons[p] # NoContact}
ByEmail(contact) == {p \in Known : persons[p].email = contact.email}
ByPhone(contact) == {p \in Known : persons[p].phone = contact.phone}

\* The claim that holds the person's slot of uniq_active_claim_per_person.
ActiveClaims(p) == {i \in ClaimIds : claims[i].person = p /\ claims[i].status = "active"}

\* The row a request works on: the person that was found, or the next free one.
PersonOf(s) ==
    IF request[s].person # 0 THEN {request[s].person}
    ELSE {p \in PersonIds \ Known : \A q \in 1 .. p - 1 : q \in Known}

FreeClaims == {i \in ClaimIds : claims[i].status = "none"}
NextClaim == {i \in FreeClaims : \A j \in FreeClaims : i <= j}

\* A request starts; it remembers the contact if it has to make the person.
Flies(s, r) ==
    /\ made < MaxRequests
    /\ made' = made + 1
    /\ request' = [request EXCEPT ![s] =
            IF r.person = 0 THEN r ELSE [r EXCEPT !.contact = NoContact]]
    /\ overlapped' = (overlapped \/ \E t \in Sessions \ {s} : request[t].pc # "idle")

Ends(s) == request' = [request EXCEPT ![s] = NoRequest] /\ UNCHANGED <<made, overlapped>>

-----------------------------------------------------------------------------
(* partnerSubmitCandidate                                                  *)

\* Faulty variant: only the e-mail is looked up.
MatchesEmailOnly(contact) == IF ByEmail(contact) # {} THEN ByEmail(contact) ELSE {0}

\* The person an e-mail belongs to, else one the phone belongs to; 0 is nobody.
Matches(contact) ==
    IF ByEmail(contact) # {} THEN ByEmail(contact)
    ELSE IF ByPhone(contact) # {} THEN ByPhone(contact) ELSE {0}

\* Faulty variant: somebody else's claim is looked for in the wrong state.
VerdictReleased(p, org) ==
    IF \E i \in ClaimIds : claims[i].person = p /\ claims[i].status = "released"
                           /\ claims[i].owner # org
    THEN "block" ELSE IF ActiveClaims(p) = {} THEN "create" ELSE "link"

\* What the submission of org does with person p.
Verdict(p, org) ==
    IF ActiveClaims(p) = {} THEN "create"
    ELSE IF \E i \in ActiveClaims(p) : claims[i].owner = org THEN "link"
    ELSE "block"

\* A blocked submission records the attempt and ends; the others go on to the parser.
BeginSubmission(s, org, contact, r) ==
    /\ request[s].pc = "idle"
    /\ \E p \in Matches(contact) :
        LET verdict == Verdict(p, org)
        IN /\ verdict # "block"
           /\ Flies(s, [pc |-> verdict, owner |-> org, contact |-> contact, req |-> r,
                        person |-> p])
    /\ UNCHANGED <<persons, claims, source, collided>>

\* A person that exists keeps its contact.
Saves(p, contact) ==
    persons' = [persons EXCEPT ![p] = IF @ = NoContact THEN contact ELSE @]

\* ingestPartnerApplication: an application that exists keeps its source.
Brings(p, r, who) ==
    source' = [source EXCEPT ![p][r] = IF @ = "none" THEN who ELSE @]

\* One more application under the claim that was read at the start.
CommitLink(s) ==
    /\ request[s].pc = "link"
    /\ Brings(request[s].person, request[s].req, request[s].owner)
    /\ Ends(s)
    /\ UNCHANGED <<persons, claims, collided>>

\* Faulty variant: there is no partial unique index.
SlotFreeAlways(p) == TRUE

\* uniq_active_claim_per_person.
SlotFree(p) == ActiveClaims(p) = {}

\* The person unless there was one, the application and the claim, all or nothing.
CommitCreate(s) ==
    /\ request[s].pc = "create"
    /\ \E p \in PersonOf(s), i \in NextClaim, window \in {"fresh", "closing"} :
        /\ SlotFree(p)
        /\ Saves(p, request[s].contact)
        /\ Brings(p, request[s].req, request[s].owner)
        /\ claims' = [claims EXCEPT ![i] =
                [person |-> p, owner |-> request[s].owner, status |-> "active",
                 window |-> window]]
    /\ Ends(s)
    /\ UNCHANGED collided

\* candidate_claimed_concurrently, another unique index, or any error: rolled back.
Abort(s) ==
    /\ request[s].pc # "idle"
    /\ Ends(s)
    /\ UNCHANGED <<persons, claims, source, collided>>

-----------------------------------------------------------------------------
(* submitApplication: a direct applicant                                   *)

\* E-mail and phone are looked up; when they point at different persons, a new one is made.
BeginApplication(s, contact, r) ==
    /\ request[s].pc = "idle"
    /\ \E p \in ByEmail(contact) \union (IF ByEmail(contact) = {} THEN {0} ELSE {}),
          q \in ByPhone(contact) \union (IF ByPhone(contact) = {} THEN {0} ELSE {}) :
        LET collision == p # 0 /\ q # 0 /\ p # q
            winner == IF p # 0 THEN p ELSE q
        IN /\ collided' = (collided \/ collision)
           /\ Flies(s, [pc |-> "person", owner |-> "direct", contact |-> contact,
                        req |-> r, person |-> IF collision THEN 0 ELSE winner])
    /\ UNCHANGED <<persons, claims, source>>

\* The person is committed before the application is.
InsertPerson(s) ==
    /\ request[s].pc = "person"
    /\ \E p \in PersonOf(s) :
        /\ Saves(p, request[s].contact)
        /\ request' = [request EXCEPT ![s].pc = "application", ![s].person = p,
                                              ![s].contact = NoContact]
    /\ UNCHANGED <<claims, source, made, overlapped, collided>>

InsertApplication(s) ==
    /\ request[s].pc = "application"
    /\ Brings(request[s].person, request[s].req, "direct")
    /\ Ends(s)
    /\ UNCHANGED <<persons, claims, collided>>

-----------------------------------------------------------------------------
(* The window of a claim                                                   *)

\* The seven days before the end begin; the end passes.
WindowMoves(i) ==
    /\ claims[i].window \in {"fresh", "closing"}
    /\ claims[i].status = "active"
    /\ claims' = [claims EXCEPT ![i].window = IF @ = "fresh" THEN "closing" ELSE "lapsed"]
    /\ UNCHANGED <<persons, source, request, made, overlapped, collided>>

\* releaseOwnershipClaimForTenant: UPDATE ... WHERE status = 'active'.
Release(i) ==
    /\ claims[i].status = "active"
    /\ claims' = [claims EXCEPT ![i].status = "released"]
    /\ UNCHANGED <<persons, source, request, made, overlapped, collided>>

\* Faulty variant: the predicate of the warning is used for the expiry.
PastExpiryEarly(i) == claims[i].status = "active" /\ claims[i].window = "closing"

PastExpiry(i) == claims[i].status = "active" /\ claims[i].window = "lapsed"

\* sweepExpiredOwnershipClaims: one UPDATE.
SweepExpired ==
    /\ claims' = [i \in ClaimIds |->
            IF PastExpiry(i) THEN [claims[i] EXCEPT !.status = "expired"] ELSE claims[i]]
    /\ UNCHANGED <<persons, source, request, made, overlapped, collided>>

-----------------------------------------------------------------------------
ApiStep ==
    \/ \E s \in Sessions :
        \/ \E org \in Partners, contact \in Contacts, r \in Requisitions :
                BeginSubmission(s, org, contact, r)
        \/ \E contact \in Contacts, r \in Requisitions : BeginApplication(s, contact, r)
        \/ CommitLink(s) \/ CommitCreate(s) \/ Abort(s)
        \/ InsertPerson(s) \/ InsertApplication(s)
    \/ \E i \in ClaimIds : Release(i) \/ WindowMoves(i)

\* On its own, with a sweep that may run at any time.
ClaimsNext == ApiStep \/ SweepExpired

ClaimsSpec == ClaimsInit /\ [][ClaimsNext]_claimsVars

-----------------------------------------------------------------------------
(* Properties                                                              *)

ClaimRows ==
    [person : 0 .. MaxPersons, owner : Partners \union {"none"},
     status : {"none", "active", "released", "expired"},
     window : {"none", "fresh", "closing", "lapsed"}]

\* Partners submit, applicants apply.
SubmissionsUnderWay ==
    [pc : {"link", "create"}, owner : Partners, contact : Contacts \union {NoContact},
     req : Requisitions, person : 0 .. MaxPersons]
ApplicationsUnderWay ==
    [pc : {"person", "application"}, owner : {"direct"},
     contact : Contacts \union {NoContact}, req : Requisitions, person : 0 .. MaxPersons]

ClaimsTypeOK ==
    /\ persons \in [PersonIds -> Contacts \union {NoContact}]
    /\ claims \in [ClaimIds -> ClaimRows]
    /\ source \in [PersonIds -> [Requisitions -> Partners \union {"direct", "none"}]]
    /\ request \in [Sessions -> {NoRequest} \union SubmissionsUnderWay
                                            \union ApplicationsUnderWay]
    /\ made \in 0 .. MaxRequests
    /\ overlapped \in BOOLEAN
    /\ collided \in BOOLEAN

\* A window is exclusive, however requests, releases and sweeps interleave: while the
\* claim of one partner on a person is neither over nor released, no other claim on that
\* person is made (the partial unique index and the sweep of the worker).
Exclusive ==
    \A i, j \in ClaimIds :
        /\ i # j /\ claims[i].status # "none" /\ claims[i].person = claims[j].person
        /\ claims[i].window # "lapsed" /\ claims[i].status # "released"
        => claims[j].status \in {"released", "expired"}

\* As long as requests do not overlap and no e-mail and phone have pointed at different
\* persons, nobody is registered twice: the dedup pivot of the ownership rules holds.
NobodyTwice ==
    (~overlapped /\ ~collided) =>
        \A p, q \in Known :
            persons[p].email = persons[q].email \/ persons[p].phone = persons[q].phone
            => p = q

\* As long as requests do not overlap, a partner brings nobody to a requisition while the
\* claim of another partner on that person is active (branch (b) of the decision tree).
NoPoaching ==
    [][~overlapped' =>
        \A p \in PersonIds, r \in Requisitions :
            source'[p][r] # source[p][r] /\ source'[p][r] \in Partners =>
                \A i \in ActiveClaims(p) : claims[i].owner = source'[p][r]]_claimsVars

=============================================================================
