------------------------ MODULE PartnerClaims_proofs ------------------------
(***************************************************************************)
(* What holds of the ownership claims for any number of partners, requests, *)
(* persons, requisitions and claims.                                        *)
(*                                                                         *)
(* Exclusive holds however requests, releases and sweeps interleave.        *)
(* NobodyTwice and NoPoaching are about requests that take turns: their     *)
(* invariants say that what a request under way has read is still true.     *)
(*                                                                         *)
(* The last part is about the claims composed with the scheduled job: the   *)
(* composition implements ClaimsSpec, so that what is proved of the claims  *)
(* holds whatever the workers, their locks and their deaths do.             *)
(***************************************************************************)
EXTENDS ClaimSweep, TLAPS

-----------------------------------------------------------------------------
(* Typing                                                                  *)

RequestRecords == {NoRequest} \union SubmissionsUnderWay \union ApplicationsUnderWay

\* The rows and records that the procedures start from are of their types, and a
\* record keeps its type when the contact is dropped.
LEMMA RecordTypes ==
  /\ NoClaim \in ClaimRows
  /\ \A t \in RequestRecords :
        t # NoRequest => [t EXCEPT !.contact = NoContact] \in RequestRecords
BY ClaimsAssumption
   DEF NoClaim, ClaimRows, RequestRecords, SubmissionsUnderWay, ApplicationsUnderWay

\* What a request that starts has found out: a person or 0, and how it goes on.
LEMMA StartTypes ==
  ASSUME NEW contact \in Contacts, NEW r \in Requisitions, NEW p \in PersonIds \union {0}
  PROVE  /\ \A pc \in {"link", "create"}, org \in Partners :
                [pc |-> pc, owner |-> org, contact |-> contact, req |-> r, person |-> p]
                    \in SubmissionsUnderWay
         /\ [pc |-> "person", owner |-> "direct", contact |-> contact, req |-> r,
             person |-> p] \in ApplicationsUnderWay
BY ClaimsAssumption DEF SubmissionsUnderWay, ApplicationsUnderWay, PersonIds

\* What a request under way is about (partnerSubmitCandidate, submitApplication).
LEMMA RecordFields ==
  ASSUME NEW t \in RequestRecords
  PROVE  /\ t.pc \in {"link", "create"} => t \in SubmissionsUnderWay
         /\ t.pc \in {"person", "application"} => t \in ApplicationsUnderWay
         /\ t.pc = "idle" => t = NoRequest
         /\ t.pc # "idle" => /\ t.req \in Requisitions /\ t.person \in 0 .. MaxPersons
                             /\ t.contact \in Contacts \union {NoContact}
BY DEF RequestRecords, NoRequest, SubmissionsUnderWay, ApplicationsUnderWay

\* Whoever a contact matches is a person, or nobody.
LEMMA MatchesTypes ==
  ASSUME NEW contact
  PROVE  Matches(contact) \subseteq PersonIds \union {0}
BY DEF Matches, ByEmail, ByPhone, Known

\* Whom a request works on is a person.
LEMMA PersonOfTypes ==
  ASSUME ClaimsTypeOK, NEW s \in Sessions, request[s].pc # "idle"
  PROVE  PersonOf(s) \subseteq PersonIds
BY ClaimsAssumption, RecordFields DEF ClaimsTypeOK, RequestRecords, PersonOf, PersonIds

\* A request starts with what it has found out.
LEMMA FliesTypes ==
  ASSUME ClaimsTypeOK, NEW s \in Sessions,
         NEW t \in SubmissionsUnderWay \union ApplicationsUnderWay, Flies(s, t)
  PROVE  request' \in [Sessions -> RequestRecords] /\ made' \in 0 .. MaxRequests
         /\ overlapped' \in BOOLEAN
<1>1. t # NoRequest /\ t \in RequestRecords
  BY DEF NoRequest, RequestRecords, SubmissionsUnderWay, ApplicationsUnderWay
<1>2. request' \in [Sessions -> RequestRecords]
  BY <1>1, RecordTypes DEF Flies, ClaimsTypeOK, RequestRecords
<1>. QED  BY <1>2, ClaimsAssumption DEF Flies, ClaimsTypeOK

\* ClaimsTypeOK is an invariant of the submission procedures and the sweep.
THEOREM TypeCorrect == ClaimsSpec => []ClaimsTypeOK
<1> USE ClaimsAssumption
<1>1. ClaimsInit => ClaimsTypeOK
  <2>1. 0 \in 0 .. MaxRequests
    OBVIOUS
  <2>. QED  BY <2>1, RecordTypes DEF ClaimsInit, ClaimsTypeOK
<1>2. ASSUME ClaimsTypeOK, [ClaimsNext]_claimsVars
      PROVE  ClaimsTypeOK'
  <2> USE <1>2
  <2>1. ASSUME NEW s \in Sessions, NEW org \in Partners, NEW contact \in Contacts,
               NEW r \in Requisitions, BeginSubmission(s, org, contact, r)
        PROVE  ClaimsTypeOK'
    <3>1. PICK p \in Matches(contact) :
            /\ Verdict(p, org) # "block"
            /\ Flies(s, [pc |-> Verdict(p, org), owner |-> org, contact |-> contact,
                         req |-> r, person |-> p])
      BY <2>1 DEF BeginSubmission
    <3>2. Verdict(p, org) \in {"link", "create"}
      BY <3>1 DEF Verdict
    <3>3. [pc |-> Verdict(p, org), owner |-> org, contact |-> contact, req |-> r,
           person |-> p] \in SubmissionsUnderWay
      BY <3>2, MatchesTypes, StartTypes
    <3>. QED  BY <2>1, <3>1, <3>3, FliesTypes DEF BeginSubmission, ClaimsTypeOK, RequestRecords
  <2>2. ASSUME NEW s \in Sessions, NEW contact \in Contacts, NEW r \in Requisitions,
               BeginApplication(s, contact, r)
        PROVE  ClaimsTypeOK'
    <3>1. PICK p \in PersonIds \union {0} :
            Flies(s, [pc |-> "person", owner |-> "direct", contact |-> contact,
                      req |-> r, person |-> p])
      BY <2>2 DEF BeginApplication, ByEmail, ByPhone, Known
    <3>2. collided' \in BOOLEAN
      BY <2>2 DEF BeginApplication, ClaimsTypeOK
    <3>. QED  BY <2>2, <3>1, <3>2, StartTypes, FliesTypes
                 DEF BeginApplication, ClaimsTypeOK, RequestRecords
  <2>3. ASSUME NEW s \in Sessions, CommitLink(s) \/ InsertApplication(s) \/ Abort(s)
        PROVE  ClaimsTypeOK'
    <3>1. request' \in [Sessions -> RequestRecords]
      BY <2>3 DEF CommitLink, InsertApplication, Abort, Ends, ClaimsTypeOK, RequestRecords
    <3>2. Abort(s) \/ request[s].owner \in Partners \union {"direct"}
      BY <2>3, RecordFields DEF CommitLink, InsertApplication, SubmissionsUnderWay,
                                ApplicationsUnderWay, ClaimsTypeOK, RequestRecords
    <3>3. source' \in [PersonIds -> [Requisitions -> Partners \union {"direct", "none"}]]
      BY <2>3, <3>2 DEF CommitLink, InsertApplication, Abort, Brings, ClaimsTypeOK
    <3>. QED  BY <2>3, <3>1, <3>3 DEF CommitLink, InsertApplication, Abort, Ends,
                                      ClaimsTypeOK, RequestRecords
  <2>4. ASSUME NEW s \in Sessions, CommitCreate(s)
        PROVE  ClaimsTypeOK'
    <3>1. PICK p \in PersonOf(s), i \in NextClaim, window \in {"fresh", "closing"} :
            /\ Saves(p, request[s].contact)
            /\ Brings(p, request[s].req, request[s].owner)
            /\ claims' = [claims EXCEPT ![i] =
                    [person |-> p, owner |-> request[s].owner, status |-> "active",
                     window |-> window]]
      BY <2>4 DEF CommitCreate
    <3>2. /\ request[s].owner \in Partners
          /\ request[s].contact \in Contacts \union {NoContact}
      BY <2>4, RecordFields DEF CommitCreate, SubmissionsUnderWay, ClaimsTypeOK, RequestRecords
    <3>3. p \in PersonIds
      BY <2>4, PersonOfTypes DEF CommitCreate
    <3>4. [person |-> p, owner |-> request[s].owner, status |-> "active",
           window |-> window] \in ClaimRows
      BY <3>2, <3>3 DEF ClaimRows, PersonIds
    <3>5. claims' \in [ClaimIds -> ClaimRows]
      BY <3>1, <3>4 DEF ClaimsTypeOK
    <3>6. persons' \in [PersonIds -> Contacts \union {NoContact}]
      BY <3>1, <3>2 DEF Saves, ClaimsTypeOK
    <3>7. source' \in [PersonIds -> [Requisitions -> Partners \union {"direct", "none"}]]
      BY <3>1, <3>2 DEF Brings, ClaimsTypeOK
    <3>. QED  BY <2>4, <3>5, <3>6, <3>7 DEF CommitCreate, Ends, ClaimsTypeOK
  <2>5. ASSUME NEW s \in Sessions, InsertPerson(s)
        PROVE  ClaimsTypeOK'
    <3>1. PICK p \in PersonOf(s) :
            /\ Saves(p, request[s].contact)
            /\ request' = [request EXCEPT ![s].pc = "application", ![s].person = p,
                                                  ![s].contact = NoContact]
      BY <2>5 DEF InsertPerson
    <3>2. request[s] \in ApplicationsUnderWay
      BY <2>5, RecordFields DEF InsertPerson, ClaimsTypeOK, RequestRecords
    <3>3. p \in PersonIds
      BY <2>5, PersonOfTypes DEF InsertPerson
    <3>4. [request[s] EXCEPT !.pc = "application", !.person = p, !.contact = NoContact]
            \in ApplicationsUnderWay
      <4>1. p \in 0 .. MaxPersons
        BY <3>3 DEF PersonIds
      <4>. QED  BY <3>2, <4>1 DEF ApplicationsUnderWay
    <3>5. request' \in [Sessions -> RequestRecords]
      BY <3>1, <3>4 DEF RequestRecords, ClaimsTypeOK
    <3>6. persons' \in [PersonIds -> Contacts \union {NoContact}]
      BY <3>1, <3>2 DEF Saves, ClaimsTypeOK, ApplicationsUnderWay
    <3>. QED  BY <2>5, <3>5, <3>6 DEF InsertPerson, ClaimsTypeOK, RequestRecords
  <2>6. ASSUME NEW i \in ClaimIds, Release(i) \/ WindowMoves(i)
        PROVE  ClaimsTypeOK'
    <3>1. claims' \in [ClaimIds -> ClaimRows]
      BY <2>6 DEF Release, WindowMoves, ClaimsTypeOK, ClaimRows
    <3>. QED  BY <2>6, <3>1 DEF Release, WindowMoves, ClaimsTypeOK
  <2>7. CASE SweepExpired
    <3>1. claims' \in [ClaimIds -> ClaimRows]
      BY <2>7 DEF SweepExpired, ClaimsTypeOK, ClaimRows
    <3>. QED  BY <2>7, <3>1 DEF SweepExpired, ClaimsTypeOK
  <2>8. CASE UNCHANGED claimsVars
    BY <2>8 DEF claimsVars, ClaimsTypeOK
  <2>. QED
    BY <2>1, <2>2, <2>3, <2>4, <2>5, <2>6, <2>7, <2>8 DEF ClaimsNext, ApiStep
<1>. QED  BY <1>1, <1>2, PTL DEF ClaimsSpec

-----------------------------------------------------------------------------
(* A window is exclusive                                                   *)

\* A row belongs to a person once it is made, is active for one owner at a time, and
\* expires only when its window is over.
ClaimsInOrder ==
    /\ \A i \in ClaimIds : claims[i].status = "none" <=> claims[i].person = 0
    /\ \A i, j \in ClaimIds :
            /\ claims[i].status = "active" /\ claims[j].status = "active"
            /\ claims[i].person = claims[j].person
            => i = j
    /\ \A i \in ClaimIds : claims[i].status = "expired" => claims[i].window = "lapsed"

\* The claims keep their order, however requests, releases and sweeps interleave.
LEMMA ClaimsKeepOrder == ClaimsSpec => []ClaimsInOrder
<1>1. ClaimsInit => ClaimsInOrder
  BY DEF ClaimsInit, ClaimsInOrder, NoClaim
<1>2. ASSUME ClaimsTypeOK, ClaimsInOrder, [ClaimsNext]_claimsVars
      PROVE  ClaimsInOrder'
  <2> USE <1>2
  <2>1. ASSUME NEW s \in Sessions, CommitCreate(s)
        PROVE  ClaimsInOrder'
    <3>1. PICK p \in PersonOf(s), i \in NextClaim, window \in {"fresh", "closing"} :
            /\ SlotFree(p)
            /\ claims' = [claims EXCEPT ![i] =
                    [person |-> p, owner |-> request[s].owner, status |-> "active",
                     window |-> window]]
      BY <2>1 DEF CommitCreate
    <3>2. p \in PersonIds /\ p # 0
      BY <2>1, PersonOfTypes DEF CommitCreate, PersonIds
    <3>3. i \in ClaimIds
      BY DEF NextClaim, FreeClaims
    <3>4. \A j \in ClaimIds : ~(claims[j].person = p /\ claims[j].status = "active")
      BY <3>1 DEF SlotFree, ActiveClaims
    <3>5. \A j \in ClaimIds \ {i} : claims'[j] = claims[j]
      BY <3>1 DEF ClaimsTypeOK
    <3>6. claims'[i].person = p /\ claims'[i].status = "active"
      BY <3>1, <3>3 DEF ClaimsTypeOK
    <3>. QED  BY <3>2, <3>3, <3>4, <3>5, <3>6 DEF ClaimsInOrder
  <2>2. ASSUME NEW i \in ClaimIds, Release(i) \/ WindowMoves(i)
        PROVE  ClaimsInOrder'
    <3>1. \A j \in ClaimIds \ {i} : claims'[j] = claims[j]
      BY <2>2 DEF Release, WindowMoves, ClaimsTypeOK
    <3>2. /\ claims'[i].person = claims[i].person
          /\ claims[i].status = "active" /\ claims'[i].status \in {"active", "released"}
      BY <2>2 DEF Release, WindowMoves, ClaimsTypeOK, ClaimRows
    <3>. QED  BY <3>1, <3>2 DEF ClaimsInOrder
  <2>3. CASE SweepExpired
    <3>1. \A j \in ClaimIds :
            /\ claims'[j].person = claims[j].person
            /\ claims'[j].window = claims[j].window
            /\ \/ claims'[j].status = claims[j].status
               \/ /\ claims[j].status = "active" /\ claims[j].window = "lapsed"
                  /\ claims'[j].status = "expired"
      BY <2>3 DEF SweepExpired, PastExpiry, ClaimsTypeOK, ClaimRows
    <3>. QED  BY <3>1 DEF ClaimsInOrder
  <2>4. CASE UNCHANGED claims
    BY <2>4 DEF ClaimsInOrder
  <2>. QED
    BY <2>1, <2>2, <2>3, <2>4
       DEF ClaimsNext, ApiStep, claimsVars, BeginSubmission, CommitLink, Abort,
           BeginApplication, InsertPerson, InsertApplication
<1>. QED  BY <1>1, <1>2, TypeCorrect, PTL DEF ClaimsSpec

\* Exclusive holds for any number of partners, requests, releases and sweeps
\* (uniq_active_claim_per_person, sweepExpiredOwnershipClaims).
THEOREM WindowsExclusive == ClaimsSpec => []Exclusive
<1>1. ClaimsTypeOK /\ ClaimsInOrder => Exclusive
  BY DEF ClaimsTypeOK, ClaimsInOrder, ClaimRows, Exclusive
<1>. QED  BY <1>1, TypeCorrect, ClaimsKeepOrder, PTL

-----------------------------------------------------------------------------
(* Requests that take turns                                                *)

Inactive(s) == request[s].pc = "idle"

\* While requests take turns, one is under way at a time.
InTurn == ~overlapped => \A s, t \in Sessions : s = t \/ Inactive(s) \/ Inactive(t)

\* A request that links has read that the partner's own claim is the active one.
OwnClaims ==
    ~overlapped =>
        \A s \in Sessions : request[s].pc = "link" =>
            \A i \in ActiveClaims(request[s].person) : claims[i].owner = request[s].owner

\* A request that makes a person has found nobody with that e-mail or phone.
Strangers ==
    (~overlapped /\ ~collided) =>
        \A s \in Sessions :
            request[s].pc \in {"create", "person"} /\ request[s].person = 0 =>
                \A p \in Known : /\ persons[p].email # request[s].contact.email
                                 /\ persons[p].phone # request[s].contact.phone

\* A request that has found a person saves no contact.
FoundKept == \A s \in Sessions : request[s].person # 0 => request[s].contact = NoContact

TurnInv == InTurn /\ OwnClaims /\ Strangers /\ FoundKept /\ NobodyTwice

\* A request that starts without overlapping another finds all others idle.
LEMMA StartsAlone ==
  ASSUME ClaimsTypeOK, NEW s \in Sessions, Inactive(s),
         NEW pc, NEW org, NEW contact, NEW r, NEW p,
         Flies(s, [pc |-> pc, owner |-> org, contact |-> contact, req |-> r, person |-> p])
  PROVE  /\ ~overlapped' => ~overlapped /\ \A u \in Sessions \ {s} : Inactive(u)
         /\ \A u \in Sessions \ {s} : request'[u] = request[u]
         /\ request'[s].pc = pc /\ request'[s].owner = org /\ request'[s].person = p
         /\ request'[s].contact = IF p = 0 THEN contact ELSE NoContact
BY DEF Flies, Inactive, ClaimsTypeOK

\* A submission starts with what is true (partnerSubmitCandidate).
LEMMA SubmissionStarts ==
  ASSUME ClaimsTypeOK, ClaimsInOrder, TurnInv, NEW s \in Sessions, NEW org \in Partners,
         NEW contact \in Contacts, NEW r \in Requisitions,
         BeginSubmission(s, org, contact, r)
  PROVE  TurnInv'
<1>1. PICK p \in Matches(contact) :
        /\ Verdict(p, org) # "block"
        /\ Flies(s, [pc |-> Verdict(p, org), owner |-> org, contact |-> contact,
                     req |-> r, person |-> p])
  BY DEF BeginSubmission
<1>2. Inactive(s) /\ UNCHANGED <<persons, claims, source, collided>>
  BY DEF BeginSubmission, Inactive
<1>3. /\ ~overlapped' => ~overlapped /\ \A u \in Sessions \ {s} : Inactive(u)
      /\ \A u \in Sessions \ {s} : request'[u] = request[u]
      /\ request'[s].pc = Verdict(p, org) /\ request'[s].owner = org
      /\ request'[s].person = p
      /\ request'[s].contact = IF p = 0 THEN contact ELSE NoContact
  BY <1>1, <1>2, StartsAlone
<1>4. InTurn' /\ FoundKept'
  BY <1>3 DEF InTurn, FoundKept, Inactive, TurnInv
<1>5. OwnClaims'
  <2>1. Verdict(p, org) = "link" => \A i \in ActiveClaims(p) : claims[i].owner = org
    BY DEF Verdict, ActiveClaims, ClaimsInOrder
  <2>. QED  BY <1>2, <1>3, <2>1 DEF OwnClaims, ActiveClaims, Inactive, TurnInv
<1>6. Strangers'
  <2>1. p = 0 => ByEmail(contact) = {} /\ ByPhone(contact) = {}
    BY <1>1, ClaimsAssumption DEF Matches, ByEmail, ByPhone, Known, PersonIds
  <2>. QED  BY <1>2, <1>3, <2>1 DEF Strangers, ByEmail, ByPhone, Known, Inactive, TurnInv
<1>7. NobodyTwice'
  BY <1>2, <1>3 DEF NobodyTwice, Known, TurnInv
<1>. QED  BY <1>4, <1>5, <1>6, <1>7 DEF TurnInv

\* A direct application starts with what is true (submitApplication).
LEMMA ApplicationStarts ==
  ASSUME ClaimsTypeOK, TurnInv, NEW s \in Sessions, NEW contact \in Contacts,
         NEW r \in Requisitions, BeginApplication(s, contact, r)
  PROVE  TurnInv'
<1>1. PICK p \in ByEmail(contact) \union (IF ByEmail(contact) = {} THEN {0} ELSE {}),
           q \in ByPhone(contact) \union (IF ByPhone(contact) = {} THEN {0} ELSE {}) :
        /\ collided' = (collided \/ (p # 0 /\ q # 0 /\ p # q))
        /\ Flies(s, [pc |-> "person", owner |-> "direct", contact |-> contact, req |-> r,
                     person |-> IF p # 0 /\ q # 0 /\ p # q THEN 0
                                ELSE IF p # 0 THEN p ELSE q])
  BY DEF BeginApplication
<1> DEFINE found == IF p # 0 /\ q # 0 /\ p # q THEN 0 ELSE IF p # 0 THEN p ELSE q
<1>2. Inactive(s) /\ UNCHANGED <<persons, claims, source>>
  BY DEF BeginApplication, Inactive
<1>3. /\ ~overlapped' => ~overlapped /\ \A u \in Sessions \ {s} : Inactive(u)
      /\ \A u \in Sessions \ {s} : request'[u] = request[u]
      /\ request'[s].pc = "person" /\ request'[s].person = found
      /\ request'[s].contact = IF found = 0 THEN contact ELSE NoContact
  BY <1>1, <1>2, StartsAlone
<1>4. InTurn' /\ FoundKept'
  BY <1>3 DEF InTurn, FoundKept, Inactive, TurnInv
<1>5. OwnClaims'
  BY <1>2, <1>3 DEF OwnClaims, ActiveClaims, Inactive, TurnInv
<1>6. Strangers'
  <2>1. found = 0 /\ ~collided' => ByEmail(contact) = {} /\ ByPhone(contact) = {}
    <3>1. 0 \notin ByEmail(contact) /\ 0 \notin ByPhone(contact)
      BY ClaimsAssumption DEF ByEmail, ByPhone, Known, PersonIds
    <3>2. p = 0 => ByEmail(contact) = {}
      BY <3>1
    <3>3. q = 0 => ByPhone(contact) = {}
      BY <3>1
    <3>. QED  BY <1>1, <3>2, <3>3
  <2>. QED
    BY <1>1, <1>2, <1>3, <2>1 DEF Strangers, ByEmail, ByPhone, Known, Inactive, TurnInv
<1>7. NobodyTwice'
  BY <1>1, <1>2, <1>3 DEF NobodyTwice, Known, TurnInv
<1>. QED  BY <1>4, <1>5, <1>6, <1>7 DEF TurnInv

\* A person saved in turn is nobody who is there already.
LEMMA SavesNobodyTwice ==
  ASSUME ClaimsTypeOK, TurnInv, NEW s \in Sessions,
         request[s].pc \in {"create", "person"}, NEW p \in PersonOf(s),
         Saves(p, request[s].contact), UNCHANGED <<overlapped, collided>>
  PROVE  NobodyTwice'
<1>1. CASE request[s].person # 0
  <2>1. persons' = persons
    BY <1>1 DEF TurnInv, FoundKept, Saves, ClaimsTypeOK
  <2>. QED  BY <2>1 DEF TurnInv, NobodyTwice, Known
<1>2. CASE request[s].person = 0
  <2>1. p \in PersonIds \ Known
    BY <1>2 DEF PersonOf
  <2>2. /\ persons'[p] = request[s].contact
        /\ \A q \in PersonIds \ {p} : persons'[q] = persons[q]
    BY <2>1 DEF Saves, Known, ClaimsTypeOK
  <2>3. Known' \subseteq Known \union {p}
    BY <2>2 DEF Known
  <2>4. (~overlapped /\ ~collided) =>
            \A q \in Known : /\ persons[q].email # request[s].contact.email
                             /\ persons[q].phone # request[s].contact.phone
    BY <1>2 DEF TurnInv, Strangers
  <2>. QED  BY <2>1, <2>2, <2>3, <2>4 DEF TurnInv, NobodyTwice, Known
<1>. QED  BY <1>1, <1>2

\* TurnInv is an invariant of the submission procedures and the sweep.
LEMMA TurnInvariant == ClaimsSpec => []TurnInv
<1>1. ClaimsInit => TurnInv
  BY DEF ClaimsInit, TurnInv, InTurn, OwnClaims, Strangers, FoundKept, NobodyTwice, Known,
         Inactive, NoRequest
<1>2. ASSUME ClaimsTypeOK, ClaimsInOrder, TurnInv, [ClaimsNext]_claimsVars
      PROVE  TurnInv'
  <2> USE <1>2
  <2>1. ASSUME NEW s \in Sessions, CommitLink(s) \/ InsertApplication(s) \/ Abort(s)
        PROVE  TurnInv'
    <3>1. /\ \A u \in Sessions \ {s} : request'[u] = request[u]
          /\ request'[s] = NoRequest
          /\ UNCHANGED <<persons, claims, overlapped, collided>>
      BY <2>1 DEF CommitLink, InsertApplication, Abort, Ends, ClaimsTypeOK
    <3>2. request'[s].pc = "idle" /\ request'[s].person = 0
      BY <3>1 DEF NoRequest
    <3>. QED
      BY <3>1, <3>2 DEF TurnInv, InTurn, OwnClaims, Strangers, FoundKept, NobodyTwice,
                        Known, ActiveClaims, Inactive
  <2>2. ASSUME NEW s \in Sessions, CommitCreate(s)
        PROVE  TurnInv'
    <3>1. PICK p \in PersonOf(s) : Saves(p, request[s].contact)
      BY <2>2 DEF CommitCreate
    <3>2. /\ ~Inactive(s) /\ request[s].pc = "create"
          /\ \A u \in Sessions \ {s} : request'[u] = request[u]
          /\ request'[s] = NoRequest
          /\ UNCHANGED <<overlapped, collided>>
      BY <2>2 DEF CommitCreate, Ends, ClaimsTypeOK, Inactive
    <3>3. NobodyTwice'
      BY <3>1, <3>2, SavesNobodyTwice
    <3>4. request'[s].pc = "idle" /\ request'[s].person = 0
      BY <3>2 DEF NoRequest
    <3>. QED
      BY <3>2, <3>3, <3>4 DEF TurnInv, InTurn, OwnClaims, Strangers, FoundKept, Inactive
  <2>3. ASSUME NEW s \in Sessions, InsertPerson(s)
        PROVE  TurnInv'
    <3>1. PICK p \in PersonOf(s) :
            /\ Saves(p, request[s].contact)
            /\ request' = [request EXCEPT ![s].pc = "application", ![s].person = p,
                                                  ![s].contact = NoContact]
      BY <2>3 DEF InsertPerson
    <3>2. /\ ~Inactive(s) /\ request[s].pc = "person"
          /\ UNCHANGED <<overlapped, collided>>
      BY <2>3 DEF InsertPerson, Inactive
    <3>3. NobodyTwice'
      BY <3>1, <3>2, SavesNobodyTwice
    <3>4. request[s] \in ApplicationsUnderWay
      BY <3>2, RecordFields DEF ClaimsTypeOK, RequestRecords
    <3>5. /\ request'[s].pc = "application" /\ request'[s].contact = NoContact
          /\ \A u \in Sessions \ {s} : request'[u] = request[u]
      BY <3>1, <3>4 DEF ClaimsTypeOK, ApplicationsUnderWay
    <3>. QED
      BY <3>2, <3>3, <3>5 DEF TurnInv, InTurn, OwnClaims, Strangers, FoundKept, Inactive
  <2>4. ASSUME NEW i \in ClaimIds, Release(i) \/ WindowMoves(i)
        PROVE  TurnInv'
    <3>1. /\ UNCHANGED <<persons, request, overlapped, collided>>
          /\ \A j \in ClaimIds :
                /\ claims'[j].person = claims[j].person /\ claims'[j].owner = claims[j].owner
                /\ claims'[j].status = "active" => claims[j].status = "active"
      BY <2>4, SMTT(20) DEF Release, WindowMoves, ClaimsTypeOK, ClaimRows
    <3>. QED
      BY <3>1 DEF TurnInv, InTurn, OwnClaims, Strangers, FoundKept, NobodyTwice, Known,
                  ActiveClaims, Inactive
  <2>5. CASE SweepExpired
    <3>1. /\ UNCHANGED <<persons, request, overlapped, collided>>
          /\ \A j \in ClaimIds :
                /\ claims'[j].person = claims[j].person /\ claims'[j].owner = claims[j].owner
                /\ claims'[j].status = "active" => claims[j].status = "active"
      BY <2>5 DEF SweepExpired, ClaimsTypeOK, ClaimRows
    <3>. QED
      BY <3>1 DEF TurnInv, InTurn, OwnClaims, Strangers, FoundKept, NobodyTwice, Known,
                  ActiveClaims, Inactive
  <2>6. CASE UNCHANGED claimsVars
    BY <2>6 DEF claimsVars, TurnInv, InTurn, OwnClaims, Strangers, FoundKept, NobodyTwice,
                Known, ActiveClaims, Inactive
  <2>. QED
    BY <2>1, <2>2, <2>3, <2>4, <2>5, <2>6, SubmissionStarts, ApplicationStarts
       DEF ClaimsNext, ApiStep
<1>. QED  BY <1>1, <1>2, TypeCorrect, ClaimsKeepOrder, PTL DEF ClaimsSpec

\* NobodyTwice holds for any number of requests that take turns (the dedup pivot of
\* partnerSubmitCandidate and submitApplication).
THEOREM RegisteredOnce == ClaimsSpec => []NobodyTwice
BY TurnInvariant, PTL DEF TurnInv

\* NoPoaching holds for any number of requests that take turns (partnerSubmitCandidate).
THEOREM NobodyPoached == ClaimsSpec => NoPoaching
<1> DEFINE Brought(p, r) == source'[p][r] # source[p][r] /\ source'[p][r] \in Partners
           Owned == ~overlapped' =>
                \A p \in PersonIds, r \in Requisitions : Brought(p, r) =>
                    \A i \in ActiveClaims(p) : claims[i].owner = source'[p][r]
<1>1. ASSUME ClaimsTypeOK, TurnInv, [ClaimsNext]_claimsVars
      PROVE  Owned
  <2> USE <1>1
  <2>1. ASSUME NEW s \in Sessions, CommitLink(s)
        PROVE  Owned
    <3>1. \A p \in PersonIds, r \in Requisitions : Brought(p, r) =>
            p = request[s].person /\ source'[p][r] = request[s].owner
      BY <2>1 DEF CommitLink, Brings, ClaimsTypeOK
    <3>. QED  BY <2>1, <3>1 DEF CommitLink, Ends, TurnInv, OwnClaims
  <2>2. ASSUME NEW s \in Sessions, CommitCreate(s)
        PROVE  Owned
    <3>1. PICK q \in PersonOf(s) :
            SlotFree(q) /\ Brings(q, request[s].req, request[s].owner)
      BY <2>2 DEF CommitCreate
    <3>2. \A p \in PersonIds, r \in Requisitions : Brought(p, r) => p = q
      BY <3>1 DEF Brings, ClaimsTypeOK
    <3>. QED  BY <3>1, <3>2 DEF SlotFree
  <2>3. ASSUME NEW s \in Sessions, InsertApplication(s)
        PROVE  Owned
    <3>1. \A p \in PersonIds, r \in Requisitions : ~Brought(p, r)
      BY <2>3, ClaimsAssumption DEF InsertApplication, Brings, ClaimsTypeOK
    <3>. QED  BY <3>1
  <2>4. CASE UNCHANGED source
    BY <2>4
  <2>. QED
    BY <2>1, <2>2, <2>3, <2>4
       DEF ClaimsNext, ApiStep, claimsVars, BeginSubmission, Abort, BeginApplication,
           InsertPerson, Release, WindowMoves, SweepExpired
<1>. QED  BY <1>1, TypeCorrect, TurnInvariant, PTL DEF ClaimsSpec, NoPoaching

-----------------------------------------------------------------------------
(* The scheduled job                                                       *)

\* The variables the scheduler owns and those of the job keep their types.
JobTypeOK ==
    /\ SchedulerTypeOK
    /\ warned \subseteq ClaimIds
    /\ sweeping \in [Workers ->
            [pc : {"expire", "select", "warn"}, toWarn : SUBSET ClaimIds]]

WorkerRecords ==
    [pc : {"idle", "scan", "run", "stamp", "unlock"}, todo : SUBSET Jobs,
     job : Jobs \union {"none"}]

\* A connection that gives a lock back, or takes it once more, counts on in bounds.
LEMMA LockCounts ==
  ASSUME NEW held \in [Jobs -> 0 .. MaxLocks], NEW j, NEW k \in Jobs
  PROVE  /\ [held EXCEPT ![j] = IF held[j] > 0 THEN held[j] - 1 ELSE 0]
                \in [Jobs -> 0 .. MaxLocks]
         /\ held[k] < MaxLocks =>
                [held EXCEPT ![k] = held[k] + 1] \in [Jobs -> 0 .. MaxLocks]
<1> USE SchedulerAssumption
<1>1. CASE j \in Jobs
  BY <1>1
<1>2. ASSUME j \notin Jobs, NEW n
      PROVE  [held EXCEPT ![j] = n] \in [Jobs -> 0 .. MaxLocks]
  BY <1>2
<1>. QED  BY <1>1, <1>2

\* A tick keeps the scheduler's state typed (runSchedulerTick).
LEMMA TickTypes ==
  ASSUME SchedulerTypeOK, NEW w \in Workers, TickStep(w)
  PROVE  SchedulerTypeOK'
<1> USE SchedulerAssumption DEF SchedulerTypeOK
<1>1. Idle \in WorkerRecords
  BY DEF Idle, WorkerRecords
<1>2. CASE StartTick(w)
  BY <1>2 DEF StartTick
<1>3. CASE Stamp(w)
  BY <1>3 DEF Stamp, Goes
<1>4. ASSUME NEW c \in Connections, Unlock(w, c)
      PROVE  SchedulerTypeOK'
  <2>1. worker' \in [Workers -> WorkerRecords]
    BY <1>1, <1>4 DEF Unlock, NextJob, WorkerRecords
  <2>2. locks' \in [Connections -> [Jobs -> 0 .. MaxLocks]]
    <3>1. locks' = [locks EXCEPT ![c] =
                        [locks[c] EXCEPT ![worker[w].job] =
                            IF locks[c][worker[w].job] > 0
                            THEN locks[c][worker[w].job] - 1 ELSE 0]]
      BY <1>4 DEF Unlock
    <3>. QED  BY <3>1, LockCounts
  <2>. QED  BY <1>4, <2>1, <2>2 DEF Unlock, WorkerRecords
<1>5. ASSUME NEW c \in Connections, NEW j \in Jobs, TryLock(w, c, j)
      PROVE  SchedulerTypeOK'
  <2>1. worker' \in [Workers -> WorkerRecords]
    <3>0. worker[w] \in WorkerRecords /\ worker \in [Workers -> WorkerRecords]
      BY DEF WorkerRecords
    <3>1. /\ [worker[w] EXCEPT !.todo = @ \ {j}] \in WorkerRecords
          /\ [worker[w] EXCEPT !.pc = "run", !.job = j] \in WorkerRecords
      BY <3>0 DEF WorkerRecords
    <3>2. CASE HeldElsewhere(c, j)
      BY <1>1, <1>5, <3>0, <3>1, <3>2 DEF TryLock
    <3>3. CASE ~HeldElsewhere(c, j)
      <4>1. worker' = [worker EXCEPT ![w] = [worker[w] EXCEPT !.pc = "run", !.job = j]]
        BY <1>5, <3>3 DEF TryLock
      <4>. QED  BY <1>1, <3>0, <3>1, <4>1
    <3>. QED  BY <3>2, <3>3
  <2>2. locks' \in [Connections -> [Jobs -> 0 .. MaxLocks]]
    <3>1. CASE UNCHANGED locks
      BY <3>1
    <3>2. CASE ~UNCHANGED locks
      <4>1. /\ locks[c][j] < MaxLocks
            /\ locks' = [locks EXCEPT ![c] = [locks[c] EXCEPT ![j] = locks[c][j] + 1]]
        BY <1>5, <3>2 DEF TryLock
      <4>2. locks[c] \in [Jobs -> 0 .. MaxLocks]
        OBVIOUS
      <4>3. [locks[c] EXCEPT ![j] = locks[c][j] + 1] \in [Jobs -> 0 .. MaxLocks]
        BY <4>1, <4>2, LockCounts
      <4>. QED  BY <4>1, <4>3
    <3>. QED  BY <3>1, <3>2
  <2>. QED  BY <1>5, <2>1, <2>2 DEF TryLock, WorkerRecords
<1>. QED  BY <1>2, <1>3, <1>4, <1>5 DEF TickStep

\* So do deaths, failed stamps, closed connections, intervals and the end of a run.
LEMMA EnvironmentTypes ==
  ASSUME SchedulerTypeOK,
         SchedulerEnvironment \/ \E w \in Workers : JobReturns(w) \/ JobThrows(w)
  PROVE  SchedulerTypeOK'
<1> USE SchedulerAssumption DEF SchedulerTypeOK
<1>1. Idle \in WorkerRecords
  BY DEF Idle, WorkerRecords
<1>2. ASSUME NEW w \in Workers, StampFails(w) \/ Die(w)
      PROVE  SchedulerTypeOK'
  BY <1>1, <1>2 DEF StampFails, Die, WorkerRecords
<1>3. ASSUME NEW w \in Workers, JobReturns(w) \/ JobThrows(w)
      PROVE  SchedulerTypeOK'
  BY <1>3 DEF JobReturns, JobThrows, JobDone, Goes
<1>4. ASSUME NEW c \in Connections, Recycle(c)
      PROVE  SchedulerTypeOK'
  BY <1>4 DEF Recycle
<1>5. ASSUME NEW j \in Jobs, Elapse(j)
      PROVE  SchedulerTypeOK'
  BY <1>5 DEF Elapse
<1>. QED  BY <1>2, <1>3, <1>4, <1>5 DEF SchedulerEnvironment

\* Every step of the composition is a step of the claims or leaves them alone.
LEMMA SweepStepsClaims == [Next]_vars => [ClaimsNext]_claimsVars
BY DEF Next, vars, ClaimsStep, EnvironmentStep, SchedulerStep, JobStep, Expire, Select,
       WarnOne, Return, Throw, ClaimsNext

\* The job and its scheduler keep their state typed (ownershipClaimSweep).
LEMMA JobTypeCorrect == Spec => []JobTypeOK
<1>1. Init => JobTypeOK
  BY SchedulerAssumption
     DEF Init, SchedulerInit, JobTypeOK, SchedulerTypeOK, NoSweep, Idle
<1>2. ASSUME JobTypeOK, [Next]_vars
      PROVE  JobTypeOK'
  <2> USE <1>2
  <2> DEFINE Sweeps == [Workers ->
                [pc : {"expire", "select", "warn"}, toWarn : SUBSET ClaimIds]]
  <2>1. NoSweep \in [pc : {"expire", "select", "warn"}, toWarn : SUBSET ClaimIds]
    BY DEF NoSweep
  <2>2. Rest \in Sweeps
    BY <2>1 DEF Rest, JobTypeOK
  <2>3. ASSUME NEW w \in Workers, SchedulerStep(w)
        PROVE  JobTypeOK'
    BY <2>2, <2>3, TickTypes DEF SchedulerStep, JobTypeOK
  <2>4. CASE EnvironmentStep
    BY <2>2, <2>4, EnvironmentTypes DEF EnvironmentStep, JobTypeOK
  <2>5. ASSUME NEW w \in Workers, Return(w) \/ Throw(w)
        PROVE  JobTypeOK'
    <3>1. sweeping' \in Sweeps /\ UNCHANGED warned
      BY <2>1, <2>5 DEF Return, Throw, JobTypeOK
    <3>. QED  BY <2>5, <3>1, EnvironmentTypes DEF Return, Throw, JobTypeOK
  <2>6. ASSUME NEW w \in Workers, Expire(w) \/ Select(w) \/ WarnOne(w)
        PROVE  JobTypeOK'
    <3>1. sweeping' \in Sweeps
      BY <2>6 DEF Expire, Select, WarnOne, Expiring, JobTypeOK
    <3>2. warned' \subseteq ClaimIds
      BY <2>6 DEF Expire, Select, WarnOne, Warn, JobTypeOK
    <3>. QED
      BY <2>6, <3>1, <3>2 DEF Expire, Select, WarnOne, JobTypeOK, SchedulerTypeOK, schedulerVars
  <2>7. CASE ClaimsStep \/ UNCHANGED vars
    BY <2>7 DEF ClaimsStep, vars, schedulerVars, JobTypeOK, SchedulerTypeOK
  <2>. QED  BY <2>3, <2>4, <2>5, <2>6, <2>7 DEF Next, JobStep
<1>. QED  BY <1>1, <1>2, PTL DEF Spec

\* The claims, run with the scheduled job on any number of workers that die, lose their
\* stamps and share connections, behave as ClaimsSpec says.
THEOREM SweepImplementsClaims == Spec => ClaimsSpec
<1>1. Init => ClaimsInit
  BY DEF Init
<1>. QED  BY <1>1, SweepStepsClaims, PTL DEF Spec, ClaimsSpec

\* TypeOK is an invariant of the claims composed with the scheduled job.
THEOREM SweepTypeCorrect == Spec => []TypeOK
<1>1. JobTypeOK /\ ClaimsTypeOK => TypeOK
  BY DEF JobTypeOK, TypeOK
<1>. QED  BY <1>1, JobTypeCorrect, SweepImplementsClaims, TypeCorrect, PTL

\* The exclusivity of a window, the dedup pivot and the decision tree hold under the
\* scheduled job as well.
THEOREM OwnershipUnderSweep == Spec => [](Exclusive /\ NobodyTwice) /\ NoPoaching
BY SweepImplementsClaims, WindowsExclusive, RegisteredOnce, NobodyPoached, PTL

=============================================================================
