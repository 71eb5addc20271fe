# HireOps in TLA+

HireOps is a multi-tenant applicant tracking system: a tRPC/HTTP API over
Postgres (`apps/api`), one worker process that drains outbox tables and runs
scheduled jobs (`apps/workers`), and two portals. This directory holds the
specifications of the parts in which several actors write the same rows, the
TLC models that check them, and the proofs about them.

Paths below are relative to the repository root. `router.ts` is
`apps/api/src/trpc/router.ts`.

## 1. Inventory

The unit of atomicity decides what can interleave, so it comes first.

* A **protected mutation** of the router is one READ COMMITTED transaction
  (`packages/db/src/with-tenant-context.ts`). Its reads take no locks unless it
  says `FOR UPDATE`, so another transaction may commit between its checks and
  its writes. Its writes become visible together.
* The **public routes** (`apps/api/src/routes`), the **API libraries that get
  the pool** (`ctx.sql`, `poolSql`) and the **workers** run statement by
  statement: every statement, storage call and vendor call is a step. A
  mutation that calls such a library mixes both: what the library writes stands
  even if the mutation is rolled back.
* The **worker** runs eight loops in one process (`apps/workers/src/index.ts`).
  A loop never overlaps with itself (`inFlight`); two loops always may.

| Component | State it keeps | Operations | Talks to | Hard behaviour |
|---|---|---|---|---|
| Notification outbox, dispatcher (`lib/dispatcher.ts`) | `notification_outbox` row: status, attempt_count, scheduled_for, claimed_at | enqueue, claim batch, deliver, stamp, retry, give up, recover orphans | every mutation and job produces; e-mail provider | duplicates, lost stamps, dead passes, sweep against live pass |
| Messaging agents (`lib/agent-run-drain.ts`, approval mutations, `agentApprovalTtlScan`) | `agent_run_outbox`, `agent_runs`, `agent_run_actions`, `agent_approval_requests` | stale scan, claim, open/resume run, execute, gate, approve, edit, reject, snooze, TTL | outbox above (send_message) | resume races, wrong row re-queued, crash without sweep |
| Interview notetaker (upload library, transcript drain, retention purge) | interview flags, consent log, `interview_recordings`, storage object, `transcript_outbox`, transcript, notes | request, consent, start, PUT, complete, transcribe, retry, sweep, purge | object storage, speech vendor, language model | browser, drain and purge on one recording; paid calls; retention promise |
| AI interview session (`lib/ai-interview-session.ts`, `lib/ai-interview-evidence-drain.ts`) | session status, question set, turn_state, recording and its object, `transcript_outbox`, `ai_interview_evidence` | generate, approve, issue, consent, start, answer, upload, submit, expire, report, regenerate | transcript drain, language model | two tabs on one turn_state; crash after submit; report before transcript; paid calls |
| Offers (`router.ts`, `routes/offers.ts`, `lib/offer-accept.ts`) | `offers`, `approval_requests`, `applications.current_stage`, `hr_round_assessments`, fee, Workday outbox, onboarding case | draft, extend, cancel, request/decide approval, assess, move stage, accept, decline, side effects | candidate links and portal, Workday, partner fees, onboarding | unlocked read then write by id; side effects after commit |
| Requisition lifecycle (`router.ts` 5037-6400) | requisition status, posted_at, job description, approval request | edit, generate, submit, decide, post, hold, resume | notifications | two deciders; an edit that commits after the scan; stale resume |
| Partner submissions (`router.ts` 4180-4500, 16080-, `ownership-claim-sweep.ts`) | persons, ownership claims, applications | submit, apply, release, expire, warn | scheduler, notifications | two partners on one candidate; expired but not swept; persons without a lock |
| Scheduler (`lib/scheduler.ts`) | `scheduled_job_runs`, advisory locks | tick: due check, lock, run, stamp, unlock | every job | due check before the lock; session locks over a pooler; death before the stamp |
| Interview rounds and stages (`router.ts` 7101-8800, 29900-30300, `routes/interviews.ts`) | interviews, panel, scorecards, `current_stage`, transition log | book, rebook, cancel, no-show, complete, confirm, save/submit/reopen a scorecard, advance, move, undo | offers, notifications | stale reads written by id; index as the only arbiter |
| On- and offboarding, Workday drain (`router.ts` 14380-15300, `lib/offboarding-case.ts`, `workday-simulation-drain.ts`) | cases, checklist, settlement, `workday_sync_outbox` | initiate, move case, task, settlement, enqueue, simulate, write back | offers, Workday | an event is visible before the transaction that raises it; no retry |
| AI scoring drain | `ai_score_outbox` | claim, call, stamp | models | no orphan sweep |
| Intake and documents, users and links, tenant isolation, AI client and budget, reports and assistant, portals, SLA scan | see `PROJECT.json` | CRUD, queries, prompts, rendering | | little concurrency of their own |

What makes each of the modelled components correct:

* **Outbox**: a message is sent again only if the stamp of a delivery was lost;
  attempts are bounded; an outcome is final; every row settles. Together this is
  what `MessageQueue` promises.
* **Agents**: what goes to a candidate is what was let through; a rejection ends
  a follow-up; a request that is pending is really paused; an approved
  follow-up is finished. All that for each of the applications an agent follows up.
* **Notetaker**: no recording without permission; audio whose transcript is stored
  is not paid for again, and never more than the attempt cap; a stored transcript
  is never replaced; the audio is deleted when retention has run out.
* **AI interview**: the approved questions are asked; an acknowledged answer is
  kept, and its audio with it; a submitted round is queued for transcript and
  report; the report waits for the transcript, is about what was submitted and is
  paid for a bounded number of times.
* **Offers**: nothing above the band reaches a candidate unapproved; an offer is
  answered once; what is hired, paid and onboarded is what was accepted; an
  accepted offer gets its hire, fee and case.
* **Requisitions**: nothing is live that was not approved; the queue agrees with
  the status; what is live is what was scanned; what was posted stays posted.
* **Claims**: a window is exclusive; a claimed candidate is not taken over;
  nobody is registered twice; a partner hears of a claim before it ends; a lapsed
  claim ends.
* **Rounds**: one live interview per round; a decision keeps its scorecards; the
  transition log is a chain; a booking never moves a candidate back.
* **Employment**: nobody is reported as terminated uncleared; a termination
  stands; a hire gets its worker id.

`PROJECT.json` lists all components, the modelled ones and the others, and the
hazards at their source lines with the property that covers each.

## 2. Modules

| Module | Models | How it corresponds to the code |
|---|---|---|
| `MessageQueue` | what an outbox promises | abstract: `fate`, `tried`, `copies`, `lostCopies` of a message; no code of its own |
| `NotificationOutbox` | the outbox, any number of workers | one action per SQL statement or provider call of `drainOutboxOnce` and `recoverOrphans`; `batch`/`claimed`/`sending` are the locals of a pass. `Queue == INSTANCE MessageQueue WITH ...` is the refinement mapping: `absent`, `sent` and `failed` map to themselves, 'pending' and 'processing' to `open` |
| `AgentRuns` | stale scan, drain, approval gate, recruiters, TTL scan | `drain` is the program counter and locals of `processOutboxRow`; a recruiter's mutation takes `FOR UPDATE` on the request and is one action; the TTL scan is a read followed by one transaction per request |
| `Notetaker` | one interview: consent, upload sessions, drain, purge | every statement and storage call is an action; `session`, `worker` and `purge` are the locals of a request, a drain pass and a sweep |
| `AiInterview` | one round: questions, issue, tabs, recorder, submit, report | a candidate's request loads the session (`Load`) and works from that copy (`req[t].copy`), one action per later statement; generation and issue are a check and a commit; the transcript pipeline, modelled in `Notetaker`, appears with its outcomes only |
| `OfferLifecycle` | one application with its offers | a mutation is a `Begin...` (its reads and checks) and a `Commit...` (its writes), because nothing is locked in between; a candidate's request runs statement by statement |
| `Requisition` | one requisition | `tx[u]` is the open transaction of a user with what it has read; `Post` and `Hold`, whose UPDATE repeats the check, are one action |
| `PartnerClaims` | persons, claims, applications | a partner's submission is one transaction around a slow parser call (`Begin`, `Commit`); a direct application runs statement by statement; the window of a claim moves on by itself |
| `Scheduler` | `runSchedulerTick` of every worker process | due check, advisory lock on the connection the pooler picks, run, stamp, unlock; the job is left open |
| `ClaimSweep` | composes the two | extends `PartnerClaims` and `Scheduler`; the sweep's three statements are the body of the job |
| `Interviews` | the rounds of one application and its stages | a request is a record; `Reads` is what its SELECTs return, `Passes` its checks, one `Commit...` per kind of write |
| `Employment` | onboarding and offboarding case, Workday drain | as `Interviews`; `ctx.sql` writes (the Workday event, the case row) are actions of their own before the commit; a transaction that has written its case row holds it |
| `NotificationOutbox_proofs`, `Requisition_proofs`, `PartnerClaims_proofs`, `Interviews_proofs`, `Employment_proofs`, `OfferLifecycle_proofs`, `Notetaker_proofs`, `AgentRuns_proofs` | | theorems (section 5) |
| `MC...` | | constants and symmetry of the TLC instances |

Four conventions.

*History variables* (`sends`, `lost`, `signed`, `refused`, `billed`, `permitted`,
`approved`, `answers`, `verdicts`, `scanned`, `acked`, `asked`, `died`, `forced`,
`revoked`, `collided`) record what happened outside the database, or an earlier
state; no guard reads them. Six more record what a property excuses:

| Variable | Set when |
|---|---|
| `overlapped`, `stale` | two requests have been in flight at once; a transaction has written although what it had read has changed |
| `AgentRuns!moved` | a decision on another run of the agent has taken this outbox row out of its pause |
| `Notetaker!reopened` | a completion has written 'uploaded' over a status the pipeline had set, or a pass has ended between storing the transcript and marking the recording |
| `Notetaker!crossed` | an upload to another container, or the sweep, has come between the steps of an upload, or the delete of the old object was lost |
| `AiInterview!missed` | a recorder was started on a page that had missed an answer |

A property guarded by one of them says what the code promises otherwise; the same
property without the guard is false of the code (section 6). None of them takes a
behaviour out of the model.

*Faulty variants* are operators placed before the definition they differ from
("Faulty variant: ..."). Each is the definition with a plausible bug: a dropped
guard, an off-by-one, a missing write. Nothing uses them in the specifications.
Put in the place of the definition, each makes a property of its run fail;
`PROJECT.json` pairs them under "mutants". They show that the property depends
on that piece of code.

*Bounds* are constants named in the modules: `MaxAbandons`, `MaxFaults`,
`MaxStarts`, `MaxRequests`, `MaxRevisions`, `MaxHolds`, `MaxPersons`,
`MaxClaims`, `MaxLocks`, `MaxInterviews`, `MaxCases`, `MaxTape`,
`MaxDisturbances`. Every guard that compares with one is a bound and no
condition of the code.

*Types* are written down once per module (`TypeOK`). They document the state; the
proofs establish them where there is a proof module.

### Interplay

* `AgentRuns` ends where the message is enqueued: from there on it is a row of
  `NotificationOutbox`. The dedup key of `send_message` is the run action, which
  `EnqueueMessage` models by keeping the first message. `ClaimSweep!Warn` and
  `OfferLifecycle!CommitExtend` use dedup keys in the same way. A second
  extension of an offer the candidate has already answered is stopped by that
  key alone: `enqueueNotification` has no `ON CONFLICT`, and its error, although
  caught, aborts the transaction.
* `AiInterview` and `Notetaker` share the transcript drain; `Notetaker` models
  it, `AiInterview` its outcomes and what depends on their order.
* `Interviews` walks an application up to the offer, `OfferLifecycle` from there
  to the hire, `Employment` from the hire to the departure. The HR assessment
  appears in the first two, with the gate it controls. The hire event that
  `OfferLifecycle` enqueues and the one of day zero have different business
  keys; the drain is in `Employment`.
* `ClaimSweep` is a composition: every action of `PartnerClaims` and of
  `Scheduler` appears in it, with the job's body between `TryLock` and `Stamp`.

## 3. Runs

| Run | Instance | Distinct states | Holds |
|---|---|---|---|
| `outbox_single` | 1 worker, 2 rows, batch 2, cap 2, 1 dead pass | 12 388 | `DuplicatesExplained`, `AttemptsBounded`, `ImplementsQueue` |
| `agent_finish` | 1 agent with 2 rows, human_optional, no fault | 1 052 662 | `RejectionIsTerminal`, `PendingIsPaused`, `ApprovedRunsFinish` |
| `agent_shared` | 2 agents with 2 rows (human_required) and 1 row (auto), 1 crash or error | 6 598 295 | `SentAsApproved`, `OneRunInProgress` |
| `note_contended` | 2 sessions, 2 containers, 2 uploads, cap 2, retention ending at any time, 1 fault | 1 871 802 | `ConsentFirst`, `BilledWithinCap`, `AudioIsNamed`, `NoSecondBill` |
| `note_settles` | 1 session, 2 containers, 2 uploads, cap 2, 1 fault, fairness | 686 886 | `OutboxSettles`, `RetentionHonoured` |
| `offer_lifecycle` | 2 offers (1 above the band), 2 recruiters, 2 candidate requests, 1 fault | about 2.0 million | `OverBandApproved`, `AnsweredOnce`, `HireFollowsAnswer`, `AcceptedIsHired` |
| `ai_round` | 2 tabs, 2 questions, recordings of length 2, cap 2, 1 disturbance | about 5.5 million | `AnswersKept`, `AudioKept`, `SubmittedIsQueued`, `NeverBlindTooSoon`, `ReportOfSubmission`, `ReportBilledWithinCap`, `ApprovedSetStands` |
| `requisition` | 2 users, 3 revisions, 3 requests, 2 holds | 663 514 | `LiveWasApproved`, `QueueMatchesStatus`, `LiveAsScanned`, `PostedStaysPosted` |
| `claims` | 2 partners, 2 sessions, contacts of 2 people and one mixture, 2 requisitions, 3 claims, 3 requests | 342 136 | `Exclusive`, `NobodyTwice`, `NoPoaching` |
| `claim_sweep` | 2 workers, 2 pooled connections, 1 partner, 2 claims, 1 fault | 171 850 | `ExpiryIsWarned`, `LapsedIsFreed` |
| `interviews` | 2 rounds, 2 panelists, 2 requests at a time, 2 interviews, 6 requests | about 4.2 million | `OneLiveRound`, `DecisionBasis`, `LogIsChain` |
| `employment` | 2 mutations at a time, 1 departure, 6 requests, 1 fault | 902 662 | `TerminatedWasCleared`, `TerminationStands`, `HiredIsLinked` |

### Why these bounds

* Outbox: a second row is what makes a pass die with part of its batch done; a
  cap of two has a first, a last and (after an abandoned pass) a surplus
  attempt. All rows are alike and interact only through the batch. The theorems
  of section 5 do not depend on the bounds.
* Agents: the interactions are between two rows of the same agent (the writes by
  `(tenant, agent)`) and between the drain and one resolver. A second agent shows
  that its row is left alone. `agent_finish` has rules that the TTL scan approves by
  itself, so that all resolvers of a request race; liveness is what keeps it at two
  rows. In `agent_shared` the rows of the first agent are alike (symmetry). The number of
  runs is not bounded by a constant: a row gets a second run only if it is
  re-queued after a decision, which the code limits by itself.
* Notetaker: two sessions are the smallest number in which a completion is
  stamped over the work of the drain, or uploads to two containers cross; two
  uploads are what it takes to replace bytes; two attempts are a retry and a last
  one; one fault is a crash, an orphaned pass, a failed delete or a statement that
  throws, at every step. Vendor errors are no fault and may occur at every call.
  `note_settles` has one session because liveness excludes symmetry; uploads may
  still be repeated, come late or never be completed.
* AI interview: two tabs are two writers of turn_state, or a retry beside the
  request it repeats, or a page that is behind the row; two questions make an answer
  that is not the last; two attempts are a retry and a last one; one disturbance of
  any kind (a crash, a lease that runs out, a reload, a missed deadline, a second
  issue, a second generation, a regenerated report, a recorder started on a page that
  is behind the row) meets every state.
* Offers: two mutations and two answers overlap pairwise in every order; a
  third recruiter adds no new pair of read and write.
* Requisition, rounds, employment: two transactions give every pair of a stale
  read and a write. Three requests of a requisition are one sent back, one
  overlapping and one fresh; six requests book, complete, score and decide both
  rounds, or take a case from the notice period to its settlement and
  completion.
* Claims: a third claim on a person is one after a release and after an expiry;
  the mixed contact (the e-mail of one person, the phone of another) is the case
  in which the two lookups disagree.
* Claim sweep: two claims, one after the other on the same person, are what it takes
  for a warning to be mistaken for an earlier one;
  two connections are what it takes for a lock to be given back on
  the wrong one. A lock taken twice on one connection is the re-entrant case
  (`MaxLocks = 2`). One fault is a death, a failed stamp or a job that throws.

Deadlock is checked for `outbox_single` (which has an explicit `Finished` step),
the notetaker and the offers. The other systems may really stop: once every request
is decided, every row is closed and the bounded number of requests has been
made, nothing is left to do.

## 4. Fairness

Fairness is assumed only for loops that tick as long as the process runs, and
for the continuation of something already under way.

* `NotificationOutbox!FairSpec`: each worker goes on claiming and processing,
  the sweep ticks, time passes. No delivery has to succeed and no pass has to
  die. `setInterval` in `index.ts` justifies it; the number of passes that die
  is bounded. The liveness half of `ImplementsQueue` (an open message meets its
  fate) rests on it.
* `AgentRuns!FairSpec`: the drain and the TTL scan make progress. Recruiters
  owe nobody a decision, and no fault has to happen.
* `Notetaker!FairSpec`: the drain, its sweep and the daily purge make
  progress. Neither a browser nor a candidate has to do anything: an upload need not
  be completed, which is what `AwaitsUpload` stands for. Retention does not have to
  run out.
* `ClaimSweep!FairSpec`: ticks and jobs go on, intervals run out, and the pooler
  closes a server connection some day (`Recycled`; PgBouncer's
  `server_lifetime`). The last one is what frees a lock left behind on another
  connection; without it both properties are false. No claim has to come near its
  end or to lapse.
* `Employment!FairSpec`: the drain's loop runs on, and a request that has
  enqueued its event goes on to its commit. HR owes nobody a request.

## 5. Proofs

All theorems are for every value of the constants, from the assumption named in
the module, which TLC evaluates in every run of it. Mostly it says that bounds are
natural numbers and that a value standing for "nothing" is not also a key, a
partner or an offer. `Interviews` and `OfferLifecycle` also assume that the stages
a recruiter moves to are stages (`TargetsAssumption`).

### NotificationOutbox_proofs

* `TypeCorrect`: `Spec => []TypeOK`.
* `GivenUpLate`: `Spec => []FailedOnlyWhenExhausted`, for **any number of
  workers**. `TypeOK` and the property are not inductive: what a claim returned
  to its worker has to be bounded by the attempts of the row, because the catch
  block decides by the claim. `attempts` never decreases, so the bound survives
  sweeps and other claimants.

and under `SingleInstance` (no two workers are distinct), which is how the system is
deployed (`apps/workers/fly.toml`) and which section 6 shows to be needed:

* `SingleInvariant`: the inductive invariant `SingleInv` holds. The properties
  are not inductive either: a stamp by id is harmless only because the row it
  hits is still the stamper's. The invariant says so in four
  parts: a row a worker holds (in its batch or being sent) is 'pending' or
  'processing', and the attempt the worker remembers is the row's last
  (`HeldIsOpen`); the batch and the row being sent are disjoint, and one row is
  sent at a time (`OneAtATime`); a delivery beyond the lost stamps is stamped
  'sent' or is the one under way, and there is at most one (`SendsAccounted`);
  attempts stay within the cap plus the dead passes, strictly so for an open row
  that nobody holds (`AttemptsAccounted`).
* `SingleInstanceExplained`, `SingleInstanceBounded`: `DuplicatesExplained` and
  `AttemptsBounded` follow from it.
* `SingleInstanceFinal`: the action property `OutcomeIsFinal`.
* `SingleInstanceImplements`: the outbox implements `Queue!SafeSpec`. A step of a
  worker is the step of the queue of the same meaning, except that a pass which
  dies after a delivery loses its receipt there and then, and a sweep or a claim
  changes nothing but tries. `ReceiptsOwed` says that a copy whose receipt is
  not noted is the one being sent; `OutcomeRefines` and `AbandonRefines` are the
  two actions with a choice of abstract step.

Each action of the worker that disturbs the invariant has a lemma of its own
(`ClaimKeeps`, `DeliverKeeps`, `MarkSentKeeps`, `CatchKeeps`, `AbandonKeeps`).

### Requisition_proofs

* `TypeCorrect`: `Spec => []TypeOK`. `Txs` ties the fields of an open transaction
  to what it is doing (`TxTypes`, `TxFields`), which the later proofs use.
* `ApprovedFirst`: `LiveWasApproved`, however transactions overlap. Strengthened
  by what a held or resumed requisition, and the transaction resuming it, must
  have been through: an approving verdict that is never taken back.
* `QueueAgrees`, `ScannedLive`, `PostedStays`: the three properties of users who take
  turns, from one inductive invariant, `AloneInv`: while nothing has overlapped,
  at most one transaction is open and what it has read still holds. `AloneBegins`
  and `AloneEnds` say how a transaction starts and ends under it, `SubmitAlone`
  and `DecideAlone` treat the two commits that write several rows.

### PartnerClaims_proofs

* `TypeCorrect`: `ClaimsSpec => []ClaimsTypeOK`.
* `WindowsExclusive`: `Exclusive`, however requests, releases and the sweep
  interleave. It is the index that keeps it (`SlotFree`); `ClaimsInOrder` adds
  that a claim without a person is no claim and that only a lapsed claim expires.
* `RegisteredOnce`, `NobodyPoached`: `NobodyTwice` and `NoPoaching`, from
  `TurnInv`. Nothing is locked between the lookups of a submission and its
  writes, so the properties hold only while requests take turns, and the
  invariant has to carry what the request under way has read: the
  active claim it links to is its partner's own (`OwnClaims`), nobody has the
  contact it registers (`Strangers`). The sweep and a release do interleave with
  it; they only take claims away.

The module extends `ClaimSweep`, and its last section is about the composition:

* `SweepImplementsClaims`: `Spec => ClaimsSpec`. Whatever a worker, a lock or the
  pooler does, a step of the composed system is a step of the claims or leaves
  them alone (`SweepStepsClaims`); only the first statement of the job touches
  them, and it is the sweep. Every safety property of the claims therefore holds
  under the scheduled job, too: `OwnershipUnderSweep` states the three of them.
* `SweepTypeCorrect`: `TypeOK`. A lock that is taken again on its own connection,
  given back on the wrong one or left by a dead worker keeps its count in range
  (`LockCounts`).

### Interviews_proofs

* `TypeCorrect`. Typing needs what a transaction has seen (`SawEnough`): the stage
  it writes on is one it has read.
* `RoundsLiveOnce`: `OneLiveRound`, with no excuse, from the index alone
  (`RowsAdmitted`). A cancelled row must not become live again, which is why the
  invariant speaks of every row that is booked.
* `LogChained`: `LogIsChain`. The last transition ends where the application is
  (`LogIsCurrent`), because a stage and its transition are written together.
* `BookingsForward`, `BasisKept`: `BookingNeverMovesBack` and `DecisionBasis`. Both
  are about writes based on a fresh read (`stale` is history): what `SawEnough`
  says of the read then is true of the rows.

The second half of the module is about `AiInterview`, the round nobody sits on. The
two specifications share no variable and no fact; that of `AiInterview` is `AiSpec`.

* `AiTypeCorrect`: `AiTypeOK`, from `RoundTypes`. Three of its bounds are not a matter
  of types: an answer is for a question because the one that is asked is the
  least without an answer (`CurrentQuestion`, by well-foundedness of the
  numbers); the attempts of the report stay within the cap because a waiting row
  is below it and a pass gives back no more than the attempt it took; sets and
  regenerations are counted as disturbances.
* `ApprovedSetIsKept`: the action property `ApprovedSetStands`, with no excuse. Only a
  generation writes the questions, and its UPDATE repeats the check it began with.
* `ReportsTheSubmission`: `ReportOfSubmission`, however the tabs overlap. Once a round
  is submitted, nothing writes its answers or its status (`SubmittedStays`): the
  guard of the answer's UPDATE. `AboutSubmission` follows what the drain has read.
* `BilledWithinCap`: `ReportBilledWithinCap`, with no excuse either. By `Paid` the
  attempts of the row, on top of the cap for each report asked for before, cover
  the bill, and a pass on its way to the model holds one that is not paid for
  yet: that is the one a deferral gives back.
* `AnswersAreKept`: `AnswersKept`, from `TakesTurns`: while nothing has overlapped, one
  request is in flight, and what a request about to write has loaded is what is
  on the row. This is why the write of a whole copy loses nothing.
* `AudioIsKept`: `AudioKept`, from `AudioTurns`: one page records, what it uploads is
  its own, the size it will note is the object's, and a recording that is still
  running is at least as long as what was noted of it. A page loaded again shows the
  answers and starts no recorder; one that was loaded before them may (`unaware`),
  and then `missed` says so.
* `SubmittedGetsQueued`, `BlindOnlyWhenSettled`: `SubmittedIsQueued` and
  `NeverBlindTooSoon`, from `QueueTurns`. The rows of a submitted round are there, or
  the submission that is about to write them is; the transcript's row comes
  first, so a report that is there proves that it has been queued; and the
  stamp always finds a recording, because a spoken answer needed one
  (`SpokenIsRecorded`). Each statement of the submission has its lemma
  (`CloseKeepsQueues` to `ReportKeepsQueues`).

### Employment_proofs

* `TypeCorrect`, with cases numbered in order (`OpenedInOrder`).
* `ReportedAsCleared`: `TerminatedWasCleared`. The event is written before the
  case is, so the invariant follows the gates from the rows
  (`Recorded`) into what a transaction has seen (`SawGates`) to the event. What
  is recorded is never taken back, which is why a stale read does not hurt.
* `ReportStands`: `TerminationStands`. Once the event is out, the case is completed or
  held by the transaction that completes it (`Closes`).
* `HireIsNotLost`: `HireIsUnderWay`, for any mix of requests and overlaps. By `HireInv`
  nobody takes the case to day zero, or finds it there, before the event has been
  enqueued, and an event that has been enqueued is in the outbox, in the pass, about
  to be written back, or linked. The property itself excuses what follows a failure.

### OfferLifecycle_proofs

* `TypeCorrect`, with what a mutation carries to its writes (`Carries`).
* `ApprovedAboveBand`: `OverBandApproved`, from `ApprovalInv`: an approved request is
  in the record of approvals, and a mutation about to extend an offer above the
  band has read one. Approvals are final, so that read cannot go stale.
* `AnswersOnce`: `AnsweredOnce`, from `AnswerInv`: an offer before the candidate
  has been notified and not answered. The dedup index makes the first
  notification the only extension; the candidate's UPDATE repeats the check.
* `HiresTheAccepted`, `AcceptanceCompletes`: `HireFollowsAnswer` and `AcceptedIsHired`.
  `HireInv` says that a request in the pipeline of side effects has an answered
  offer; `WakeInv` that the place it has reached shows in the rows, and that
  an accepted offer without a case still has its request at work.

### Notetaker_proofs

* `TypeCorrect`. `Keyed` says that whatever acts on a recording finds one, and
  that the drain fetches by a key it really has.
* `BillsBounded`: `BilledWithinCap`, for any number of browsers and faults. By
  `BillInv` the count of attempts is ahead of the bill exactly while a pass may
  still reach the vendor, so that a deferral gives back an attempt that was not
  billed; a row is queued only below the cap.
* `RecordedWithLeave`: `ConsentFirst`, because nothing has happened to an interview
  that nobody was allowed to record (`ConsentInv`).
* `FirstTranscriptStands`: the action property `TranscriptKept`.
* `NothingBilledTwice`: the action property `NoSecondBill`, for any number of browsers,
  re-uploads, crashes and failed statements. By `PaidOnce` a stored transcript shows on
  the recording, or the pass that stored it is about to say so, unless the recording has
  lost its mark in one of the two ways `reopened` records.
* `NoAudioIsLost`: `AudioIsNamed`, for any number of browsers, with retention that runs
  out at any time. By `NamedInv` an upload finds its key on the recording it has
  written, and the sweep the key it has selected; uploads to one container may
  overlap as they like, and it is when two containers are involved, or the sweep,
  that `crossed` is set.

### AgentRuns_proofs

* `TypeCorrect`, with `Held`: what the drain has in hand is a run of the row it
  has claimed.
* `SentWasApproved`: `SentAsApproved`, for any mix of rules, recruiters and faults.
  `Reviewed` says of a gated run that nothing is decided before the gate, and that
  what was let through is the draft as it stands; `Carried` that the copy the drain
  has loaded still says so. The second holds because a decision needs a pending
  request and a run in hand past the gate has none.
* `OneAtATime`: `OneRunInProgress`, when no rule is `human_optional` (`NoOptional`).
  The assumption is needed: the TTL scan's late auto-approval revives a run that
  has ended (section 6). `LoneInv`: the probe has found no run when the drain
  opens one, and the run it resumes is the only one of the row in progress.
* `PendingWaits`, `RejectedIsOver`: `PendingIsPaused` and `RejectionIsTerminal`, for any
  number of applications per agent. By `OwnInv` a row that no decision on another run
  has moved has had one run, in progress whenever the row can be claimed; the
  agent-wide UPDATE reaches paused rows only, and those it reaches are `moved`.
* `ApprovedIsNotStranded`: `ApprovedIsQueued`, for such rows too. By `QueuedInv`
  the row in hand never looks like a duplicate, since it waits for nobody, and a pass
  closes its row only with a run that is completed, or not approved yet.

### Only model-checked

All liveness: `ApprovedRunsFinish`, `OutboxSettles`, `RetentionHonoured`,
`ExpiryIsWarned`, `LapsedIsFreed`, `HiredIsLinked` and the liveness half of
`ImplementsQueue`. Fairness and ENABLED are out of the prover's reach. Every safety
property that a passing run checks is proved. For three of the liveness properties that includes the half which
says that nothing is lost on the way: `ApprovedIsQueued` for `ApprovedRunsFinish`,
`HireIsUnderWay` for `HiredIsLinked`, `AudioIsNamed` for `RetentionHonoured`. That the
drain and the sweep then do their part, under fairness, is left to TLC.

The other way round, six properties are proved and in no configuration:
`FailedOnlyWhenExhausted`, `OutcomeIsFinal`, `BookingNeverMovesBack`, `ApprovedIsQueued`,
`HireIsUnderWay` and `TranscriptKept`. The theorem says more than a run would, and the runs of
the same modules already check what they lead to.

No module has a recursively defined function, so no fact is left to TLC for that
reason.

## 6. Limits of the models, and what was seen on the way

Things the code does that the passing runs say nothing about, because a property
excludes them (by `died`, `faults` or one of the variables in the table of section 2) or
because a model assumes them away. They belong to the reader's picture of what the passing runs
say. Each was seen in a counterexample to a stronger property.

Outbox
* `apps/workers/src/index.ts:32-34` calls the dispatcher safe by construction
  for several instances. The sweep re-queues every row that has been
  'processing' for five minutes, live or not; with two processes a row can be
  delivered twice by passes that both succeed. Production runs one machine, and
  with one the property is proved. `outbox_single` has that one process, so the pass
  that the sweep takes for dead is dead there.

Agents
* Approve, edit and reject address all paused outbox rows of the agent
  (`router.ts` 13221-13340). Two applications of one agent wait for approval; the
  approval of one re-queues both rows. When the other is rejected, its row is
  'pending' and not 'awaiting_approval', so the rejection leaves it in the queue,
  and the next pass opens a new run for the rejected follow-up. The comment at
  `router.ts:13324-13325` says that the worker won't pick it up again and that
  rejection is terminal. The other way round, a rejection fails the rows of requests
  that are still pending, and their approval resumes nothing. The properties of the
  agent are checked with two applications and excuse the rows this happens to
  (`moved`), and those only. `sla-imminent-scan.ts:420-424` argues that there is one
  row in flight per agent; the stale scan creates one per application.
* `ApprovedRunsFinish` and `RejectionIsTerminal` are checked with human_optional
  rules, `OneRunInProgress` with human_required and auto: with a human_optional rule
  the late auto-approval of the next point breaks it.
* The TTL scan auto-approves by id without looking at the status again: for a
  `human_optional` rule it overwrites a rejection made after its read. No shipped
  mutation attaches a `human_optional` rule to a draft, and `ttl_at` is set by
  snoozing only.
* A crash leaves an `agent_run_outbox` row 'processing' for ever; no sweep
  exists. `ApprovedRunsFinish` is therefore checked without faults, and
  `ApprovedIsQueued` says nothing after one.
* An error before the run is announced fails the outbox row but not the run.
* The candidate-QA agent gates `send_message` itself (`router.ts` 12826-12880).
  An action is executed before its gate, so the message would be enqueued first.
  Not modelled: the shape of the agent is fixed to draft, then send.

Notetaker
* The purge spares media with a queued row; a re-upload that is started and never
  completed leaves the recording 'pending', which the drain defers, free of
  charge, for ever, and the audio stays with it (`interview-media-purge.ts`
  77-83, 228). Both liveness properties excuse that state, by the name `AwaitsUpload`,
  and no other.
* Two browsers that record in different containers can both find no recording; the
  second to write the row leaves the first one's object to nobody. The same becomes
  of bytes put while the purge is between its delete and its stamp, and of an old
  object whose delete fails. The comment at `interview-media-upload.ts:394-397` wants
  no such audio; `crossed` marks the three cases.
* An upload may start while the drain holds the row; the bytes are replaced
  after they were fetched, and the transcript is of other audio
  (`interview-media-upload.ts` 289-298, `transcript-drain.ts` 423).
* The 45-minute lease is taken to outlast a live pass: the vendor's budget is
  20 minutes. With more than one worker, or a slower vendor, it does not follow.
* The completion's UPDATE by id takes a 'transcribed' recording back to 'uploaded', and
  a pass that ends between the INSERT of the transcript and the status leaves none:
  the vendor is then paid again for audio whose transcript is stored. `reopened` marks
  the two cases, and `BilledWithinCap` holds through them.

AI interview
* Two answers from two tabs: each writes the whole turn_state it rebuilt from
  its own copy, and one is lost (`AnswersKept` excludes overlapping requests).
  `recordAnswer` also acknowledges an UPDATE that hit no row.
* The comment at `ai-interview-session.ts:1442-1450` says that the order of the
  statements covers a crash; the retry it relies on is refused as
  already_submitted before it reaches them. A submission working from a copy
  without the voice answer never queues a transcript.
* `regenerateEvidence` while a pass is in flight
  (`ai-interview-evidence-read.ts` 253-258, `ai-interview-evidence-drain.ts`
  390-402): the older pass writes over the new state.
* The drain reads the transcript and the outbox row in two SELECTs; a transcript
  stored in between is overlooked by a report that says it had none.
* A page decides about its microphone by the view it has loaded
  (`AiInterviewClient.tsx` 163-167, `round-recorder.ts` 89-110). One that was loaded
  before another tab's spoken answers starts a recorder all the same; its first
  answer is refused and shows it the round as it is, but the recorder goes on, and
  the next upload replaces the only object. The audio of the earlier answers is lost
  without any two requests having overlapped. The model has it (`unaware`, `Refresh`);
  `AudioKept` excludes it (`missed`).
* The comment at `ai-interview-session.ts:1141-1144` says that a refused, shorter
  upload leaves the previous checkpoint standing. The browser PUTs to the round's only
  key, with upsert, before the API measures: the object has been overwritten by then,
  and what stands is the size noted for it.
* Of a page's view the model keeps whether it shows an answer. The question it shows
  is the current one unless it has missed the first answer. After the reply
  to the upload request, which carries no view, the page shows the round as ready to
  be sent until the answer's reply: a tab may submit at any time once there is an answer.
* `approveQuestions` approves whatever draft is there by then, also one generated
  after the recruiter looked; a start that is in flight while the link is issued
  again goes through with the old link; `signLink` rounds the expiry down, so
  link and row disagree for an instant.

Offers
* `cancelOffer` writes by id after an unlocked read (`router.ts` 6792-6820); an
  acceptance in between is overwritten, and its hire, fee and onboarding case
  are there all the same. A cancel and an extend that overlap can bring a
  cancelled offer back.
* `extendOffer` moves the application from `hr_round` to `offer_drafted`
  (6729-6744) without the assessment that `transitionApplicationStage` asks for
  (28211-28214).
* `AnsweredOnce` rests on the dedup index of the notification (section 2).
* A draft made earlier can be extended after another offer was accepted; the
  hire keeps the compensation of the first.
* `expired` is documented in the state machine (`offers.ts`) but no code
  writes it. `expiry_at` is read when the link is used.
* A 'reject' recommendation acts like 'hold' and is represented by it.
* The stages before the technical interview, the candidate-field gate, partner
  and candidate e-mails and the transitions log are left out. The enum's
  documentation calls the last three stages terminal;
  `transitionApplicationStage` lets a recruiter leave them.
* The inserts of the checklist are one step; "bare" stands for a case whose
  checklist is missing or incomplete.

Requisitions
* Two HR heads deciding at once both succeed: the request is read without a
  lock, and the comment at `router.ts` 5997-6000 speaks of a clean CONFLICT. A
  requisition can be live by the verdict on an older request
  (`LiveWasApproved` asks for any approved request).
* An edit that overlaps with a submission or a decision changes what is being
  approved; `LiveAsScanned` excludes it.

Claims and scheduler
* Two partners whose submissions overlap: the index on active claims refuses
  the second claim. A direct application or a release in between lets an
  application of another partner pass; `NoPoaching` excludes overlaps.
* A contact whose e-mail and phone belong to different people is matched by
  e-mail for partners and starts a third person for direct applicants.
* The scheduler's locks are session locks taken through a pooler in transaction
  mode: a second worker whose statement lands on the same connection gets the
  lock as well, and the unlock may land elsewhere. The comment that two workers
  can't pile up (`scheduler.ts:16-18`) holds only as far as the pooler keeps them
  apart. `ExpiryIsWarned` and `LapsedIsFreed` hold all the same: the statements of the
  sweep can be repeated, and its warnings have a dedup key.
* The warning of a claim goes to a partner user who is taken as known and active; the
  SELECT leaves out a claim whose user has been deactivated. That a claim is warned
  about once is what the unique index on the dedup key says and no property here.

Rounds
* No-show, cancel and complete write by id: of two that overlap the later one
  stands, also over a completed round. A stale draft save takes a submitted
  scorecard back, and a reopening can race the completion that counted it.
* The log is ordered by commit in the model; `revertApplicationStage` takes the row
  with the latest `transitioned_at`, which is when its transaction began. The two differ
  only for transactions that overlap, and those that then write are `stale`.
* `syncStageForRound` works from the stage read at the start: a rejection in
  between is undone by the booking.
* `candidateConfirmInterview` can confirm a round that was cancelled meanwhile.

Employment
* The comment at `router.ts` 14486 says that the hire is enqueued after the case
  row is committed; the transaction commits later, and `effective_date` is
  computed on the other connection from what it sees.
* A failure between the tasks of a checklist leaves a case that lacks the tasks
  its gate asks for and so can never be completed; the index admits no second.
* Overlapping moves of a settlement can take 'paid' back to 'approved', and an
  overlapping cancel overwrites 'completed' after the termination was sent.
* An asset_return task is completed when everything is back and never reopened
  when another asset is added.
* The Workday drain neither retries nor sweeps; `HiredIsLinked`,
  `HireIsUnderWay` and `TerminationStands` excuse what follows a failure.

## 7. Not modelled, and what is next

Left out of modelled components: integrity events, the identity of the link on a
second issue and a change of container between answers (AI interview); edits of
the plan, the recording request, e-mails and roles (rounds); onboarding tasks
and documents, geography, the exit interview, the rows of asset returns and
learning paths (employment); skills, knockouts, the import wizard, candidate
matching and the approval matrix, which has one step (requisitions); partner
teams, invitations and assignments (claims). They are single statements under
unique indexes, or gate nothing that is modelled.

Left out altogether:

* AI scoring drain: one claim, one model call, one write; the drain of
  `Employment` has its shape, and shows what the missing sweep leaves behind.
* Application intake beyond what `PartnerClaims` has, users and memberships: CRUD
  under unique indexes and one-time links; authentication is external.
* Tenant isolation: row-level security policies of the database. What it does to
  concurrency, one transaction per mutation, is in every module.
* AI client, usage log, budget: external calls and an append-only log.
* Reports, ask-data, assistant, portals, SLA scan: queries, prompts, rendering,
  and notifications through dedup keys.

By lines most of the repository is of these kinds: procedures that read, seed
scripts, schemas of requests and responses, and pages. They keep no state that
several actors write in several steps, and a model of them would repeat their
text.

Worth doing next: the refinement of `MessageQueue` by the transcript drain, for
which it needs a notion of a deferred try; and what is left of `AnswersKept` when
tabs overlap, from what a tab's copy of the turn_state may lack.
