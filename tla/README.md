# ResumeRank: TLA+ models

ResumeRank is a multi-tenant applicant-tracking application: a TypeScript backend
(`backend/src`, services over Prisma and Postgres) and a Next.js frontend whose server
actions, API routes and cron routes call the services. There is no long-running server:
every request, `after()` callback and cron run is a short-lived instance, any number of
them at once, and all coordination happens in Postgres (READ COMMITTED), with the model
provider, blob storage, the mail provider, Stripe and customers' endpoints outside it.
What is hard about the system is therefore what this project models: the interleavings of
those instances' statements, instances that die between two of them, and calls to the
outside that are no part of any transaction.

## Inventory

| Part | State | Operations | What is hard | What makes it correct | Module |
|---|---|---|---|---|---|
| Scoring pipeline (`scoring/queue.ts`, `services/scoring.ts`) | ScoringRun rows, the score mirrored on Application, token budget | request one, request a job, claim, evaluate, charge, commit, retry, recover | claims by many instances, lost leases, opt-out or edits while queued, caps counted then used, row-lock order | one active run per application, exact caps, one owner, bounded attempts, the shown score is its run's, every run ends | `ScoringQueue` |
| Resume files (`ingestion/queue.ts`, `services/resume-files.ts`) | ResumeFile rows, blobs, Candidate.resumeText | upload, claim, read, settle, retry, recover | blob storage outside the transaction, files finishing out of order, erasure during upload or read | originals outlive rows, the text is one that was read, every file settles | `ResumeIngestion` |
| Candidate erasure and retention (`services/candidates.ts`, `retention/candidates.ts`) | Candidate rows, their files | delete, purge | list-then-delete, deadlock with workers, blob delete after commit | a row's original is not deleted before the row | `ResumeIngestion` |
| Email outbox (`email/outbox.ts`) | EmailMessage rows, suppressions | enqueue, claim, send, settle, provider events, prune | crash between send and settle, events before the settle, suppression during a send, expiry | no double send from overlapping drains, no mail after a suppression | `EmailOutbox` |
| Outgoing webhooks (`webhooks/*`, `services/webhooks.ts`) | endpoints, deliveries | queue, claim, deliver, pause, delete, purge | the lease is the next attempt time, pause or delete during a send | a repeat only after a fault, bounded attempts, every delivery settles | `WebhookDelivery` |
| Audit log (`audit/*`, `services/audit.ts`, the `audit_log` migration) | sealed hash chain per company, retention cut, stream cursor | append, seal, purge, verify, stream | commit order against `seq`, purge during verify or stream, settings saved during a delivery | gap-free chain, the cursor never skips, a purge cuts a justified prefix | `AuditLog` |
| Rate limits (`rate-limit.ts`, `auth/login-throttle.ts`) | one counter row per key and window | look, spend, count failures, prune | window boundary, concurrent attempts, a statement that waits | a bounded overshoot and no more | `RateLimit` |
| Billing (`billing/webhooks.ts`, `services/billing.ts`) | the company's plan columns, StripeEvent rows | checkout, apply event | events repeated and out of order, a snapshot read before the transaction | each event once, the latest state wins, the grace period runs | `Billing` |
| Metering (`billing/metering.ts`) | the cursor, runs not yet reported | report usage, save the cursor | overlapping passes, a webhook that writes the cursor back, runs that commit late | no run is skipped | `Metering` |
| Team and workspaces (`services/team.ts`, `auth/workspaces.ts`, `billing/seats.ts`, `sso/directory.ts`) | memberships, invitations, owner, seats | invite, accept, join, change role, transfer, remove, deprovision | last owner, seats counted under an advisory lock, an invitation accepted while revoked | an owner stays, never over the seat limit, one person per invitation | `Memberships` |
| Sign-ins and second factors (`auth/*`, frontend `lib/auth`) | sessions, session version, factors, epoch | sign in, revoke, enrol, remove, prove, reset | revoke against a request under way, two first factors at once | a revoked sign-in stays out, a pass was proven | `SignIn` |
| Pages and guards (frontend `proxy.ts`, `lib/auth/guards.ts`, pages) | one cookie | redirect, hold, release, clear | many rules at once | no redirect loop, no dead end, a live sign-in is kept | `PageGuards` |
| Applications, jobs, teams (`services/applications.ts`, `jobs.ts`, `hiring-team.ts`, `departments.ts`) | applications, decision records, scorecards, teams, rubric | create, move, remove, rate, assign, save the form | a role or a row read before the transaction that writes | blind review, a record that ends at the stage, no access left behind | `HiringPipeline` |
| Lists (`services/pagination.ts`) | none; the client's cursor | open, next, previous, export | rows change their key between pages | nothing skipped that stood still | `KeysetList` |
| Staff support (`staff/support-sessions.ts`) | grant, support sessions | grant, withdraw, start, end, act | a grant withdrawn while a session starts | read-only, ends with the grant | `SupportSessions` |
| Model client (`ai/llm.ts`, `ai/circuit-breaker.ts`) | breaker per model, in one process | complete, fall back | half-open probes | its outcomes are steps of `ScoringQueue` | – |
| Pure parts (`flags`, `scoring/math.ts`, `tenant-db.ts`, `ip-allowlist`) | none | evaluate | – | – | – |
| Frontend components | none of their own | call the services, start drains | who drains when | appears as fairness | – |

PROJECT.json lists every part with its sources, its status and the reason where it is not
modelled, and the hazards line by line.

## Modules

A definition carries the name of the function or the statement it models. Each module's
`Next` has an action per statement or per handler, as finely cut as others can come in
between under READ COMMITTED; a transaction whose statements nobody can tell apart is one
action. Counters that would make a model infinite have a constant `Max...` for a bound.

**`ScoringQueue`.** A recruiter's request (`user`) takes row locks one at a time in id
order (`LockNext`, as `lockApplications` does), decides under them (`DecideOne`,
`DecideBulk`) and writes (`CreateRuns`, `ReuseRun`). A worker's lane (`worker`) reads its
clock (`ClaimStart`), takes the advisory lock and counts (`ClaimCount`), takes the oldest
due run of an unsaturated tenant (`ClaimTake`), loads and re-checks (`Load`,
`CheckBudget`), calls the model (`Evaluate`, `EvaluateError`), charges
(`ChargeAiTokens`) and commits if it still owns the run (`Commit`); `FailRun`, `RetryRun`,
`Throw` and `RecoverStaleRuns` are the error paths. `Crash`, edits, opt-outs and time come
from outside. `lockedAt` is the claim's token, exactly as in `ownedBy`. The input is a
model value; its hash is the value itself (equal inputs, equal hashes).

**`ResumeIngestion`** models uploads, the parsing queue and erasure. The settling
transaction of `processResumeFile` is split into its statements because what each of them
sees is the point; the erasure into list, lock, cascade and blob deletion. The file's and
the candidate's row locks are state functions of the actors' program counters; Postgres'
deadlock detection picks either victim. Blob calls and commits can fail or lose their
answer, up to `MaxFaults`. `Backoff` is any function of the attempts with positive values;
the runs give it the code's doubling.

**`EmailOutbox`**: queueing, the lanes of a drain (`ClaimStart`, `ClaimNextEmail`,
`CheckExpiry`, `CheckSuppressed`, `DeliverEmail` or `DeliveryError`, `Settle` or
`RetryOrFail`), recovery, pruning and the provider's events. `accepted` counts what the
provider took, `lost` remembers the messages whose send was given up for lost although it
may have happened.

**`WebhookDelivery`**: admins count and add endpoints, pause, resume and delete them; an
event reads the endpoints and queues a delivery for each; lanes claim, send and record. A
delivery has no sending status: it is claimed while `lockedAt` is set and fresh, and an
attempt is counted when it is recorded, so a crash is no attempt. `Stall` is an instance
the platform freezes; without it the 10 s timeout of a send ends before the lease of two
minutes does, which is what the guard of `Tick` says.

**`AuditLog`** models one company's log. A writer (`tx`) begins, is sealed under the
advisory lock (`AuditSeal`, the deferred trigger) and commits its change and its entry
together; its `op` is an ordinary mutation, one of the owners' operations or a change of
the entitlement. `PurgeStart`, `PurgeBoundary` and `PurgeCommit` are the statements of the
retention purge, `VerifyRead` and `VerifyAnchor` the queries of a verification with
`FindChainBreak` between them, and a drain's steps go from `ClaimNextStream` to `Settle`.
A hash is the number of the entry it was computed for, since equal hashes mean equal
entries. A claim's `lockedAt` is represented by its time and its drain: a tick is much
longer than a millisecond, so claims within a tick still have different values.

**`WorkQueue`** is the abstract specification of the job tables: an item waits, is worked
on at most `MaxAttempts` times and stays done. `ScoringQueue`, `ResumeIngestion` and
`WebhookDelivery` implement it (`ImplementsWorkQueue`) through a mapping of their statuses
(`QueueState`); a recovery that moves several rows is one step of it. A webhook's attempt
is counted when it is recorded, so the mapping counts the claim under way as one.

**`Memberships`**: a request begins with its caller's role (`BeginRole`, ... `BeginJoin`),
reads its target, then writes; joining goes through `ClaimInvite`, `ReadLimit`,
`LockSeats`, `CountSeats` and `CreateMembership`. A claimed invitation's row is locked
until the commit, and `ResolveDeadlock` picks the victim when two wait for each other.

**`Billing`**: changes at Stripe make events, delivered at least once and in any order; a
handler reads the subscription anew before the transaction that stores it. Plan, seats and
period are one version number; unpaid and paused count as incomplete, trialing as active,
which is how the code treats them. **`Metering`**: passes that may overlap read, report
and save the cursor; the webhook writes back the one it read. Time is in milliseconds,
because the cursor steps back by one; the module assumes that fewer runs than `BatchSize`
finish within one, else a pass could not move on.

**`SignIn`**: one account's browsers, each request with the guard's two reads, changes of
the password, and factors added, removed, proved and reset with the epoch they share. A
token is refreshed by actions only, and a revoked row is deleted. **`RateLimit`**: the
sliding window in its two statements, with a ghost total of what was really admitted by
each moment; the clock waits for a statement no longer than the statement timeout
(`db.ts:26`) lets it.

**`PageGuards`**: one person's way through the pages. What owners, identity providers and
staff may have set is chosen in `Init`, each combination being one a sign-in may wake up
to; afterwards only the person moves.

**`HiringPipeline`**: requests read their person's role, then the row, then write; the
decision record, scorecards, the team and the departments; the job form, whose rows keep
their ids when they are saved. `BlindToScores` asks for what a role is told with these
scores and with any others (`GetApplication`, `ListApplications`, `AverageScore`).
**`KeysetList`**: a cursor is the key and the id of a row as it was shown; ids are ordered
independently of the keys, and a score never goes back to null. A page is the rows at the
first places of the order, counted from the cursor.
**`SupportSessions`**: a staff member's two tabs, one sign-in; the row locks of ending a
session are explicit.

The `MC` modules give the runs their constant functions, symmetry sets and, where several
small modules share a run, a variable (`subject` or `focus`) chosen at the start that says
which of them the behaviour is about: `MCOutgoing`, `MCAuditLog`, `MCCompany`, `MCSignIn`
and `MCHiring`. The modules of one run share no state, so such a run is the union of
theirs.

## Runs

| Run | Instance | Properties |
|---|---|---|
| `scoring_claims` | 1 application, 2 workers, 1 recruiter, 2 attempts, 1 edit, 1 crash | `OneOwner`, `ImplementsWorkQueue`, `OptOutHonoured` |
| `scoring_reuse` | 1 application, 1 worker, 2 recruiters, 3 runs, 2 edits between 2 inputs, costs 0 and 1 | `OneActiveRun`, `ScoresAgree`, `BudgetOvershoot`, `NeverPaidTwice` |
| `scoring_caps` | 3 applications of 2 tenants, 2 workers, caps 1 and 2, 1 crash | `WithinCaps` |
| `scoring_progress` | 2 applications, 1 worker, 2 recruiters, 1 crash, fair | `ScoringSettles` |
| `ingestion_files` | 1 upload, 2 lanes, 1 erasure or purge, 2 attempts, 1 fault, fair | `ResumesSound`, `ImplementsWorkQueue`, `FilesSettle` |
| `outgoing` | 1 endpoint, 1 event, 1 admin; or 1 message; 2 lanes, 2 attempts, 2 faults, fair | `SentOnce`, `ImplementsWorkQueue`, `SuppressionHonoured`, `OutgoingSettles` |
| `audit_log` | 1 writer with 2 purges (of at most 2 entries) and 1 verification over 4 entries, or with 2 drains and 1 fault over 3; batches of 1; fair | `ChainSound`, `NothingSkipped`, `PurgeJustified`, `EntriesDelivered` |
| `company` | 3 people, 2 requests at a time and 3 in all, seat limits 2 and none; or 2 subscriptions, 2 handlers, 3 changes, 1 failure; or 2 passes, 3 runs, batches of 2, 1 fault; fair | `LatestStored`, `GraceRuns`, `NothingSkipped`, `InviteOnce`, `NoOversell`, `OwnerKept`, `AllSettles` |
| `signin` | 2 browsers, 2 requests, 2 factors, 1 revocation, 2 epochs; or 2 attempts, limit 2, windows of 3 ticks, time up to 7 | `EndedStaysOut`, `SecondFactorProven`, `AttemptsThrottled`, `OneEpoch` |
| `pages` | 1 person, 2 workspaces, at most 2 rules on the first and at most 1, of those that decide which workspace is opened, on the second; 9 redirects | `NeverStranded`, `LiveSessionKept`, `SignInAdmitted` |
| `hiring` | 3 people, 2 applications, 2 stages, 2 scores, 2 decisions, 1 run per application; forms of 2 rows, 2 edits; 4 staff changes; lists of 5 rows, pages of 2, 2 changes; 2 tabs, 2 sessions, 3 grants, clock up to 3 | `BlindToScores`, `RecordKept`, `LeaversStartOver`, `FormSaved`, `ListsWalked`, `SupportBounded` |
| `stage_events` | as `hiring` | `StageChangesTold`, expected to fail |

What they show, and why the bounds are enough:

* `scoring_claims`: ownership is a relation between two workers, a run and a lease; a
  third worker adds no relation. Two attempts are the least with a retry, one crash the
  least with a recovery.
* `scoring_reuse`: three runs and two edits are the least that bring an input back after
  another one was scored. The recruiters are symmetric.
* `scoring_caps`: two tenants with two lanes and a cap that one of them can fill alone.
* `scoring_progress`: overlapping sets of row locks need two applications.
* `ingestion_files`: two lanes on one file for lost leases and an erasure against both.
  `ResumesSound` is what the code keeps: the text is one that was read, the original is
  there as long as its row.
* `outgoing`: a second copy goes out only after a fault the sender cannot tell from a lost
  answer; overlapping drains alone never cause one. Two faults are a crash followed by a
  failing update.
* `audit_log`: `ChainSound` is as strong as the code allows. A verification that a purge
  overtakes can report a fault in an untouched log (its batches are separate statements),
  and only then. The stream's three entries in batches of one allow two claims in flight
  and one entry after both; two purges overlap on the cut. `NothingSkipped` has no purge
  between the entry and its delivery in the run; the theorem covers purges too, which may
  take an entry before it was sent once it outlived its retention.
* `company`: two requests at a time decide every race of the team; three in all allow one
  of them to depend on a third's result. Three changes at Stripe are a subscription, its
  end and its successor. Batches of two with three runs leave a pass with a rest.
* `signin`: one revocation against two requests, factors that turn the epoch twice.
* `pages`: no chain of redirects is longer than `MaxSteps`; with one step less
  `NeverStranded` fails. That a page leads on means that the guard of one of its steps
  lets it through (`MayProceed`, the first conjuncts of those actions).
* `hiring`: what two requests can do to one application; five rows and pages of two have a
  middle page with neighbours on both sides.
* `stage_events`: `docs/api.md:139` says `stage_changed` tells the previous stage. Two
  people moving one application at once are told a stage it was no longer in.

**Time.** Where a clock only decides whether a backoff or a lease is over, it advances
only while one is pending; once every queued row is due and every claim stale, a later
clock decides nothing, so no horizon is needed. `RateLimit`, `SupportSessions` and
`Metering` bound it.

**Fairness.** Drains run after every upload and request, from status polls and from a
cron every minute, so lanes keep claiming, stale rows keep being recovered and passes keep
being made (weak fairness of each lane's steps, of `Recover...` and of `Tick`); the steps
of an instance follow each other. Postgres grants a lock to its waiters in turn, so steps
that wait for one are strongly fair: `ClaimCount`, `Commit` and `LockNext` of
`ScoringQueue`, a lane's steps and an erasure's in `ResumeIngestion`. Deadlock detection
is fair. Stripe delivers every event again until it was handled, so handlers are fair.
Crashes, failures, edits and clicks never are, and the number of faults is bounded in the
cfg; attempts are bounded by the code. In `MCCompany` the fairness of a disjunction over
the subjects is that of its disjunct about the subject, the only one ever enabled.

**Deadlock** is checked where the system cannot stop. It may in the ingestion (every
upload settled or erased), the company's requests, the sign-ins, the pages and the hiring
run (every bound used up).

## Proofs

A theorem holds for every value of the constants under the named assumptions of the
module, all of which TLC evaluates too: numbers of actors are arbitrary sets, caps, limits
and attempt limits natural numbers, delays positive, the cost of an answer bounded
(`CostAssumption`: an answer has a token limit in `scoring/engine.ts`, and so has its
input). Each proof has one inductive invariant, model-checked on the run's instance before
it was proved, and one step per action. `Invariance` is `Spec => []IndInv`; the theorems
below follow from it or from its step.

**`ScoringQueueProofs`**: `TypeCorrect`, `AtMostOneActiveRun`, `ClaimsAreExclusive`,
`ScoresCorrect`, `FinishedRunsStay`, `ScoringImplementsWorkQueue`. `IndInv` adds to the
properties `LanesInv` (a lane that processes a run holds a scorable input and a token not
in the future), `RequestsInv` (held rows are exclusive; what a request decided under its
locks stays true while it holds them) and `ClaimsInv` (a queued run is due only after
every claim ever made on it; a running one carries the latest). `ClaimsInv` is what makes
`lockedAt` a fencing token: a run can be claimed again only later than every token in
circulation, because a retry's delay is positive and recovery requires the lease to have
run out.

For the refinement `AttemptsInv` is added: a queued run has an attempt left, and a worker
that still owns its run has the true count in its own copy, by which `retryOrFail`
decides. That copy goes stale only when another claim takes the run, and by `ClaimsInv`
that claim's token is later, so the old worker no longer passes `ownedBy`. Every step is
one step of each row (`RowStep`) and of each lane (`LaneStep`), and each row's step is a
step of `WorkQueue`.

Beyond these: `CapsAreExact`, `OvershootIsBounded`, `PaidOnce` and `OptOutsHold`.
`CapsInv`: one lane at a time is between its count and its claim, and there is room for
the run it may take. `BudgetInv`: the usage is below the budget plus the greatest cost of
one answer for each lane that passed the check and has not charged yet; `FreshInv`: a
request's plan is still what a new look would decide, because it holds the application's
row lock. That an opt-out is honoured for good, which nests a temporal operator, is an
invariance started anew at the opt-out: `Unscored` says that the run has not succeeded and
that no lane which may still write it has an input for it; a lane gets one only by looking
whether the candidate may be scored.

**`ResumeIngestionProofs`**: `TypeCorrect`, `ResumesAreSound`,
`IngestionImplementsWorkQueue`. `UploadsInv`: the original is stored before its row is
made; `RowsInv`: rows go with their candidate; `LocksInv`: row locks exclude each other;
`ErasersInv`: an erasure removes originals only of candidates that it or someone else has
erased; `ClaimsInv`: the clock orders the claims of a file; `AttemptsInv` as for the
scoring.

**`OutgoingProofs`**: `TypeCorrect`, `SentOnlyOnce`, `SuppressedStayUnsent`,
`DeliveriesImplementWorkQueue`, for finite sets of endpoints and drains. For the webhooks,
`ClaimsInv` orders the claims of a delivery by the clock, as above; `CountsInv`: a drain
that still owns its delivery has its true count of attempts, and whatever is counted was
started. `SendsInv` is the heart of it. It counts what a receiver has accepted, the drains
that may still send, and the ones that were frozen before they claimed: together no more
than the faults, plus one while the claim under way has not failed or once the delivery is
settled. A drain can take over another's claim only when that one was frozen for longer
than the lease, and it was the fault that froze it which pays. For the emails,
`MailCountsInv`: what was handed over and the lanes that may still do it are no more than
the claims; `MailOnce`: a message not given up for lost is with one lane at most, and once
handed over that lane can only settle it; `MailRowsInv`: only settled messages have a
receipt, so that a late provider event never changes one that is being sent. A suppressed
address is `Barred` once no lane is past the check with its messages: nothing lifts the
suppression, and no lane passes the check again.

**`AuditLogProofs`**: `TypeCorrect`, `ChainIsSound`, `PurgesJustified`,
`StreamSkipsNothing`. `NumberedInv` and `LinkedInv`: entries are numbered without a gap,
each carries its predecessor's hash, and the oldest one's is recorded by the entry of the
purge that cut there; `SealedInv`: a sealed writer has the lock and its entry continues
the log; `PurgerInv`: where a purge will cut there is an expired entry at or above, and
the newest one above; `VerifierInv`: what a verification has read is still so, or a purge
raced it; `DrainInv` and `StreamInv`: a drain that still owns the stream works from its
cursor, on a batch without a gap, and what it delivered was accepted.

**`SignInProofs`**: `TypeCorrect`, `EndedNeverReturns`, `PassesAreProven`,
`EpochsDoNotOverlap`, `AttemptsStayThrottled`. `UnrecordedInv`: a sign-in without a row
has one request and no token; `EndedInv`: the row of an ended sign-in is revoked, or was
recorded too late with the version of before, and nobody can refresh its token;
`ProvenInv`: whatever says that a sign-in has proved an epoch is right. For the rate
limiter, `SpentInv`: a row that may still be read has counted all that its window
admitted; `SpendingInv`: what a statement read of the window before is all that was
admitted there, but for what came late; `StretchInv` turns the two into the bound on any
stretch of a window's length, by `Fading`, the lemma about the weight that the window
before still has; `TotalsInv` says that the totals only grow, and `GuessesInv` that an
account's guesses are admitted or under way.

**`CompanyProofs`**: `TypeCorrect`, `InvitesOnce`, `SeatsNotOversold`, `OwnerStays` about
the team, `LatestIsStored` and `GraceRunsOn` about billing, `UsageNotSkipped` about
metering. For the team, `SeatInv`: one request at a time has the seat lock, and what it
counted bounds the members until it commits; `InviteInv`: an invitation somebody may still
come in by is pending or held by one request; `RoleInv`: while no role has changed since
it began, what a request has read is true; `RequestInv`: what it has read at all.

For billing, `EventsInv`: events are numbered in Stripe's order, and a subscription is at
the version of its last event; `HandlersInv`: the snapshot a handler read is at least as
new as its event, and a handler that was not overtaken decides on the row as it is;
`AccountInv`: once the last event about a subscription is handled the row shows that
version, and a live subscription is the one it shows; `AppliedInv`: an event with an
effect is recorded. Ordering comes only from the read: a late event makes its handler read
what is latest, whatever the event itself said. `LatestStored` exempts the overtaken
handler (`raced`), for which TLC finds the older snapshot left behind.

For metering, a time is `Covered` when every run that counts and finished by then is with
Stripe or too old. `CursorInv`: the cursor, and the webhook's copy of it, are covered;
`PassesInv`: so is what a pass writes, and a counting run that finished before one it has
still to send is sent or in its hand; `RunsInv`: runs are numbered as they finish and
visible once the settling time has passed, so that a pass cannot read past one that is
not. Whichever pass writes last, it writes a covered time, and covered times stay covered.
`FirstOfFew` is the lemma about a batch: one that is not full is all there was.

**`HiringProofs`**: `TypeCorrect`, `ScoresStayHidden`, `RecordIsKept`,
`LeaversReachNothing`, `FormIsSaved`; `ListsAreWalked` about the lists, and
`SupportStaysBounded` about support sessions. `StaffInv`: only members are on teams and in
departments; `EntriesInv` and `RecordEndsAtStage`: the record of an application ends at
its stage; `EntriesInv` and `RequestsInv`: the applications that decisions and requests
under way are about exist. `FormApplied` is the lemma about saving a form: the rows it
leaves are in one-to-one correspondence with the form's. For the lists, `WalkInv`: of the
rows that stayed as they were while somebody paged through, those met so far are the ones
up to the cursor, each once; `NullsInv`: only scores are missing, and a list by score
descends. It rests on lemmas about a page: `Fetched` says what the first places after a
cursor hold, which rank alone decides; `SeekOrder`, that the condition built from a cursor
agrees with the order, forwards and backwards; and `FirstPageHas`, that a first page
reached by going back misses none of what lies before it. For support sessions, `TabsInv`:
the sessions a start is about to end are open, and no two starts hold the same one;
`SessionsInv`: a session whose end was entered has ended, and one withdrawn with its grant
has ended or expired.

**`PageGuardsProofs`**: `TypeCorrect`, `LiveSessionsStay`, `AcceptedSignInsEnter`,
`ChainsEnd`, `NobodyStranded`, for any number of workspaces of any kinds.
`AcceptedSignInsEnter` rests on `Landing`: the workspace a sign-in lands in is one it may
open wherever there is one, by which the check before the sign-in and the guards after it
agree. `ChainsEnd` is termination by a measure: `StepsAhead` is the longest way that a
page may still lead, and `ChainInv` says that it and the steps taken come to nine at most,
as each redirect and each owed step uses one up. `NobodyStranded` needs `MaxSteps` to be
nine or more, then; by `ShownInv` what a page found when it was shown still holds as long
as the person stays on it, and by `StepAdmitted` the step it offers is one whose guard
lets it through.

Every invariant and every action property of the passing runs is a theorem. Only
model-checked is the liveness, as fairness is beyond the prover: `ScoringSettles`,
`FilesSettle`, `OutgoingSettles`, `EntriesDelivered`, `AllSettles`.

## Plan

Next models: the SSO settings, staff's company controls, the model client's breaker.

## Left out

Prompts, parsing of model output, PDF and OCR reading, encryption, formatting, logging,
validation schemas, queries without state, and the user interface: they hold no state that
an interleaving could break. The audit entry each operation writes is left out of the
other modules: it commits with the operation, which is what `AuditLog` models. Single
sign-on's settings (`services/sso.ts`), staff's company controls (`staff/companies.ts`) and
feature flags are rows written by single statements or reads of them; seeds and evaluation
scripts are tools. In `SignIn`, step-up prompts, idle limits and workspace switching are
left out; `PageGuards` has the pages they lead to.

## What the code does that its documentation does not say

The properties are as strong as the code keeps them; these are the places where a
document, a comment or a plain reading promises more.

* Scoring: an answer rejected twice is never charged (`docs/architecture.md:1424` against
  `ai/llm.ts:211` and `scoring/queue.ts:231`).
* Ingestion: two overlapping settling transactions can leave the older resume's text
  (`ingestion/queue.ts:100`, `docs/architecture.md:1362`); an upload that commits between an
  erasure's list and its delete leaves its original behind (`docs/architecture.md:1374`,
  `services/candidates.ts:437`); a candidate edited between the purge's read and its delete
  is deleted (`retention/candidates.ts:37`).
* Billing: two handlers at once may leave the older snapshot (`billing/webhooks.ts:43`;
  `LatestStored` exempts it); a comped workspace's plan is handled otherwise than
  `docs/architecture.md:689` says (`billing/webhooks.ts:93`).
* Rate limits: a statement that waits for a row while the window turns may admit one more;
  `Retry-After` is the rest of the window (`rate-limit.ts:58`, `docs/api.md:43`).
* Team: the owner may be deprovisioned by a directory event that read the role before a
  transfer (`sso/directory.ts:165`); `OwnerKept` says exactly when.
* Second factors: two requests at once can leave them on with no factor or off with one
  (`auth/mfa/state.ts:141`).
* Hiring: besides `stage_events`, the decision record holds the score that is latest when
  the transaction reads it, not the one on the screen (`docs/architecture.md:1184`,
  `services/applications.ts:472`); decisions are listed by time, not in the order they
  follow each other; an application can be added to a job closed meanwhile; a scorecard
  can be saved for an application removed meanwhile.
* Support: a session started while its grant is withdrawn can stay open and work again
  under the next grant; two overlapping starts leave two open sessions. When the member
  the session shows has left, every action of the staff member is refused until it expires
  (`lib/auth/run-action.ts:38` against `guards.ts:660`), though `guards.ts:433` calls it
  lapsed.
* Pages: `/session-ended` signs out a sign-in that is merely held; staff whose own
  workspaces are all suspended or enforce SSO cannot reach the console.
* Not modelled: `services/sso.ts` counts and lists without locks, as does the limit on
  endpoints in `services/webhooks.ts:86`; the export of the audit log logs a count it takes
  before the batches.
