# Verification of Stellar-Insured-Backend

TLA+ specifications of the stateful parts of the backend, model-checked with TLC,
with machine-checked TLAPS proofs of almost all of their safety properties for every size
of the system. The backend is a NestJS service over PostgreSQL (Prisma), Redis (cache and
Bull queues), Soroban RPC, S3, IPFS and SendGrid. Paths below are relative to the root of the
repository.

## Inventory

| Component | State | Operations | What is hard | What makes it correct |
|---|---|---|---|---|
| Pools, policies, claims (`src/insurance/`) | `InsurancePool`, `InsurancePolicy`, `Claim` rows, audit rows | purchase, cancel, expire, create, assess, pay, reject, lock/unlock, addCapital | transactions at READ COMMITTED with checks on stale reads; unlock check that rolls back | locked capital equals what was locked and unlocked; closed policies stay closed; one settlement per claim |
| Reputation (`src/reputation/`) | `User.reputationScore`, history rows | adjustReputation inside claim transactions | absolute write after a read | a score follows from its history |
| Audit (`src/insurance/services/`, `src/audit/`) | `AuditLog` rows | log* in the caller's transaction | – | one row per committed change |
| Idempotency (`src/interceptors/`) | `IdempotencyKey` row | claim, replay, re-arm, mark, nightly cleanup | overlapping retries, lost marks, soft-deleted keys | at most one commit per key and window; replay only of a commit |
| Indexer (`src/indexer/`) | cursor, processed, quarantine and log tables, the poll's locals | start, poll, fetch, handle, mark, shut down | crash between handler and mark, failing events, page limits | no event is lost silently; handlers repeat only after a lost mark |
| Event handlers, XDR decoding (`src/indexer/services/`) | projects, contributions, milestones, trust scores | one decoder per event type, eight handlers | replays, missing parents, payloads of any shape | rows follow the recorded events; decoded data has its declared type |
| Auth and nonces (`src/auth/`, `src/nonce/`) | nonces in the cache, `RefreshToken` rows | issue, login, refresh with rotation, reuse detection, logout | get and delete in two calls, session count at READ COMMITTED, rotation beside revocation | one login per nonce, a bounded number of sessions, a revoked family stays revoked |
| Notification and outbox (`src/notification/`) | `EmailOutbox` rows, Bull jobs | prepare, dispatch, process, sweep | lost dispatch, duplicate jobs, crash after the send | every row settles; the status tells the truth |
| Web push, deadline alerts | subscriptions, alerts, push jobs | subscribe, push, hourly task | partial failure, users deleted meanwhile | every investor is told once |
| Users (`src/user/`) | `User` rows and what they own | create, read, update, delete with cascade | checks before writes, audit after the commit, upserts that revive | a deleted user owns nothing live; one audit entry per deletion |
| Soft delete (`src/prisma.soft-delete.*`) | `deletedAt` of every model | rewriting of every query, restore, purge, retention | upsert, include, unique keys | a deleted row is invisible and unwritten until it is restored |
| Resilience (`src/common/resilience/`) | breaker state | fire, retry | a timeout does not cancel the call | bounded retries, no stuck circuit, everything is answered |
| Reinsurance, pricing | `ReinsuranceContract` rows / none | create, release / premium | overlapping releases | released once |
| Storage and IPFS (`src/storage/`) | objects in the bucket, pin queue, the IPFS client | upload, delete, presign, pin, verify | late writes, cached failed start, lost answers | the bucket agrees with the answers; a completed job was done |
| Encryption, configuration, health, tracing, filters, response shaping | none | – | – | – |

Interactions: the claim service calls the pool service (lock, unlock), the reputation
service and the audit service with its own transaction client, and the notification
service twice, inside the transaction (`prepareNotification`) and after its commit
(`dispatchPrepared`). The insurance routes run under the idempotency interceptor. Every
table is read and written through the soft-delete middleware. The e-mail worker, the
retry sweep, the cleanup and the indexer run on timers and queues beside the requests.

The README of the repository also names governance voting, analytics and oracle
ingestion; there is no code for them.

## Modules

| Module | Models | Uses |
|---|---|---|
| `Insurance` | pools, policies, claims, reputation, deletion of users | `Sums` |
| `Sums` | finite sums of functions | |
| `EventDelivery` | abstract: at-least-once delivery of events in order | |
| `Indexer` | the poll of the indexer and its tables; implements `EventDelivery` | `EventDelivery` (INSTANCE) |
| `EventTypes`, `XdrDecoder` | the declared event types; what the decoder makes of a payload | |
| `Reputation` | the trust score | |
| `EventHandlers` | the handlers of the events and the tables they write | `EventDelivery`, `XdrDecoder`, `Reputation` |
| `DeadlineAlert` | the hourly alert task beside the handlers and user deletion | `EventHandlers` |
| `Idempotency` | the interceptor, the key's row and the cleanup | |
| `AuthSession` | nonces, wallet login, refresh tokens with rotation, logout | |
| `SoftDelete` | the middleware's rewriting of queries and their execution on a table | |
| `Accounts` | users with what they own, reinsurance contracts, purges | `SoftDelete` |
| `EmailOutbox` | outbox rows, Bull jobs, the retry sweep | |
| `Resilience` | retry under a circuit breaker | |
| `Storage` | uploads, IPFS, the pin and push queues | `Resilience` |
| `InsuranceProofs`, `IndexerProofs`, `DeadlineAlertProofs`, `IdempotencyProofs`, `AuthSessionProofs`, `AccountsProofs`, `EmailOutboxProofs`, `StorageProofs` | theorems about the module of that name | that module, TLAPS |
| `MC*` | each of them for TLC, with its symmetry sets | |

`PROJECT.json` maps every definition to its source lines. Definitions called
`...Again`, `...OffByOne` and the like, each under a comment that begins "Mutant:", are
wrong variants of the definition that follows them; no specification uses them. Each
shows that the property it is listed for in `PROJECT.json` would notice that mistake.

### Insurance

The repository sets no isolation level and the schema has no CHECK constraint, so a
`prisma.$transaction` is a sequence of statements that each see what is committed at that
moment. An operation is a `Begin` action (its reads, its early returns) and a `Commit`
action (its writes, in the state of that moment, since an UPDATE waits for the row lock
and then sees the newest row). Increments are relative to that newest row;
`updateUserScore` is an absolute write of a value computed from an earlier read.
`assessClaim` has one action for every point where it reads again: the fraud penalty, the
oracle's second read of the claim, the update of the claim and the final adjustment of
the score. The rows it holds locked in between are `ClaimLocked`, `PoolLocked` and
`UserLocked`. Its own uncommitted writes are kept in the transaction (`txn`) and applied
by `CommitApprove` and `CommitReject`. Where two transactions would wait for each other
PostgreSQL rolls one back, which is `Abort`.

Audit rows are kept as counts (`releases`, `verdicts`), written in the same commit as the
change. They are the ledger that `lockedCapital` is compared with.

Data left out: premiums, timestamps, texts. The two fraud indicators that depend on the
clock are a nondeterministic outcome; the model says "fraud" only where the indicators
about the claims allow it. Pools are created outside the application and `addCapital`
has no caller; it is modelled because the pool service offers it. The oracle also compares
the policy's `endDate` with the clock (`claim.service.ts:299`); nothing sets `endDate`, so
the check passes and is left out.

### Indexer

One process (`isRunning` keeps polls from overlapping; `onModuleDestroy` waits for a
running poll). An event is a position in the chain with a ledger and a kind: handled,
ignored or quarantined. The handler's writes are a count, and a handler that throws may
have made them or not. Crashes lose the poll's locals and keep the tables.
The RPC server is taken to return whole pages in order and topics and values are passed on
as they are (`indexer.service.ts:341-416`); what their contents do is in `EventHandlers`.
`detectReorg` and `handleReorg` have no caller and are not modelled.

`EventDelivery` is what this adds up to for a handler: an event runs until one of its
runs is recorded and never after, and only when every earlier event is done or was
passed over. The refinement mapping (`Delivery`) reads the runs from `effects`, the
recorded events from the processed marks, and the events passed over from what the code
gives up on: events without a handler, logged failures, the rest of a ledger that the
fetch limit cut, and what lies before the ledger the indexer began at.

### EventTypes, XdrDecoder, EventHandlers, Reputation, DeadlineAlert

`EventHandlers` extends `EventDelivery`: the indexer is replaced by what it was shown to
promise, so one model covers every way in which the poll can repeat, delay or drop an
event. A handler is the list of its awaits that write or decide, and may throw before
each. Payloads are maps of native values, lists, scalars or not XDR at all; a decoded
value has a TypeScript type and a form. `MaxSafe` stands for 2^53: the largest integer
that a JavaScript number holds exactly. `ToNumber` rounds larger ones to the nearest
multiple of the spacing of doubles there, ties to even: 2 above 2^53, and twice as much
after each further power of two (`Spacings`). The lookup of a key that ignores case
(`xdr-decoder.service.ts:219-222`) is left out: the contracts write the keys as declared. `parseInt` of a text with leading digits is not distinguished from a text without.
All milestones of a project are one row, because the handlers ignore `milestoneId` and
update them together; no code creates milestones, so the instance supplies them. The
trust score is computed exactly where the code rounds a floating-point quotient.
`DeadlineAlert` runs the hourly task beside this, on one instance of the service. An
investor may have turned deadline alerts off when the task comes to him, and the process may
stop in the middle of a round.

### Idempotency

One key, since keys do not interact. Every query of the interceptor is a step; the
operation behind it is one step that commits or fails. A body is an object and an order
of its keys: `JsonbRoundTrip` is what a jsonb column does to the order. A day is the
lifetime of a key; the cleanup is a soft delete because the middleware rewrites
`deleteMany`.

### AuthSession

A nonce is read and deleted in two calls of the cache. The login's transaction is one step
per query: insert, count, choice of victims, revocation and commit. Tokens are numbered in
the order of `createdAt`; they have one lifetime, so the expired ones are a prefix. A
rotation is the login's transaction with one query more, the revocation of the old token,
which waits for the row lock and does not look again whether the row is revoked. The
`updateMany` behind the revocation of a family and the logout from all devices has two
steps, because at READ COMMITTED it updates the rows that were committed when it started:
it waits for the locks on these and does not see a token that a rotation commits meanwhile.
`closed` has the families whose revocation no rotation overlapped. The row
keeps the SHA-256 of the token and `refreshTokens` and `logout` look up the raw value
(`FindByToken`, `Raw`, `Sha256`), so they find nothing for a value that a login returned;
both are modelled for that value and for the one in the column, with which the rotation
runs. A presented fingerprint is compared with a hash and never matches one.

### SoftDelete and Accounts

A table maps keys to rows, a query is a record of what its where clause selects and what
it writes; `Rewrite` is the middleware, `Execute` and `Throws` are Prisma and PostgreSQL.
`Accounts` runs the requests over it, one step for each await, so that a deletion can come
between the check and the write of another request. The deletion of a user is a transaction
of five statements, each a step that takes the rows committed at that moment; what they
write shows at the commit. Purchases and claims are there as far as a user's rows go:
`purchasePolicy` does not read the user, and the foreign key accepts a soft-deleted one
(`bought` has the policies that he buys then). Relations read with `include` do not
pass the middleware, and the model reads them without it. `SoftDeleteService` has no
production caller; it is modelled on the contracts because it is there to be called.

### Resilience and Storage

`Resilience` has the breaker (opossum, external), the retry loop and the tasks it started.
A task that timed out is no longer awaited and may still have its effect at any later
time. `Storage` gives each of two callers one role, and `Roles` lists the pairs that meet
on the same state. A presigned URL is one for a PUT: whoever has it may write the object
under its key any number of times, whatever else happens to it. The number of attempts per
policy is the code's; Bull's attempts and the breaker's volume threshold are smaller than in the code. Jobs crash only through
failing calls here; crashes of a worker are in `EmailOutbox`.

### EmailOutbox

The row is committed with the entity it is about; its job is queued afterwards, best
effort. Bull is external: a job is run until it succeeds or its attempts are used up, a
stalled job is run once more. The sweep reads a batch of PENDING rows and queues each
again with the attempts left. The API key is read when the process starts, and may come or
go at a restart; a worker without it marks the row FAILED at once and throws, and Bull's
next attempt may find the key (`keyless` has the e-mails this happened to). `sends`,
`unrecorded` and `tries` count what happened outside, so that the row can be compared with it.

## Runs

Passing runs:

| Run | Properties | Bounds |
|---|---|---|
| `insurance_ledger` | `TypeOK`, `PoolBalance`, `PayoutWithinCoverage`, `SettledPerOverlap`, `ClosedStaysClosed` | 2 requests, 1 policy, 2 claims within and above the coverage, capital that grows |
| `indexer` | `TypeOK`, `HandledOncePerMark`, `SkippedIsExplained`, `EventuallySettled`, `DeliversInOrder` | 3 ledgers, 3 events, 2 faults, a fetch that stops after 2 events |
| `events` | `TypeOK`, `DecodedAsDeclared`, `ContributionsKept`, `ProjectsCurrent`, `TrustScoreFresh`, `AlertsReachInvestors`, `TouchesNamedProject` | every event type with payloads of every shape and kind; 11 chains of up to 4 events, 2 runs each, 1 fault, 2 days, doubles up to 4 apart |
| `idempotency` | `TypeOK`, `CommitBound`, `ReplayIsOfCommitted` | 2 requests, 2 bodies in 2 key orders, 4 sends, every fault (at most 2), 4 days |
| `auth` | `TypeOK`, `SessionBound`, `NonceBound`, `ClosedFamilyStays` | 2 overlapping logins or rotations, 2 nonces, 3 tokens, 1 of them expires |
| `accounts` | `TypeOK`, `DeletionsAudited`, `NothingOutlivesOwner`, `DeletedRowsStay` | 3 requests, 1 wallet with up to 2 rows of each kind, or 2 contracts and 3 calls of the administrator |
| `email_outbox` | `TypeOK`, `DeliveriesExplained`, `OutboxIsHonest`, `EventuallySettled` | 2 e-mails, 2 jobs at once, 2 faults, restarts with and without the API key |
| `storage` | `TypeOK`, `BucketMatchesAnswers`, `CompletedWasDone`, `RepeatsExplained`, `HalfOpenIsProbing`, `EverythingSettles` | 6 pairs of roles, 3 faults, 2 runs of a job |

`SettledPerOverlap`, `CommitBound`, `SessionBound` and `NonceBound` have a bound that grows
with the number of requests that may overlap. For one request it is what the guards of the
code promise: one release, one verdict, one payout, one commit, no session beyond the limit,
one login. For more it says what an overlap can do at most, and that no later retry adds to
it.

Violation runs, each the disagreement of a sentence or a test in the repository with its
code (quoted in `PROJECT.json`, "findings"):

| Run | Property | What happens |
|---|---|---|
| `insurance_paid_final` | `PaidIsFinal` | an assessment that read PENDING overwrites a payout |
| `idempotency_same_body` | `MismatchMeansDifferent` | a retry with the same object in another key order is refused as a different body |
| `auth_nonce_once` | `NonceUsedOnce` | two logins that read a nonce before either deletes it both succeed |
| `accounts_revive` | `OnlyRestoreRevives` | an upsert of the indexer makes a deleted user live |

More statements of the repository are refuted in the same way, by a property and a
configuration that are kept for reference (`tlc -config <cfg> <module>`):

| Configuration | Module | Property | What the repository says, and what the code does |
|---|---|---|---|
| `MCAuthRefresh.cfg` | `MCAuthSession` | `RefreshKnowsToken` | `test/auth.e2e-spec.ts:122`, "should rotate tokens on valid refresh"; the row has the SHA-256 of the token (`auth.service.ts:367`) and the lookup uses the value itself (`:161`), so no token is ever found |
| `MCAuthFamily.cfg` | `MCAuthSession` | `EntireFamilyRevoked` | `auth.service.ts:151-152`, "revoke the entire family"; the token of a rotation that commits meanwhile stays live (`:204`) |
| `MCInsuranceOvercommit.cfg` | `MCInsurance` | `AvailableCapital` | `pool.service.ts:115`, "availableCapital invariant", and `pool.service.spec.ts:202`; `lockCapital` (`:70`) does not compare with the capital |
| `MCInsuranceScore.cfg` | `MCInsurance` | `ScoreUpdateAtomic` | `reputation.repository.ts:20`, "atomically inside a tx"; of two overlapping adjustments one is lost (`reputation.service.ts:36`) |
| `MCAccountsCascade.cfg` | `MCAccounts` | `CascadeTakesAll` | `user.repository.ts:103`, "a user and all their related records"; a row committed behind a statement of the cascade (`:110`) stays live |
| `MCAccountsDeletedReads.cfg` | `MCAccounts` | `DeletedReadsFindDeleted` | `prisma.soft-delete.service.ts:231`, "Find records that have been soft-deleted", and `SOFT_DELETE_GUIDE.md:286`; the middleware (`:160`) overwrites the condition on `deletedAt`, and `findManyDeleted` and `countDeleted` return live rows |
| `MCEmailSweep.cfg` | `MCEmailOutbox` | `SweepTakesFailed` | `email-retry.task.ts:23-24`, "(or previously FAILED)"; the query asks for PENDING only (`notification.repository.ts:93`) |
| `MCPresigned.cfg` | `MCStorage` | `PresignedUrlIsGet` | `storage.controller.ts:119`, "a presigned GET URL"; the service signs a `PutObjectCommand` (`storage.service.ts:225`) |

The models also show the following. Against a comment of the repository:

- the cursor moves past a failed event when a later one succeeds, where
  `indexer.service.ts:308` says "Never skip past ledgers with unprocessed/errored events";
- two retries that find FAILED both run the operation, where `idempotency.service.ts:123`
  says that a retry re-runs it "safely";
- the second release of a contract is answered "not found", not with the contract, as the
  comment at `reinsurance.service.ts:48` has it;
- the decoder's comment on positional vectors (`xdr-decoder.service.ts:145`) describes what
  no decoder does: in a list no key is found;
- `resilience.ts:22` says that a success resets the failure count; opossum counts over a
  rolling window;
- `verifyIPFSHash` returns its promise without awaiting it, so its rejection escapes the
  `catch` that answers false (`storage.service.ts:361`);
- `computeReputationFromHistory` sums deltas, while each adjustment was clamped.

And of the code itself:

- in a pool that is committed beyond its capital unlocks are refused, and with them
  cancellations and payouts (`pool.service.ts:113`);
- `payClaim` pays PENDING and REJECTED claims (`claim.service.ts:342`);
- two overlapping purchases both find no open policy and both create one
  (`insurance.service.ts:70`);
- settings or a notification written by a request that checked before stay live after
  their user is deleted (`notification.controller.ts:102`); a revived user does not get back
  what the cascade deleted, and `create` refuses the wallet of a deleted one;
- `purchasePolicy` does not check that the user is live, so a deleted user gets a live policy
  and may claim on it (`insurance.service.ts:70`);
- a server without the API key marks an e-mail FAILED at its first attempt
  (`email.service.ts:80`), and after Bull's attempts nothing takes it up again;
- a retried creation sets a completed project back to ACTIVE after an event was passed
  over (`event-handler.service.ts:72`), and a retried contribution is rewarded again;
- of two contributions in one transaction the second has no row
  (`project.repository.ts:84`); an event without an id is about project 0;
- a milestone counts as on time only when it was funded before its row was created
  (`trust-score.calculator.ts:30`);
- a put that timed out can restore an object after its deletion (`storage.service.ts:203`);
  a failed start of the IPFS client is kept until the process restarts (`:163`);
- the fetch limit can cut a ledger in two and the rest of its events is never fetched
  (`indexer.service.ts:389`); a batch of nothing but quarantined events is fetched at
  every poll (`indexer.service.ts:462`);
- a lost COMPLETED mark leaves a key PENDING until it expires
  (`idempotency.interceptor.ts:155`); a failed lookup marks a COMPLETED key FAILED (`:188`);
  a key that the cleanup removed is answered 409 for ever (`:135`); the loser of a
  concurrent insert gets the response to another body (`:115`);
- `enforceSessionLimit` may evict an expired token in the place of an active one
  (`auth.service.ts:395`);
- the retry sweep gives a row a fresh job while the first one is still queued, so it may
  be tried more often than its budget (`email-retry.task.ts:39`).

### Why the bounds are enough

- Insurance: two requests are enough for a check and a write to be separated by another
  commit. Two claims on one policy make duplicates, hence fraud penalties, and let a
  release, a rejection and payouts meet on the same capital. The capital is below the
  coverage, so the unlock check both passes and refuses; the score (3) is low enough for
  the clamp at 0; an amount (4) is one above the coverage (3). What the run says is proved
  for all values.
- Indexer: three events give a failed one between two others, in one ledger or in three;
  a limit of two lets a batch be full, with the third event in the same ledger or beyond.
- Events: between them the chains have, for the handlers, missing, deleted and completed
  subjects, a repeated transaction hash, ids 0 and above `MaxSafe`, and a total
  that is no number; two runs and a fault are a failed run and its retry, and a passed
  event lets later ones overtake.
- Accounts: three requests are two that overlap and a deletion between them; rows of one
  wallet do not interact with those of another. Users and contracts have no rows in
  common, so the constraint `OneTable` lets each behaviour be about one of the two. Three
  calls of the administrator are a release undone by a restore, a second deletion and a
  cleanup.
- Storage: two callers are the two ends of every race (upload and deletion, two uploads,
  upload and presigned URL, enqueue and worker); three faults are enough to open a circuit with a threshold of two
  and to fail its probe. Two runs of a job are a failure and a retry.
- Idempotency: a key needs one day to expire and two for the cleanup; four days give both
  and a use afterwards. Four sends and two faults are a failure, two retries of it and one
  more request.
- Auth: with a limit of one, every login evicts; three tokens are a login and two rotations,
  or a rotation beside a login or a revocation, with a reuse of the old token.
- E-mail: a budget of 2 separates the first and the last attempt. The bound on the jobs
  ever queued (24) is never met, so it cannot keep a row from settling.

`CHECK_DEADLOCK FALSE` is set where the bounds on ledgers, sends, faults or days end the
behaviour. Symmetry is over requests or nonces that no definition tells
apart, and never in a run with a liveness property. The runs under a `CONSTRAINT` check
safety only.

### Fairness

- `Indexer`: `setInterval` calls `pollEvents` again and again and the RPC calls have
  timeouts, hence weak fairness of the poll's steps; the process is restarted after it
  stopped, as any deployment of a service does. Nothing is assumed of faults except that a run has a
  bounded number of them.
- `EmailOutbox`: weak fairness of each job's work (Bull) and of the sweep (the cron). None
  of the dispatch: a row whose dispatch never happens must still settle.
- `Storage`: weak fairness of each caller's own steps (promises settle, timers fire), of the
  end of an awaited call (opossum's timeout ends it at the latest), of the settling of the
  IPFS client (its own timeout) and of the worker (Bull). None of a task that timed out,
  which may hang for ever, and none of requests.
- The other modules have safety properties only; without fairness every request may stop
  anywhere.

## Proofs

The theorems hold for all values of the constants that satisfy the named assumptions of the
module. Those say that bounds are naturals, that amounts are positive, that sets that are
counted (requests, jobs) are finite, and the few things named below. They are evaluated by
TLC on every run. Each proof has the same shape: an inductive invariant `IInv`, stated
at the top of the proof module as a conjunction of named parts; a lemma for each action or
group of actions; `Init => IInv` and `IInv /\ [Next]_vars => IInv'`; then the theorems, each
from one part of `IInv` (in `DeadlineAlertProofs` the parts stand before the theorems that
need them). The invariants were model-checked before they were proved.

### Insurance

- `TypeCorrect`: `Spec => []TypeOK`. `TypeOK` is inductive only together with
  `References`: a claim names a policy that exists, an open transaction a claim or a
  policy that exists. Without it a commit could read the coverage of no row.
- `PoolBalanced`: `Spec => []PoolBalance`. The inductive invariant is
  `IInv == TypeOK /\ References /\ NoAuditBeforeCreate /\ PoolBalance`;
  `NoAuditBeforeCreate` says that a row that does not exist has no audit rows, so that
  creating one adds exactly its coverage. The step is by cases on the action
  (`BalanceStep`): a transaction without a commit leaves the rows alone (`QuietRows`); a
  commit changes at most one summand of one of the two sums, by what it adds to or
  subtracts from `lockedCapital` (`BalanceByShift`, with `Shifted` and the lemmas about
  `SumTo`).
- `ClosedPoliciesStay`: `Spec => ClosedStaysClosed`.
- `PayoutsCovered`: `Spec => []PayoutWithinCoverage`. It needs `ApprovedWithin`: an
  assessment that stands at APPROVED found its claim within the coverage, and
  `RowsPersist`: neither the amount nor the coverage changes before it commits, so that
  the check may be made on rows that are not locked.
- `SettlesPerOverlap`: `Spec => []SettledPerOverlap`. The settlements made and those that
  requests under way may still make share one budget (`ReleaseBudget`, `DecideBudget`,
  `PayBudget`): while a policy is open, a claim PENDING or not PAID, nothing counts yet
  beyond what verdicts have undone; the commit that closes it leaves at most the requests
  that read the row before, and none joins them afterwards.

The facts about `SumTo` (a recursive function on the naturals), its type and that changing
one summand changes the sum by the difference, are proved by a least counterexample
(`LeastNatural`, from the well-foundedness of the naturals).

### Indexer

- `TypeCorrect`, `HandledOnce` (`HandledOncePerMark`), `SkippedExplained`
  (`SkippedIsExplained`) and `Implements`: `Spec => DeliversInOrder`, the refinement of
  `EventDelivery` step by step.
- `IInv` says of the tables that rows are of events of the chain, that the chain is sorted
  by ledger, and that the cursor has not passed the network (`Shape`); of a running poll
  that its batch is in the order of the chain and beyond the cursor, that what is beyond the
  cursor and not in the batch comes after it, cut off by the limit or in a later ledger,
  that everything before the current event is processed, ignored or logged, and that the
  current event is not processed (`BatchInv`); and that the ledger the cursor will move to
  is one of a processed event (`LastInv`). `BatchComplete` is what makes the cursor's jump at
  the end of a batch safe; without it `SkippedIsExplained` is not inductive.

### Event handlers and alerts

`DeadlineAlertProofs` proves all properties of the run `events`, for all chains. Assumed of
them (`ChainsAssumption`): events have declared types and a payload of one of the shapes,
whose fields are native values, and `ProjectIds` has every id that a payload decodes to.

- `Decoded` (`DecodedAsDeclared`): `NativeTypes` says what `Str`, `Num` and `BigStr` make of
  any native value or of none; `DecodersMatch` goes through the decoders.
- `Touches`: `Spec => TouchesNamedProject`. `ToNumberNear` says how far a number is from an
  id above 2^53, for every spacing of the doubles there, `IdNamed` that the decoded id is so far at most from the one in the payload.
- All others rest on `HandlersInv`: `Tables` has the types of the rows and that users with a
  score are those with a row; `RunInv` that the running handler is at one of the `Stages` of
  the handler for its event, which is not recorded; `Delivered` that what came before an
  event that ran was recorded or passed over. `RunMoves` says how a step moves the handler,
  and the lemmas `...Writes` what each step writes.
- `Contributions` (`ContributionsKept`): `PresenceInv` says that a recorded creation and a
  handler that has found its project have a row of it, which stays. `ContribInv` says that
  every row comes from a contribution that ran, that a handler past the upsert has a row of
  its transaction, and that rewards were earned. A missing row needs a missing project, and
  that needs a creation that was passed over (`MissingMeansPassed`).
- `Projects` (`ProjectsCurrent`): `CurrentInv` states the property for each project and also
  while handlers run, except for a project with an unrecorded event that has begun (`Busy`),
  and says what the running handler has written when it is about to be recorded
  (`RunCurrent`). The step that matters is the record of an event (`CurrentEnd`), which
  becomes the latest one since events run in order (`RunsLast`).
- `TrustScores` (`TrustScoreFresh`): `FreshInv` states the property for all users with a row,
  deleted or not, unless an event about them has begun and is not recorded. A step that
  changes what a score is computed from is of such an event (`RowMoves`); a handler that is
  about to be recorded has written the score of now (`RunFresh`); a new user has neither
  projects nor claims (`UsersKnown`).
- `Types` (`TypeOK`): a score is in 0..1000 if the sums in it are numbers. `SumIsNat` proves
  that of the sum over any finite set, by a least counterexample on the size of subsets;
  that only finitely many projects have rows is part of the invariant (`Scores`).
- `Alerts` (`AlertsReachInvestors`): `AlertsInv` says that whoever waits for the alert of a
  project does not have it, and that whoever was read and waits no more has it or is
  excused: notify failed, he had opted out or was deleted, or the process stopped before it
  came to him. It is stated for deleted users too: they may come back.

### Idempotency

- `TypeCorrect`, `CommitsBounded` (`CommitBound`) and `Replay`: `Spec => ReplayIsOfCommitted`.
- The bound is a potential argument: the commits made and those that requests are still
  due to make are within the bound (`DueBound`), nobody works under a key before it is
  claimed and after it has expired (`NobodyWorks`), a stored response follows a commit
  (`StoredAfterCommit`), and while the key is FAILED, when any request may re-arm it, every
  commit so far and under way is already paid for by `undone` (`FailedPaid`).

### AuthSession

- `TypeCorrect`, `NonceUse` (`NonceBound`), `RevokedFamiliesStay` (`ClosedFamilyStays`),
  `SessionLimit` (`SessionBound`).
- `NonceInv` counts the logins of a nonce together with the requests that have read it and
  not yet logged in. `RowsInv` says that a transaction has an uncommitted row of its own
  and presents a committed one (`References`), that a family is named by its first token,
  which was committed before others joined (`Families`), and that nothing rotates in a
  closed family (`ClosedFamilies`): a family counts as closed only when no rotation of it
  was under way during the `updateMany`, and a later one finds its token revoked. So no
  commit can make a token of it live.
- `SessionBound` rests on `IInv` and `SessionInv`. Overlapping logins may choose the same
  tokens to evict, so no count of evictions bounds the sessions. The invariant orders the
  logins that wait between their count and their commit by the moment of the count, and
  says that what a login would leave, were it to commit now, has room for one token of
  each login that counted before it (`CountOrder`, `HasRoom`). When a login commits, those
  that counted after it see at most one token more, and have one fewer before them. Those
  that counted before it see what it left, which had room for them; so the order must be
  total and transitive. `OldestLeaves` says that the choice of victims leaves no more than
  the count promised.

### EmailOutbox

- `TypeCorrect`, `Deliveries` (`DeliveriesExplained`), `HonestRows` (`OutboxIsHonest`).
- `DeliveriesExplained` is inductive after the jobs that may still send are added to the
  deliveries (`Open`): `sends + |Open| <= queued + unrecorded`. A job leaves `Open` with
  its send and comes back only when that was not recorded. `JobsInv` says that the failed
  attempts of a job are within its budget and counted for its e-mail, and that a job about
  to record a delivery has made one. A row that a worker without the API key marked is in
  `keyless`; no other is FAILED before its budget is used up unless its address is invalid.

### Accounts

- `TypeCorrect`, `DeletionsAreAudited` (`DeletionsAudited`), `OwnedGoWithOwner`
  (`NothingOutlivesOwner`), `DeletedStay`: `Spec => DeletedRowsStay`.
- The lemmas about `Rewrite`, `Execute` and `Found` say what each kind of query does to a
  table after the middleware has rewritten it; the actions are proved from them.
  `IInv == TypeOK /\ Requests /\ Uncreated /\ DeletionsAudited /\ Cascades /\ Owned`:
  `Requests` says what a request between two awaits is about, `Uncreated` that a contract
  that was not created has neither a row nor an audit entry, `Cascades` that a running
  deletion holds its user alone and that he is live, `Owned` that what a deleted user owned
  is deleted, but for the policies in `bought` and claims on them, and no request past its
  check will bring it back, unless he is in `late`. Assumed: requests are finite and `"purge"`, which stands for the
  audit entries of hard deletes, is neither a wallet nor a contract.

### Resilience and Storage

- `TypeCorrect`, `HalfOpenProbes` (`HalfOpenIsProbing`), `CompletedJobs`
  (`CompletedWasDone`), `Repeats` (`RepeatsExplained`), `Bucket` (`BucketMatchesAnswers`).
- `Calls` ties tasks to calls: an awaited task is the one that its caller waits for, so a
  caller has one. The proof of `HalfOpenIsProbing` is this and that each end of an awaited
  task leaves the circuit closed or open. `Works` ties calls and tasks to roles, and says
  that all attempts before the present one failed or timed out (`Before`), which orders
  the attempts at one piece of work. `Jobs` says that a job is run by one worker at a
  time, and that at most one effect on a job is `Clean`, that is not blamed; all others
  are then counted by `blamed`. `BucketMatchesAnswers` is inductive with these;
  a write by the holder of a presigned URL is excused for good, because the URL stays with
  him (`SignedKept`).
- Assumed: the four services have breakers, and in a group of roles one caller at most
  enqueues, and none beside a push worker. The ids of jobs in the model are the numbers of
  the attempts that added them (1 or 2), so that a second producer would overwrite jobs
  that Bull keeps apart.

### Only model-checked

- Liveness (`EventuallySettled` twice, `EverythingSettles`): fairness and ENABLED are out of
  this prover's reach. All safety properties of the passing runs are proved.

## Not modelled

The reasons are in `PROJECT.json`, "components". In short: the reputation formulas that
nothing calls (`calculateReputationScore`, the decay, `computeReputationFromHistory`) and
pricing, which are floating-point arithmetic without state; cryptography (encryption,
signatures); image optimisation; the JWT guard and the throttler, which check a request
against a library's counters; HTTP wiring, validation, formatting and logging; and code
without a caller (`detectReorg`, `handleReorg`, `purgeStaleTokens`).

## Plan

1. Modelled and checked: every stateful component of the inventory, the refinement of
   `EventDelivery` and the composition of handlers, decoder, trust score and alerts over it.
2. Proved: the safety properties of `Insurance`, `Indexer` (with its refinement),
   `EventHandlers`, `DeadlineAlert`, `Idempotency`, `AuthSession`, `EmailOutbox`, `Accounts`,
   `Storage` and `Resilience`.
3. Abstract specifications that could follow: an at-most-once operation, implemented by
   `Idempotency` for one request at a time, and a ledger of pool entries, implemented by
   `Insurance`. A second route for one key would need `Insurance` and `Idempotency` in one
   model.
