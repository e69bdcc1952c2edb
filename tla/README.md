# TLA+ development of the payment operations orchestrator

The orchestrator takes payout requests from merchants, holds the risky ones for an
operator, dispatches the others to a payment provider, settles them when the
provider calls back, and tells the merchant by webhooks. This directory holds
models of its protocols, the TLC runs that check them on small instances, and
proofs, checked by TLAPS, of what holds for instances of any size. Paths below are
relative to `src/`.

## The system

| Component | State it keeps | Operations | Interacts with |
|---|---|---|---|
| Payout creation, `apps/api/src/payouts` | `payouts`, `payout_idempotency_keys`, `ledger_entries`, history, audit, outbox | `createPayout` (one SERIALIZABLE transaction) | relay, by outbox rows |
| Approval, `apps/api/src/approvals` | `payout_approvals`, payout status | `decideApproval` (SERIALIZABLE) | relay |
| Outbox relay, `apps/worker/src/outbox-relay.service.ts`, `outbox.repository.ts` | leases and outcomes on `outbox_events` | `claimBatch`, `publish`, `markPublished`, `markFailed` | Redpanda, BullMQ |
| Dispatch, `apps/worker/src/payout-dispatch.*`, `queue-workers.service.ts`, `async-queue.service.ts` | BullMQ job, payout status, attempts | `processJob`, `markDispatchSucceeded`, `recordDispatchFailure`, dead-letter mirror | provider, BullMQ retries |
| Provider simulator, `apps/provider-simulator` | idempotency map and callback timers, in memory | `createPayout`, `sendCallback` | callbacks |
| Callbacks, `apps/api/src/provider-callbacks` | payout status | `applyPayoutCallback` (READ COMMITTED) | races with dispatch |
| Webhook delivery, `apps/worker/src/webhook-delivery.*`, replay in `apps/api/src/webhook-deliveries` | `webhook_deliveries` with queue reservations, attempts | schedule, reserve, release, deliver, replay | BullMQ, merchants |
| Reconciliation, `apps/api/src/reconciliation` | imports, rows, discrepancies | `createImport`, `resolveDiscrepancy` (SERIALIZABLE) | payouts, while their provider ids are recorded |
| Tenant operations, `apps/api/src/operations` | tenants, memberships, API clients and keys, endpoints, audit | create, update, rotate, revoke | authentication |
| Authentication, `apps/api/src/auth` | none of its own | guards | tenants, keys |
| Start of the API, `apps/api/src/database/database.service.ts`, `bootstrap.ts`, `main.ts` | database, `schema_migrations`, the demo tenant | `initialize`, migrations, `ensureDemoData` | other replicas that start, requests that seed |
| Web dashboard, `apps/web/stores/foundation.ts`, `pages/index.vue`, `composables/useAdminAuth.ts` | what the page shows, its flags, the idempotency key of the payout form | `load`, `mutate`, selection of imports, sign-in | API |
| Shared packages, infrastructure | none | | |

Hard behaviour, and what makes each component correct:

- **Dispatch, provider, callbacks.** Retries, stalled jobs run twice, lost answers,
  crashes between provider and SQL, a callback that overtakes the worker. Correct:
  the provider sees released payouts only; a payout moves to `processing` once;
  history, events and status agree; paid and canceled are final; what the provider
  took on is settled, unless the callback about it is lost.
- **Relay.** Leases that run out under a working relay, crashes in the middle of a
  batch, three systems that cannot commit together. Correct: nothing is marked
  that was not handed on; duplicates come from failures and expired leases only;
  outcomes are final; every event gets one.
- **Creation and approval.** Concurrent requests with one idempotency key, lost
  answers, access that ends between the check of the key, the check of the tenant
  and the transaction, concurrent decisions. Correct: one payout and one answer for a
  key, none for a request that came after its API key had ended, the right rule
  shown for a held payout, one decision.
- **Webhooks.** A reservation whose job was never added, a replay beside a job that
  is still retrying, several schedulers. Correct: each event is delivered or
  dead-lettered, attempts are on record, dead letters are announced once, a settled
  delivery is reopened by a replay only, and the merchant sees a repetition for a
  reason only.
- **Reconciliation.** Racing imports of one file, classification row by row against
  payouts that get their provider ids meanwhile, racing resolutions. Correct: a
  file is imported once, an import describes one moment, a discrepancy is resolved
  once.
- **Start.** Replicas that create, migrate and seed side by side without any
  coordination, each "create if missing" in two statements, lost answers to commits,
  processes that end and are replaced. Correct: a replica serves only on a complete
  schema with the demo tenant in place, no migration takes effect twice, every
  replica gets there.
- **Dashboard.** Requests that overlap and overtake each other while they share one
  view, lost answers to mutations, reloads. Correct: a payout that the operator was not
  told of can be asked for again, except after a reload or a turn to another tenant;
  the page shows what it was told to have changed and shows it of one tenant; its
  buttons come back.
- **Tenant operations.** The last-owner rule checked apart from the update, key
  rotation against revocation, audit entries outside of transactions. Correct: what
  goes wrong goes wrong only by the stale reads that the code has.

## Modules

| Module | Role |
|---|---|
| `PayoutLifecycle` | what is promised about one payout: which status may follow which, money requested only for released payouts |
| `PayoutDispatch` | API, queue, workers, provider and callbacks; implements `PayoutLifecycle` |
| `MCPayoutDispatch` | constants and symmetry for its runs |
| `PayoutDispatchProofs` | the inductive invariant and the theorems |
| `PayoutHistoryProofs` | a second invariant, on history, causes and provider payouts, and its theorems |
| `OutboxRelay` | the relay with leases, several processes, crashes |
| `MCOutboxRelay` | constants and symmetry for its runs |
| `OutboxRelayProofs` | the inductive invariant and the theorems |
| `WebhookDelivery` | schedulers, webhook jobs, merchants' endpoints, replay |
| `MCWebhookDelivery` | constants and symmetry for its runs |
| `WebhookDeliveryProofs` | the inductive invariant and the theorems |
| `TenantOperations` | tenants, memberships, API clients and keys, audit log |
| `PayoutIntake` | payout requests; extends `TenantOperations`, composing the two |
| `MCPayoutIntake` | constants, scenarios and symmetry for the run of both |
| `PayoutIntakeProofs` | the inductive invariant of both and the theorems |
| `SettlementReconciliation` | imports of settlement files and resolutions |
| `MCSettlementReconciliation` | files, provider ids and symmetry for its run |
| `SettlementReconciliationProofs` | the inductive invariant and the theorems |
| `ApiStartup` | replicas that create, migrate and seed one database, with requests that seed |
| `MCApiStartup` | the module of its two runs |
| `ApiStartupProofs` | the inductive invariant and the theorems |
| `Dashboard` | one page of the operator dashboard and the server as the page sees it |
| `MCDashboard` | the module of its run |
| `DashboardProofs` | the inductive invariant and the theorems |

### PayoutDispatch

State: `payouts`, `approvals`, `history`, `outbox`, `audit` are the tables, reduced
to the columns that matter here (`payouts[p].attempts` is `dispatch_attempts`,
`deadLettered` says that `dispatch_dead_lettered_at` is set; an outbox event is
counted by type). `jobs` is the BullMQ job of the payout's created event, `runs`
what each processor slot is doing, `accepted` the provider's map, `issued` every
provider payout ever made, `callbacks` their callbacks. A transaction that takes
its locks with its first UPDATE, or runs SERIALIZABLE, is one step.
`applyPayoutCallback` is two, `ReadForCallback` and `ApplyCallback`, because
nothing is locked between its SELECT and its UPDATE. An attempt of the
dispatch job follows the code:

| Step of a run | Code |
|---|---|
| `find` | `findDispatchByOutboxEventId`, return if not `queued`; an error here skips the catch block |
| `submit` | the `fetch` to the provider; it may fail before or after the provider acted |
| `mark` | `markDispatchSucceeded`; a failure, also after the commit, goes to `record` |
| `record` | `recordDispatchFailure`, guarded by `status = 'queued'` |
| `throw` | the catch block of `processPayoutJob` with the dead-letter mirror |
| `settle`, `complete` | BullMQ counts the attempt if the slot still holds the lock |

BullMQ is external: it runs a job again with backoff until `attempts` is used up,
moves a stalled job back to the queue up to `maxStalledCount` times and then fails
it without running the processor, ignores ids that it knows, and forgets finished
jobs by age and count. The relay appears as `EnqueuePayoutDispatch`, at least once
for each created event.

`PayoutLifecycle` is instantiated with the statuses of `payouts` and the set of
payouts that some provider payout was issued for.

### OutboxRelay

State: `rows` is `dbo.outbox_events` with its lease, `relays` what each process is
doing: the events still to be done (`todo`), each with the attempts that
`claimBatch` returned, and the current one. `sent`, `queued` and `deadLetters` are
the broker, the dispatch queue and the dead-letter queue. Time is abstracted:
a lease may run out at any moment and a backoff ends at some moment, so the
model covers every ratio of the 30 seconds of a lease to the length of a batch.
A crashed process is replaced by another element of `Relays`, since
`workerId` has a random part. Every call to SQL, broker or queue can also do its
work and lose the answer.

### WebhookDelivery

State: `rows` is `webhook_deliveries` (`job` is `queue_job_id`, `due` says that
`next_attempt_at` has passed), `log` counts the rows of
`webhook_delivery_attempts`, `deadEvents` the `webhook.dead_lettered.v1` events,
which are appended together with their audit entries. `schedulers` is what the cycle
of each worker process is doing, `jobs` the BullMQ jobs by job id, `slots` the
running attempts, `accepted` how often the merchant took a delivery, `requests` the
replays.

| Steps | Code |
|---|---|
| `ScheduleMissing`, `FindUnqueued`, `ReserveQueueJob`, `EnqueueWebhookDelivery`, `ReleaseQueueJob` | one cycle of `scheduleWebhookDeliveries` in `queue-workers.service.ts`, each SQL statement and the call to Redis a step of its own |
| `FindDelivery`, `Post`, `RecordSucceeded`, `RecordFailed` | `processJob` in `webhook-delivery.service.ts`, the transactions of `webhook-delivery.repository.ts` |
| `MirrorDeadLetter`, `CompleteJob`, `FailAttempt` | `processWebhookJob` and BullMQ |
| `ReplaySelect`, `ReplayUpdate` | `replayDelivery` of the API: its UPDATE matches the id alone and its SELECT keeps no lock |
| `...Fails`, `CrashScheduler`, `CrashSlot`, `LoseJobLock` | the same calls throwing, before or after they took effect, and processes dying |

Job ids are random, so no job meets an older one with its id, and BullMQ's removal
of finished jobs needs no action here. The limit of 25 rows in the scheduler's
queries is left out: the model has fewer rows. A second INSERT of a row fails on
its unique constraint and ends that cycle without a trace, so an inserting cycle
only sees rows that are missing.

`Stranded` names a state that the code cannot leave: the row is reserved, and no job
and no scheduler is behind the reservation. A crash between `ReserveQueueJob` and
`EnqueueWebhookDelivery` leads there. The scheduler only looks for rows without a
reservation, and the API refuses to replay a pending delivery. `StrandedHasCause` lists
everything that can lead there, and `AnnouncedIsSettled` promises an outcome to
every delivery that is not stranded.

### TenantOperations and PayoutIntake

State: `tenants`, `members`, `clients`, `keys` and `audit` are the tables of
`operations.repository.ts`, `idempotency` is `payout_idempotency_keys`, `payouts` the
payouts by the call that made them, `calls` what each call to the API is doing.
Most operations read, decide and write in separate statements outside of a
transaction, so each statement is a step: `FindMembership`,
`CountOtherActiveOwners` and `WriteMembership` are `updateMembership`,
`FindKeyToRotate` and `RotateApiKey` are `rotateApiKey`, and `WriteAudit` follows
whatever was committed. `createTenant` and the second half of `rotateApiKey` are
transactions and single steps.

A payout request goes through `Authenticate` (`findActiveApiKeyByHash` and
`assertTenantAccess`), `RequireTenant`, `LookupIdempotencyKey` and `InsertPayout`. The last
two are one SERIALIZABLE transaction: its first SELECT has UPDLOCK and HOLDLOCK, so
`Locked` keeps every other request for the key waiting until the transaction ends,
and its other statements can be one step. `MatchingRules` is
`findMatchingRiskRule` with its ORDER BY. A request can fail at every step and its
answer can be lost after the commit (`LoseAnswer`); the merchant's retry is another
call. `MovePayout` stands for everything that `PayoutDispatch` does to the payout.

"A tenant must retain at least one active owner" (`operations.repository.ts:292`) does not
hold: two owners who demote each other both count the other one. Likewise two
rotations of one key, or a rotation beside a revocation, leave more than one
replacement, since the rows that the UPDATE touched are not looked at.
`LastOwnerLostToStaleRead` and `ReplacementsHaveCause` say exactly how far this can
go. A failure between a revocation and its audit entry leaves the revocation without
a record; the model has that step, and no property promises the entry.

`OnePayoutPerKey` says what idempotency means here: a key has at most one payout, all
answers for it name that payout, and no request meets the unique constraint behind
the lookup.

### SettlementReconciliation

State: `provider` is `provider_payout_id` of each payout, which the worker or a callback
sets once (`RecordProviderPayout`); `imports` are the committed imports with their rows,
`discrepancies` and `events` the rows they and the resolutions insert; `calls` what each
call is doing, with the rows (`found`) that a transaction has classified and nobody
else sees yet. `LookupDuplicate` runs outside of the transaction; `InsertImport` waits for a
concurrent import of the same file and fails if that one committed; `ReconcileRow` reads one
payout under SERIALIZABLE, so `RangeLocked` keeps its id from being recorded until
the import ends; `CompleteImport` commits. `ReadStatus` and `WriteResolution` are the
transaction of `resolveDiscrepancy` with its UPDLOCK, `ReturnDiscrepancy` the read of the
answer after it.

### ApiStartup

State: `database`, `versionTable`, `applied` (the rows of `schema_migrations`) and `schema`
(the migrations whose effects are there) are the server's, `tenant`, `children` and
`audited` the rows that seeding makes, `proc` where each replica and each seeding
request is. `runs` is a history variable.

| Steps | Code |
|---|---|
| `CheckDatabase`, `CreateDatabase`, `CheckVersionTable`, `CreateVersionTable` | `ensureDatabase` and the head of `runMigrations`: each IF and its CREATE are two steps, and the slower of two creations fails |
| `NextMigration`, `RunBatch`, `RecordVersion`, `CommitMigration` | the loop over the migrations, one transaction for each: its DDL keeps schema locks, its row keeps a key lock |
| `BatchLosesRace` | a batch whose guards were evaluated before the other one's locks |
| `InitializeFails` | the retries of `initialize`; after the last one the process ends (`main.ts`) |
| `FindTenant` ... `AuditChild` | `ensureDemoTenant`, `createTenant` and `ensureDemoChildren`: find, insert and audit entry of each row one after another |
| `Call` | `GET /v1/demo/dashboard` or `POST /v1/demo/seed` on a replica that serves |
| `DeleteDemoEndpoint` | `deleteWebhookEndpoint` for the demo endpoint, a soft delete |

A batch is one step, whatever its statements: they commit together. The reads of
`getTenantDashboard` after the seeding change nothing and are left out.

### Dashboard

State: `dashboard`, `active`, `list`, `selected`, `saving`, `loading` and `error` are the
store's, `key` the idempotency key in the payout form, `auth` the sign-in, `doing` what
each handler is waiting for. `tenants`, `changes`, `imports` and `payouts` are the server,
which only says how often each tenant was changed. `payouts` holds pairs of a tenant and
a key, as the server knows a key of one tenant only. What the page was told is in
history variables: `confirmed` (changes), `finished` (payouts, as such pairs, whose form
closed), `abandoned` (keys that a reload threw away), `left` (tenants that the page
turned from after the form was sent to them), `overlapped` and `trouble`.

| Steps | Code |
|---|---|
| `Initialize`, `SessionArrives` | `useAdminAuth.initialize`, `loadSession` and the first `load` at mount |
| `Load`, `SummaryArrives`, `ImportsArrive`, `DetailsArrive`, `LoadFails` | `load` with `loadReconciliation`, one step between each two awaits |
| `Submit`, `PostArrives`, `ReselectArrives`, `MutationFails`, `Ends` | `mutate` with the mutations that differ: a new tenant, a payout, an import, a resolution, and `"change"` for all that only post and load again |
| `Refresh`, `Pick`, `PickArrives` | the buttons, with the conditions under which they are disabled |
| `Handle`, `Lose` | the server's side of a request, and requests or answers that get lost |
| `Reload` | a reload or a redirect: handlers under way are gone, the page starts over |

Answers arrive in any order. `ErrorHasCause` records a trap of the code: `createTenant`
makes the new tenant active before `load` compares it with the one that was shown,
so the selected import of the old tenant stays selected, and every refresh asks for
it under the new tenant and fails, until the operator selects another import.

## Runs

| Run | Shows | Bounds |
|---|---|---|
| `dispatch_safety` | status, newest history row and events agree; causes of final statuses; one provider payout for each start of the provider; only callbacks break the chain of statuses; refinement of `PayoutLifecycle` | 1 payout, 2 slots, 2 provider payout ids, 2 attempts, 1 allowed stall, one fault of each kind |
| `dispatch_recovery` | queued payouts are dispatched; accepted ones are settled, unless the callback of the provider payout on record is lost | 1 payout that the provider declines, 2 slots, 2 provider payout ids, one crash or lost lock, one restart of the provider, one failed callback, fairness |
| `dispatch_final_failure` | expected violation, see Findings | 1 payout, 1 slot, one SQL failure |
| `outbox` | marks, duplicates, and an outcome for every event | 2 events, 2 relays, batch of 2, 2 attempts; a crash, and besides it one SQL failure or leases that run out under working relays; fairness |
| `webhook_safety` | deliveries, attempts and dead letters agree; repetitions and stranded deliveries have a cause; only a replay reopens | 1 delivery, 2 schedulers, 2 slots, 1 replay, 2 job ids, 2 attempts, 1 allowed stall, one SQL failure, one crash or lost lock |
| `webhook_recovery` | every event is delivered or dead-lettered, or stranded with a cause | 1 delivery, 1 scheduler, 1 slot, 2 job ids, one failure of Redis, one crash, one change of the endpoint, two stalls, fairness |
| `webhook_replay_race` | expected violation, see Findings | 1 delivery, 1 slot, 1 replay, no fault |
| `intake_safety` | one payout and one answer for a key, no payout for an ended key, the right rule; owners and keys as far as the code keeps them | 3 calls, 3 tenants, 5 members, 2 clients, 3 keys, 1 idempotency key, 2 bodies, 3 rules, 1 tick of the clock; `MCScenarios` limits what the calls may be |
| `settlement_safety` | files imported once and as of one moment, discrepancies resolved once | 3 calls, 2 tenants, 2 payouts, 4 provider ids, 2 files with 2 and 3 rows |
| `startup` | complete schema before serving, migrations once and in order, causes of half-seeded tenants, every replica serves | 2 replicas, 1 seeding request at a time, 2 migrations, 2 attempts of `initialize`, 2 faults, the demo endpoint deleted at any moment or never, fairness |
| `startup_seed_deleted` | expected violation, see Findings | 1 replica, 1 request, no fault |
| `dashboard` | no payout forgotten but after a reload or a turn to another tenant, the view is current and of one tenant, failed loads have a cause, buttons come back | 2 handlers at a time, 2 tenants, 1 change in all or a payout of each tenant with one key, 1 import of each tenant, 2 idempotency keys, 1 lost request or answer, 1 reload, fairness |

Why the bounds are enough: payouts share nothing but slots and provider
ids, so the hazards are between steps on one payout, and two slots give every
pair of concurrent attempts. Two attempts distinguish a retry from the last
attempt. One fault of each kind, in any order and place, gives the combinations
that matter (a stall and a lost commit, a restart between submissions). Two
events let a batch be abandoned half way, two relays let a lease change hands.
Webhook deliveries share no state but the endpoint, which every step only reads, so
one delivery shows what two would; two schedulers can find the same row, and two job
ids let a replay, or a reservation that was given back, bring a second job beside the
first one. The run for recovery gives a job one stall more than BullMQ allows, so
that a job fails without its processor.
Three calls give every race of two, with a third that comes before, between or
after them: two rotations of a key and a request that uses it, an import and two
resolutions of what it found. `MCScenarios` leaves out only mixes of calls that do
not meet: payout requests read no membership, and each scenario with a payout
request has every change to tenants, clients and keys. One tenant of
`MCPayoutIntake` does not exist at the start, a second one has a client in some
scenarios and none in others. Of the two ids that the provider made for one payout
in `MCSettlementReconciliation` only one is ever recorded, so the other is missing
for ever, as it is after a restart of the provider.
Races at a start are races of two: any two statements of two replicas, or of a replica
and a request, meet. Two migrations make "in order" and "the rest of the loop" mean
something, two attempts a last one and one before it. Two handlers are what overlaps
on a page: `saving` lets one mutation through at a time, and a read beside it or a
second read is the other one. One change is enough to make a view stale, one import
to have one selected, one lost answer to leave a payout unknown. A form that was sent to
one tenant may be sent to the other one too, which is the one second change that
`Within` admits. One reload gives its key away; the second key is the form's next one.

What the bounds leave to the proofs, or to nobody: `webhook_safety` has neither a crash of
a scheduler nor a failure of Redis, which together with two schedulers, a replay and
stalls are more than TLC can enumerate here. `webhook_recovery` has both, with one
scheduler, for `AnnouncedIsSettled`; the theorems `StrandedHasCauseHolds` and
`RepetitionHasCauseHolds` have them in any number. The decision on a payout is one step (`DecideApproval`), because
the code makes it in one SERIALIZABLE transaction: that two racing decisions cannot both
commit is what the database promises, so no property here tests it. `ViewIsCurrent` and
`ErrorHasCause` except a page on which two reads overlapped, whose answers may arrive in
any order and are not told apart by the code: what it shows then can be stale or mixed.
The proofs below remove the bounds for the properties they cover.

Each passing run also has, for each of its properties, a mutant of the model: a
definition changed as a plausible bug would change the code (defined next to it,
with a comment beginning "Mutant"), under which TLC finds the property
violated.

`CHECK_DEADLOCK FALSE` is used everywhere but in the runs of `ApiStartup` because every other
instance really stops: when all payouts are settled, or the operator is done, and all
faults are used up nothing is left to do. Requests that seed keep coming, so `startup`
is checked for deadlock.

## Fairness

`PayoutDispatch`: weak fairness of the first enqueuing of a created event (the
relay polls each second; `OutboxRelay` shows what this rests on: the event is not
given up), of starting a waiting job (BullMQ workers take jobs as long as they
live), of BullMQ's stalled check, of each step of a running attempt (every request
is answered or fails, both results being part of the step) and of the callback's
transaction. No fairness for the API's own requests: nobody has to create or
approve a payout. `OutboxRelay`: weak fairness of each relay's cycle (a timer), of
its steps, and of time passing for abandoned leases and backoffs. A relay that
crashes is never asked to act, and the crash budget leaves one alive.
`WebhookDelivery`: weak fairness of each scheduler's cycle (a timer), of starting a
waiting job and of BullMQ's stalled check, of each step of an attempt (post and
record, with either result) and of backoffs. None for replays and changes of
endpoints, which nobody has to make, and none for faults. `ApiStartup`: weak fairness of
each replica's next step, the start of a process included: `main.ts` ends the
process when `bootstrap` fails, and the ECS service
(`infra/terraform/modules/ecs-service/main.tf`) keeps its number of tasks. None for
requests, deletions and faults. `Dashboard`: weak fairness of each handler's next step,
which is that its request is answered or fails and that the page takes the outcome;
none for clicks and reloads.

## Findings

Each has a run that expects the violation.

- *Final failure not recorded* (`dispatch_final_failure`). `README.md:201` says that the
  final failure moves the payout to `failed`. An SQL failure in the last attempt, in
  the read outside the try block or in the recording itself, leaves it `queued` with a
  failed job.
- *Replay of a delivered webhook* (`webhook_replay_race`).
  `webhook-deliveries.repository.ts:87` says that only failed or dead-lettered
  deliveries can be replayed. The UPDATE at line 104 matches the id alone: a retry that
  delivers the event between the SELECT and the UPDATE is undone, and the merchant gets
  the event again.
- *Seeding after a deletion* (`startup_seed_deleted`). `README.md:145` says that
  `POST /v1/demo/seed` seeds idempotently. Once the demo webhook endpoint was deleted,
  the finder passes over the row and the INSERT (`operations.repository.ts:1160`) meets the
  unique constraint on `external_id` (`migrations.ts:86`), which counts soft-deleted rows.
  Every later seed is refused, and as `bootstrap` seeds before it listens, no replica
  comes up again. Because of this `EveryReplicaServes` excepts it.

Also worth knowing, and part of what the passing runs say:

- *Provider restart.* `docs/runbooks/staging-operations.md:49` says that dispatch
  retries remain idempotent by payout id. The provider keeps its keys in memory; after
  a restart the retry makes a second provider payout. `OneProviderPayoutPerStart` is
  what does hold.
- *Given up, then paid.* A callback that read the payout before the last attempt gave
  up overwrites `failed`, by an UPDATE that matches the id alone. `payout.failed.v1` and
  `payout.paid.v1` are then both sent. `OnlyCallbacksBreakTheChain` says that nothing
  else does so, and because of it `PayoutLifecycle` lets a verdict overwrite `failed`.
- *Selected import of another tenant.* See `ErrorHasCause` under Dashboard.
- *Lost callback.* The simulator logs a callback that failed and does not send it again
  (`provider-payouts.service.ts:79`). The payout then stays `processing` for ever, as
  nothing in the code asks the provider for its verdict. `AcceptedIsSettled` excepts it.
- *A form that outlives its tenant.* The answer to a new payout gets lost, the operator
  creates a tenant, which the page turns to, gets an API key for it and submits the form
  again. Its idempotency key is the old one (`index.vue:398` makes a new one only when
  the form closes), but the API knows keys of one tenant only (`README.md:181`), so a
  second payout is made, the form closes, and nothing on the page leads back to the
  first one. `NoPayoutIsForgotten` names this exception beside the reload.

## Proofs

No theorem assumes more than the named assumptions on the constants, which are those
under which the runs check the same properties. Every invariant and every action
property that a passing run checks is stated by a theorem; what is left to the runs
is liveness. Each inductive invariant was checked by TLC on the instance of its
component's run before it was proved.

### PayoutDispatch

`PayoutDispatchProofs` proves, for any number of payouts, slots, provider ids,
attempts, stalls and faults, from `ConstantsAssumption` alone:

| Theorem | Statement |
|---|---|
| `InductiveInvariant` | `Spec => []IInv` |
| `TypeCorrect` | `Spec => []TypeOK` |
| `ProviderSeesReleasedOnly` | `Spec => []ProviderOnlyAfterRelease` |
| `ProviderIdGenuine` | `Spec => []ProviderIdIsGenuine` |
| `Refinement` | `Spec => ImplementsLifecycle` |
| `FinalStatuses` | `Spec => PaidAndCanceledAreFinal` |

`ProviderIdIsGenuine` and `PaidAndCanceledAreFinal` are stated in the module and only
proved: the second one follows from the refinement, which a run checks.

None of the properties is inductive as it stands. That the provider only holds
released payouts depends on the attempt that submits, the attempt on the job, the
job on the created event, and that event on the release; `IInv` says of each of
them that it exists only for a released payout (`PayoutsOK`, `RunsOK`,
`ProviderOK`), and every step keeps a released payout released. A slot in its
`mark` step holds an id that was issued for its payout, which makes the id on the
row genuine. Attempts stay within their bound because a job that can run has used
fewer than `MaxAttempts` (`JobsOK`). A paid payout is never one that the provider
declines, so a late callback repeats the same verdict; this gives finality.

The proof has one lemma per action. `SqlStep` collects what a transaction on one
payout has to leave in order, `QueueStep` what a step of the queue, `ProviderStep`
what a step of the provider. `Refinement` has one lemma per kind of step that
changes a status, and `FinalStatuses` follows from it.

`PayoutHistoryProofs` goes on from `IInv`, with the same assumption:

| Theorem | Statement |
|---|---|
| `HistoryInvariant` | `Spec => []HInv` |
| `EveryTransitionOnRecordHolds` | `Spec => []EveryTransitionOnRecord` |
| `TerminalHasCauseHolds` | `Spec => []TerminalHasCause` |
| `OneProviderPayoutPerStartHolds` | `Spec => []OneProviderPayoutPerStart` |
| `OnlyCallbacksBreakTheChainHolds` | `Spec => []OnlyCallbacksBreakTheChain` |

Every step is first reduced to what it does to the rows (`RowEffect`: nothing, a
change of a queued row without a transition, a move from the status the row has, or
the move of a callback from the status it had read) and to the provider
(`ProviderEffect`: it issues an id, is restarted, a callback moves, or nothing).
`HInv` is inductive for these few effects, where the two dozen actions would each
need the whole argument. `RecordOK` counts the rows of a history that announce an
event; a row more is one more of exactly its own events. `ChainOK` needs that an
accepted callback stays accepted. `IssuedOK` is the bound on provider payouts made
inductive: what was issued is at most the number of restarts, plus one while the
provider still remembers the payout, so it issues anew only after it has forgotten.

### OutboxRelay

`OutboxRelayProofs` proves, for any number of events, relays, attempts and faults and
any size of a batch, from `RelayAssumption` and `NoneAssumption`:

| Theorem | Statement |
|---|---|
| `InductiveInvariant` | `Spec => []IInv` |
| `TypeCorrect` | `Spec => []TypeOK` |
| `PublishedWasAcceptedHolds` | `Spec => []PublishedWasAccepted` |
| `GivenUpAfterLastAttemptHolds` | `Spec => []GivenUpAfterLastAttempt` |
| `DuplicatesAreExplainedHolds` | `Spec => []DuplicatesAreExplained` |
| `SettledIsFinalHolds` | `Spec => SettledIsFinal` |

`GivenUpAfterLastAttempt` and `SettledIsFinal` are only proved.

`IInv` stands in `OutboxRelay`, before the properties. `RowOK` says that a leased
row is open, so whoever still owns a row may settle it. `RelayOK` says what each step
of a relay knows: after the broker took the event, `sent` counts it; a relay at
`mark` has queued what has to be queued; and as long as a relay owns a row, the
attempts that came with its claim are those of the row, which makes `IsLast` right
although it is decided from old data. `SendingsOK` is the bound on duplicates made
inductive: sendings that happened, plus relays that still have the event before them
(`Senders`), plus one if the row can be claimed (`Available`), are at most one more
than the failures and expired leases of the row. A claim moves the unit of
`Available` to `Senders`, a sending moves it on to `sent`, and an expired lease or a
recorded failure pays for the next one.

Steps of the clock and the table go through `RowStep`. For steps of a relay `Moves`
says what becomes of its own state and `Monotone` that nothing is taken back;
`QuietStep` covers those that touch no row, `SendStep` those that send,
`OutcomeStep` those that record an outcome, and `LeaseRows` what a claim does to the
rows. Cardinalities come from `FiniteSetTheorems`, which is why `Relays` is assumed
to be finite.

### WebhookDelivery

`WebhookDeliveryProofs` proves, for any number of deliveries, schedulers, slots, job
ids, replay requests and faults, from `WebhookAssumption`:

| Theorem | Statement |
|---|---|
| `InductiveInvariant` | `Spec => []IInv` |
| `TypeCorrect` | `Spec => []TypeOK` |
| `DeliveredWasAcceptedHolds` | `Spec => []DeliveredWasAccepted` |
| `StrandedHasCauseHolds` | `Spec => []StrandedHasCause` |
| `RepetitionHasCauseHolds` | `Spec => []RepetitionHasCause` |
| `DeadLetterAnnouncedOnceHolds` | `Spec => DeadLetterAnnouncedOnce` |
| `OnlyReplayReopensHolds` | `Spec => OnlyReplayReopens` |

`IInv` has three arguments. An attempt past its post knows that the merchant took the
event (`SlotOK`), whatever has become of its lock meanwhile, and so does a delivered
row (`RowOK`). As long as no process died and no statement failed (`Calm`), an open
delivery that is reserved has somebody behind it, a job that may still run or a cycle
about to add it or to give it back (`ReservedOK`); this needs that an attempt about
to complete its job has already taken the row out of its hands (`EndingOK`).
And every post that happened or may still happen is paid for by a failure on record,
a replay or a fault (`Paid`): the unit moves from the unreserved row to the cycle, to
the job that can be taken and to the slot that posts. `Schedulers`, `Slots` and
`Requests` are assumed to be finite for these counts; there is
one scheduler in each worker process, its slots are fixed by the concurrency of the
queue, and only finitely many replays have been asked for.

### TenantOperations and PayoutIntake

`PayoutIntakeProofs` proves, for any number of calls, tenants, members, keys, bodies
and risk rules, from `TenantAssumption`, `IntakeAssumption` and `NoneAssumption`:

| Theorem | Statement |
|---|---|
| `InductiveInvariant` | `Spec => []IInv` |
| `TypeCorrect` | `Spec => []TypeOK` |
| `OnePayoutPerKeyHolds` | `Spec => []OnePayoutPerKey` |
| `HeldByTheRightRuleHolds` | `Spec => []HeldByTheRightRule` |
| `EndedKeyMakesNoPayoutHolds` | `Spec => []EndedKeyMakesNoPayout` |
| `ReplacementsHaveCauseHolds` | `Spec => []ReplacementsHaveCause` |
| `LastOwnerLostToStaleReadHolds` | `Spec => LastOwnerLostToStaleRead` |

`PayoutOK` and `EntryOK` tie the two tables together: a payout is the one that its
idempotency key names, and an entry names a payout of its tenant, key and body. That
nobody meets the unique constraint is the range lock in `PayoutCallOK`: a request
between its lookup and its insert has found no entry, none can appear, and no other
request with the same key is there. The same part says that a request past
authentication had a key that was not ended when it arrived. `HeldByTheRightRule`
rests on what the query that sorts and takes the first rule returns
(`MatchingRulesAsk`): a first one exists because rules are numbered
(`DOMAIN RiskRules \subseteq Nat`), the one place where an order has to be well
founded, and matching depends on the rules alone. `ReplacedOK` counts: each replacement of a key beyond the
first is that of a rotation that read the key before it was revoked and updated it
after. The last owner is lost only by an update that ends an ownership it has seen,
and `AdminCallOK` says that such an update had counted another owner.

The other assumptions keep `None`, which stands for SQL's NULL, apart from every value
that it is compared with.

### SettlementReconciliation

`SettlementReconciliationProofs` proves, for any number of calls, tenants, payouts,
provider ids and files of any length, from `ReconciliationAssumption` and
`NoneAssumption`:

| Theorem | Statement |
|---|---|
| `InductiveInvariant` | `Spec => []IInv` |
| `TypeCorrect` | `Spec => []TypeOK` |
| `FileImportedOnceHolds` | `Spec => []FileImportedOnce` |
| `ResolvedOnceHolds` | `Spec => []ResolvedOnce` |
| `ImportIsASnapshotHolds` | `Spec => ImportIsASnapshot` |

Each part of `IInv` is what a lock is for. `AloneOK` is the unique index: while an
import is past its INSERT, nobody else is past the INSERT of the same file and nobody
has imported it. `FoundOK` is the key-range locks: every row that an import has
classified would be classified the same way now, because an id that it looked up
cannot be recorded. `LockOK` is the UPDLOCK: a discrepancy that a call is about to
resolve is open, and no second call is about to resolve it. Even the types need
one part of it, `ResolvingOK`: a resolution updates a row that exists. `UntouchedOK`
(an import has no discrepancies before it commits) separates the imports from the
resolutions. `FoundOf` is kept by every step that changes neither the call nor the provider
ids (`FoundKept`), so only the steps of an import and `RecordProviderPayout` need
an argument; `OthersKeepCalls` and `OthersKeepDiscrepancies` play the same role for
the resolutions.

### ApiStartup

`ApiStartupProofs` proves, for any number of replicas, requests, migrations, attempts and
faults, from `StartupAssumption`:

| Theorem | Statement |
|---|---|
| `InductiveInvariant` | `Spec => []IInv` |
| `TypeCorrect` | `Spec => []TypeOK` |
| `MigratedOnceInOrderHolds` | `Spec => []MigratedOnceInOrder` |
| `ServingIsReadyHolds` | `Spec => []ServingIsReady` |
| `HalfSeededHasOwnerHolds` | `Spec => []HalfSeededHasOwner` |

`IInv` says of each replica what it may rely on: the migrations below its `version` are
applied (`MigrationFits`), the rows before its `child` exist (`SeedFits`). A migration is
not committed twice because of `Exclusive`: two replicas that hold the locks of a
migration, between its batch and its commit, hold those of different ones.
`Frontier` is what makes races of seeds harmless: without a fault, as long as rows are
missing, some actor stands before the first missing row and nothing beyond it is
there, because of two actors that insert the same row only the slower one gives up.
`AuditsFollow` says the same of the audit entries.

### Dashboard

`DashboardProofs` proves, for any number of handlers and any bounds, from
`DashboardAssumption`:

| Theorem | Statement |
|---|---|
| `InductiveInvariant` | `Spec => []IInv` |
| `TypeCorrect` | `Spec => []TypeOK` |
| `NoPayoutIsForgottenHolds` | `Spec => []NoPayoutIsForgotten` |
| `ViewInvariant` | `Spec => [](IInv /\ ViewInv)` |
| `ViewIsCurrentHolds` | `Spec => []ViewIsCurrent` |
| `ErrorHasCauseHolds` | `Spec => ErrorHasCause` |

That no payout is forgotten rests on `OneMutation`: while `saving` is set at most one
handler is in a mutation, and none is otherwise, so the key in the form does not
change under a request that was sent with it. `Paid` adds that a payout handler whose
POST was answered has its payout under that key and its tenant, so a form that closes
leaves a payout behind. `NoPayoutIsForgotten` alone is not inductive beside `IInv`: a
payout request that the server has yet to handle must be for the tenant shown or for one
in `left`. `FormInv` says so, and its proof follows the form through every step that
changes the page. `Room` carries the bounds from the click to the server's step, which types
alone would not give, and `Shape` says which answers and items a handler can have at
each step.

What is shown needs a second invariant, `ViewInv`, on top of `IInv`. While
`overlapped` is false at most one handler is reading, so what it has put on the page is
still there when its next answer arrives: `Loaded` says for each step of a load what
that is, up to the details, which are those of the selected import or of one of the
tenant asked for. The reply under way is no older than what the page was told, because
a handler that is told of a change starts to read after it; `Told` adds that the server
refuses an import exactly under another tenant. The view is then `Current` whenever
nothing that replaces it is under way and no error is shown: a click on a mutation
clears the error of a view that is not current, but the mutation ends with a load or
with an error of its own. `ErrorHasCause` follows from `Loaded` and `Told` at the one
step that ends a load with an error.

### Model-checked only

All liveness (`QueuedIsDispatched`, `AcceptedIsSettled`, `AppendedIsSettled`,
`AnnouncedIsSettled`, `EveryReplicaServes`, `ButtonsComeBack`), which is out of the
prover's reach like the fairness it needs, and the violations of the three findings,
which are single counterexamples.

## Not modelled

The ledger entries, which are inserted with the payout and only listed; the
archived status of a tenant, which every statement treats like suspended; the wording of
events and audit entries; validation of request bodies, parsing of CSV files and of
connection strings; sessions, roles and permissions, which are checks on the
request alone; the export of reports, the secrets shown once and the rendering of the
dashboard; configuration, telemetry and the infrastructure, which keep no state that
payouts depend on. Faults come out of finite budgets, except for an unreachable
provider or broker, which only the attempts limit.

## Plan

In order of importance; each module gets an MC module, a safety and, where
something must happen, a liveness run, and a proof of its inductive invariant.

1. *Done:* `PayoutLifecycle`, `PayoutDispatch` and its proofs; `OutboxRelay` and its
   proofs; `WebhookDelivery`; `TenantOperations` with `PayoutIntake`;
   `SettlementReconciliation`, `ApiStartup` and `Dashboard`, each with its proofs.
   The proofs of `WebhookDelivery`, of `TenantOperations` with `PayoutIntake`, of the
   history of `PayoutDispatch` and of the view of `Dashboard` complete the safety
   properties of the runs.
2. An abstract specification of the intake (a map from idempotency keys to answers)
   that `PayoutIntake` implements, with the refinement proved.
3. `OutboxRelay` and `PayoutDispatch` composed: an event that is given up leaves its
   payout queued.
4. An abstract specification of one webhook delivery, as `PayoutLifecycle` is one of a
   payout, and a violation run for the last-owner rule.
