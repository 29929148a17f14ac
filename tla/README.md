# Verification of zoolanding-integrations

TLA+ models of the service in this repository, TLC instances that check them,
and TLAPS proofs of the safety properties, and of the refinements, of all five models. Line
numbers are those of the files under `src/` (`src/src/` where only a file name
is given); `PROJECT.json` maps every definition to the lines it models.

## 1. Inventory

The service connects tenants ("scopes") to Stripe and to an SMTP provider. It
runs as AWS Lambda functions over two DynamoDB tables, an SQS queue with a
dead-letter queue (migrations) and two DynamoDB streams (webhook ingress,
integration outbox). No memory is shared between invocations: whatever they
share is in DynamoDB, behind conditional transactions.

| Component | State it keeps | Operations | What is hard | Module |
|---|---|---|---|---|
| Bulk migration: preview (`migration_store.py`, `subscription_migrations.py`, `handlers/subscription_migration_worker.py`) | job, items, running commitment, subscription memberships | create, list a page, put, bind, reject, advance, complete, approve, cancel | overlapping workers, pages taken up again, jobs that want one subscription | `MigrationPreview` |
| Bulk migration: execution and cancellation (the same files) | job, items, leases, account slots, counters | execute, pause, resume, cancel; claim, apply, settle, retry, continue; undo, finalize; webhook | concurrent workers and webhooks, leases that outlive their holder, a canary, counters kept instead of counts | `SubscriptionMigration` |
| Webhook ingress, event worker, outbox relay (`handlers/stripe_webhook.py`, `handlers/stripe_event_worker.py`, `handlers/integration_outbox_relay.py`, `stripe_store.py`) | receipt, ingress record, projection, outgoing event | route, accept, reactivate; claim, retrieve, plan, retry, complete; publish, mark | duplicates, events out of order, crashes, streams that give up | `WebhookPipeline` |
| Stripe commands (`stripe_commands.py`, `stripe_store.py`) | receipt of a command, claim of an operation, mappings, code claims | claim, perform, call Stripe, complete, refuse, review, replay, resume | lost answers of Stripe, overlapping invocations, receipts and keys that expire | `StripeCommands` |
| Connection registry, onboarding, SMTP activation (`registry.py`, `onboarding.py`, `smtp_activation.py`) | connections, routing sentinels, one-use states, isolation claims | register, start, return, bind, activate, disable, reconnect, deauthorise | optimistic revisions and provider calls between read and write | `ConnectionRegistry` |
| Migration rules (`domain/operations.py`) | none | validation of snapshots, plans, prorations | pure | - |
| Provider adapter (`providers/stripe_adapter.py`) | none | requests, checks of responses | the effect of a call that fails is unknown | as outcomes |
| Routes, contracts, HTTP, authorisation, runtime wiring | none | | stateless | - |

How they interact. An operator's command writes the migration job and sends an
SQS message that names it; a worker reads the job anew and acts by its *state*.
The preview leaves items and a dry run, which the execution starts from. A
webhook is routed by the registry's sentinel, becomes an ingress record, and is
handled by the event worker, which may disable a connection, reconcile a
migration's item, or project a subscription and write an outgoing event.
Commands read and write the mappings the other parts rely on.

What makes each part correct:

- *Preview*: the dry run an operator approves is what is stored, complete, and
  held against other jobs; it ends.
- *Execution*: one mutation of a subscription at a time, no more than the
  canary before an approval, counters equal to the items, a readable record,
  outcomes that agree with Stripe, and an end.
- *Webhooks*: an accepted event is settled once and not stranded; the projection
  ends at the latest state; outgoing events are a log, and are sent.
- *Commands*: one effect and one settled answer for each command, whatever is lost,
  repeated or forgotten; what was retired stays retired.
- *Registry*: sentinels and records agree; a return that was overtaken activates nothing.

## 2. Modules

| Module | What it is |
|---|---|
| `SubscriptionMigration` | The migration from the accepted execute command to its end. |
| `MigrationLifecycle` | Abstract: phases of a job, outcomes of its items. `KeepsLifecycle` refines it. |
| `MigrationPreview` | The dry run before it: paged discovery by overlapping workers. |
| `ConnectionRegistry` | Connections, onboarding, deauthorisation, SMTP activation. |
| `WebhookPipeline` | Extends `ConnectionRegistry` by ingress, event worker and relay; the two run interleaved. |
| `SubscriptionLog` | Abstract: the events of a subscription as a log. `ImplementsLog` refines it. |
| `StripeCommands` | The commands, any number of invocations at a time. |
| `CommandLedger` | Abstract: an operation takes its commands one at a time, in order. `ImplementsLedger` refines it, for every operation. |
| `MC*` | Model values, scenarios and symmetry for TLC. |
| `MigrationTypes_proofs`, `MigrationCanary_proofs`, `MigrationCounters_proofs` | Theorems about `SubscriptionMigration` with any policy and any faults. |
| `MigrationRenewal_proofs` | Extends the last two: its theorems for the next-renewal policy, and `KeepsLifecycle`. |
| `MigrationPreview_proofs` | Theorems about `MigrationPreview`. |
| `ConnectionRegistry_proofs` | Theorems about `ConnectionRegistry`. |
| `WebhookPipeline_proofs` | Extends it: theorems about `WebhookPipeline`, and `ImplementsLog`. |
| `StripeCommands_proofs` | Theorems about `StripeCommands`, and `ImplementsLedger`. |

Each DynamoDB transaction is one step. What a handler read before it is kept in
the handler's state where the transaction does not check all of it again, so
that the conditional writes of the code are the model's only protection too.
Where a transaction's conditions cover everything that was read for it, read and
write are one step: a race would only make it fail, which is a crash and a retry
in the model.

### SubscriptionMigration

| Variable | Code |
|---|---|
| `job` | `SubscriptionMigrationJob`: `state`, `revision`, `counts` (`pending`, `applied`, `needsReview`), `awaitingProviderCount`, `appliedItemCount`, `cancellationRemaining`, `canaryClaims`, `canaryCompleted`, `mutationStarted`, `canaryApproved`, `canaryApprovalRequired` |
| `item` | `SubscriptionMigrationItem`: `state`, `attempts`, `leaseExpiresAt` (`none`, `live`, `expired`), `accountSlot`, `canary`, `cancellationAttempts` (`undo`); beside it `past`, the versions a lagging index may still show, and the history `misread`: a cancellation wrote the item from such a version |
| `slot` | `MigrationAccountMutationSlot`: whose it is, and whether its lease still runs |
| `worker` | locals of an invocation of `SubscriptionMigrationWorker.process` |
| `hook` | locals of `reconcile_migration_webhook` |
| `provider` | what Stripe holds for a subscription: `source` price, `scheduled` to change, `renewed` by that schedule, at the `target` price without a schedule, `paying` (a pending update), `other` (changed by somebody else) |
| `events`, `queue`, `owed` | webhook deliveries not acknowledged; SQS messages; a command answered `pending` because its message was not sent |
| `touched`, `failures` | history of the subscriptions this job changed; the bound on crashes and refused sends |

`RecordValid` is what `_validated_job` accepts: every action that loads the job needs
it, and fails (`Unreadable`, `Conflict`, `HookFail`) without it. `KeepsUndo` and
`TakesUndo` are the part of `_validated_item` that a write may fail.

| Actions | Code |
|---|---|
| `ReceiveStale`, `ReceiveExecute`, `ReceiveCancel` | `process`, the start of `_execute` and of `_cancel` |
| `Claim`, `EndClaim` | `claim_items`, one transaction per item |
| `ApplyItem` | `_apply_item`: the provider call and the outcome it decides on |
| `SkipPending`, `UndoItem`, `AwaitPendingUpdate` | `_cancel`, `_cancel_item` |
| `LoadItem`, `CommitItem`, `CommitSeen`, `Conflict`, `AlreadySettled`, `RetryRecorded` | `_finish_item` as called by `complete_item`, `retry_item`, `complete_cancellation_item` and `retry_cancellation_item`: read, validate, transact, or recover |
| `Continue`, `CancelDone` | `continue_execution`, `finalize_cancellation`, and whether the message is acknowledged |
| `Pause`, `Resume`, `Cancel`, `ReplayCommand` | `control`, `_enqueue` |
| `HookIgnore`, `HookDecide`, `HookFinish`, `HookContinue`, `HookFail` | `active_migration`, `reconcile_migration_webhook` |
| `Crash`, `HookCrash`, `LeaseExpires` | an invocation that dies or fails; the 120 s lease |
| `ForeignClaim`, `ForeignFinish` | another job of the same provider account |
| `ProviderSettles`, `Renewal`, `ExternalUpdate` | Stripe |

Abstractions:

- `pending_payment` and `pending_customer_action` are one state,
  `awaiting_provider`: no code tells them apart. `permanent_failure` and the
  counter `failed` are never assigned.
- A worker's message only names the job, so the queue is a number, capped at
  `MaxMessages`: beyond it messages are not told apart. A message that failed
  five times goes to the dead-letter queue; the model delivers it again for
  ever, as if it were redriven. The violations do not depend on it.
- Time is left out. Due times and back-offs are choices: a worker may pass
  over any item as not due (`EndClaim`, `late`). A lease outlives its holder
  (120 s against a time limit of 30 s, `template.yaml`), so `LeaseExpires`
  needs that no worker holds the item.
- The subscription claim record is written and deleted with the item's lease in
  the same transactions and always carries the item's own identity; it is
  folded into the lease. A slot's attempt number repeats the item's.
- A cancellation pass lists at most `MaxBatch` items state by state; ties are
  broken either way. `begin_cancel` and the listing are one step, and the two
  reads of `complete_cancellation_item` are one; `continue_execution` and
  `finalize_cancellation` read and write in one step (their write is
  conditional, and its failure only makes the message come back).
- A schedule created but not yet configured counts as `scheduled`; whether a
  failed call took effect is a choice. `OwnSchedules` are subscriptions that had a
  schedule before: theirs is restored rather than released.
- Not modelled: outbox events of the job, reason codes, amounts, the order of
  `lastProviderEventCreatedAt`, snapshots and guards beyond what they allow or
  refuse.
- `MigrationWorkIndex` is read without `ConsistentRead` (`_query_work_items`). With
  `IndexLag`, a look at the index (`Looks`) shows each item as it is or as it was at any
  time before: the listing of a cancellation, `finalize_cancellation`'s check, what
  `continue_execution` takes for actionable, and `control`'s search for an applied item.
  One look shows one version of an item. What a pass listed outdated is in its
  `outdated`, and what it then writes is marked `misread`, so that a property can say
  what an outdated listing may cost and what not.
- `ForeignJobs`, `IndexLag`, `ExternalSubs` and `OwnSchedules` switch parts of the
  environment on, so that a run can say which assumption a property needs.

### MigrationPreview

| Variable | Code |
|---|---|
| `job` | `state`, `revision`, `discoveryCursor`, `previewAggregate` (a bag of commitments for the two digest sums), `dryRunHash` (the bag it was made of), `counts.pending` |
| `item` | the items, by what `_preview_item_commitment` protects; amounts follow from snapshot and time |
| `member`, `active` | `MigrationSubscriptionIndex`, `ActiveMigrationSubscriptionIndex` |
| `queue`, `worker` | SQS messages not deleted; the locals of `_preview` |
| `listed`, `snapshot`, `clock`, `steady` | Stripe; server time; history: subscriptions listed ever since the job was created |

| Actions | Code |
|---|---|
| `Create`, `Approve`, `Cancel` | `create_preview` with its message, `schedule_execution`, `control` |
| `Receive`, `Discard` | `process` and the listing of a page |
| `Select`, `ReadForPut`, `Put` | the selection of a candidate; `put_preview_item`, its reads and its transaction |
| `Bind`, `Reject` | `bind_migration_subscription`, `reject_preview_item` |
| `Advance`, `Send`, `Summarize`, `Complete` | the end of a page, or of the preview |
| `End` | the execution, abstracted: items settle, the job ends |
| `Die`, `Appear`, `Leave`, `Change`, `Tick` | crash, retryable error or time limit; Stripe; the clock |

Subscriptions are numbers in the order Stripe lists them; a subscription that is
`Unfit` stands for each reason a selection refuses it. `Foreign` ones belong to
a checkout with other offers. The expiry of a dry run only keeps `Approve` from
happening, which it may anyway. A listing and the load of the job before it are
one step; only a change at Stripe in between could tell. `previewing` and
`awaiting_approval` cannot be paused. Left out: the rollback of a completed job
(part of `SubscriptionMigration`), and DynamoDB's answer of success to a repeated
identical `advance_preview`, after which both workers send the same message.

### ConnectionRegistry

| Variable | Code |
|---|---|
| `conn` | `IntegrationConnection`: status, revision, account, readiness, credential |
| `claim`, `unbound` | the routing sentinels of accounts, and of connections without one |
| `isolation` | SMTP isolation claims (credential, mail account, domain) |
| `visit`, `revocation` | a start or return of an onboarding; a deauthorisation, each with the revision it read |
| `granted`, `made`, `lost` | Stripe: authorised accounts, accounts created; history |

`Register`, `UpdateStatus`, `Disable`, `RequestReconnect` are the operator's boundaries;
`StartOAuth` ... `Activate` the steps of an onboarding of either strategy,
with `EndVisit` for an invocation that dies or a state that expires; `Revoke` and
`FinishRevocation` deauthorise; `ActivateSmtp` is the SMTP activation. Secrets,
JWT and signature checks are left out. `rebind_stripe_account` is not an action:
the theorem `BindingsFindNoAccount` shows that its caller never has the account it needs.

### WebhookPipeline

| Variable | Code |
|---|---|
| `receipt`, `ingress` | `WebhookReceipt`, `WebhookIngressOutbox` |
| `stream`, `worker` | the ingress stream (first record first, retried in place) and the worker's locals |
| `mapped`, `projection`, `outbox` | the checkout's mapping, `StripeSubscriptionProjection`, `IntegrationEventOutbox` |
| `outgoing`, `relay` | the relay's stream; how far it is with the first record |
| `published`, `undelivered` | what the topic was sent; history: what that stream gave up |
| `subscription`, `event`, `clock`, `latest`, `fresh` | Stripe, and which receipts were written in the current second |

`Deliver` is the handler with `accept_supported` (`Accept`, `Reactivate`);
`ClaimIngress`, `Retrieve*`, `DisableRevoked`, `Plan*`, `RetryIngress`,
`CompleteIngress` and `WorkerFails` are the event worker; `FailRecord` is the
stream giving a record up. `ClaimDelivery`, `Publish` and `MarkDelivered` are the relay's
three calls, `SkipDelivered` its early return, and `RelayFails` whatever cuts it short: the
stream then retries the record or gives it up. `States` are what the hash of a subscription
as read (`state_hash`, seven fields) tells apart, and `Told` what the outgoing event tells
of them (offer, status, period end): the code plans an event when the hash differs,
so two events in a row may tell the same. An object that names no checkout
(`mappingHint`, here outside `Hinted`) and has no mapping is ignored, one that names one is
retried. Time passes only with Stripe's events, so that
the window in which a redelivery compares equal is larger than the code's.
Events are numbered from 1, and 0 stands for no event.
Events of payments, refunds and checkouts only publish; they are left out, as
is `reconcile_migration_webhook`, which is in `SubscriptionMigration`.

### StripeCommands

| Variable | Code |
|---|---|
| `receipt`, `claim` | `StripeCommandReceipt`; `StripeOperationClaim` of a dimension of a resource, or, for changes of a subscription, of one revision |
| `run` | an invocation of `execute` and what it is about to write |
| `mapping`, `code`, `source` | `StripeResourceMapping`, code claims, the revision of a projection |
| `late`, `effect`, `answers` | commands older than 24 h; what Stripe did under a key; history of answers |

`Start`, `Replay`, `Resume` are the claim and its branches; `Perform` reads
mappings and decides (one operator per kind of command); `CallStripe` succeeds, is
refused, or is unsure (with or without effect); `Complete` and
`Transition` settle; `Age`, `Forget` and `Expire` are the 24 hour limit, Stripe's
dropping of a key, and the end of a receipt. `answers` holds what callers were told once
the command was claimed: how it was settled, or that it conflicts. The caller of a
rejected command is told 409 (`stripe_commands.py:122`), and so is one whose completion
cannot advance a mapping, or finds its command neither open nor accepted
(`stripe_store.py:1543`, `1662`): `Told` leaves these out. A command stands for its idempotency key,
since keys derive from operation, resource, revision and content; another
`commandId` for a key conflicts and leaves no trace. The claim's reads and its
transaction are one step (conditional on all it read). Several calls of one command under
derived keys are one `CallStripe`. Discount and checkout expiry, and the state of the
subscription at Stripe, are choices. A checkout whose mapping exists is the same only if its content and its
revision are (`stripe_commands.py:477-510`). `ScenarioAssumption` says what a scenario of
commands may ask: every command is about a resource of its kind, and what was completed
before the start created resources, each once, with codes of their own. The reference guard always refuses a
deletion (`migration_store.py:2318-2329`), so a deactivation keeps existing
subscribers and makes no provider call. `Forget` waits until no invocation performs.

## 3. Runs

`CHECK_DEADLOCK FALSE` throughout: a job may stop paused or finished, an
onboarding is over, a command is answered for good.

| Run | Instance | Shows |
|---|---|---|
| `renewal` | next renewal, 2 items, 2 workers, 2 slots, canary of 1, 2 attempts, 1 failure, revision up to 5 | all safety properties of the execution |
| `storm` | immediate, 2 items, 1 worker, 1 slot, another job, lagging index, external updates, 1 failure | counters stay exact under all of these; a cancellation skips touched work only from an outdated listing |
| `progress` | next renewal under fairness, 2 items, 1 worker, 1 slot, passes of one item, 1 failure | the refinement of `MigrationLifecycle`; an approved job ends; a cancellation ends unless an item is stranded |
| `preview` | 2 jobs, 2 subscriptions on 2 pages (one owned by a checkout), 2 workers, 1 mishap | the dry run agrees with the items, misses nobody, and holds what it promises |
| `registry` | an OAuth and a controlled connection, 2 accounts, 2 onboardings; or 2 SMTP connections, 3 credentials; revision up to 5 | sentinels, freshness of activations, isolation |
| `webhooks` | 2 events, 1 redelivery, 2 seconds, 2 mapping attempts, one event without a hint, states that tell the same, the operator beside | receipts, ingress, projection and relayed events; the refinement of `SubscriptionLog` |
| `commands` | 9 scenarios of 2 to 6 commands, 2 invocations | one effect, settled answers that agree; the refinement of `CommandLedger` |
| `canary_wedge`, `stranded`, `preview_replay`, `preview_canceled`, `redelivery` | the smallest instances | findings, section 4 |

The properties of the passing runs:

- `CountersAgree`, `JobReadable`, `CanaryBound`, `MutationsAreLeased`,
  `ClosedJobIsQuiet`, `SkippedNeverTouched`, `OutcomeMatchesProvider`,
  `CanceledLeavesNoSchedule`, `SettledForGood`, `KeepsLifecycle`, and the
  liveness properties `ApprovedJobEnds`, `CancellationEnds`: the execution.
  `MutationsAreLeased` and `ClosedJobIsQuiet` are about who may still migrate a
  subscription and who may undo it; section 4 says what they cannot promise of releases.
  What an outdated listing may cost is named in each (`misread`); the `renewal` run has no
  lag, the `storm` run and the proofs do.
- `CommitmentAgrees`: the commitment carried along equals that of the stored
  items, however workers overlap. `NoCandidateMissed`: a closed preview has an item for
  every subscription that was a candidate throughout. `PendingIsBound`:
  its pending items hold their subscriptions, also when a worker died
  between storing and binding.
- `SentinelsAgree`, `ActivationIsFresh`, `LostForGood`, `SmtpIsolated`: the registry.
- `ReceiptsAgree`, `NothingStranded`, `SettledOnce`, `ProjectionCurrent`,
  `OutboxRelayed`, `DeauthorizationHolds`, `ImplementsLog`: webhooks.
- `ReceiptMatchesClaim`, `ProviderOnce`, `AnswersAgree`, `AcceptedIsRecorded`,
  `CodeExclusive`, `NeverRevived`, `ImplementsLedger`: commands. `AnswersAgree` is about
  how a command was settled, not about a conflict told to an overlapping invocation.

**Bounds.** *Execution*: two items and two workers give every pair of concurrent steps;
`MaxAttempts = 2` has a first attempt, a last one and the reconciliation of an
exhausted one; `CanarySize = 1` leaves one item for after the approval.
`MaxRevision` bounds operator commands only: 5 allows the approval of a canary
followed by a pause or a cancellation, and the cancellation of a completed job. A second
crash adds no kind of behaviour to one crash and a redelivery. `storm` has one message
(`MaxMessages = 1`) and `Faults = {}`: with a lag, the versions of the items multiply the
states, and overlap is what `renewal` has. *Preview*: two
pages of one subscription each, so that workers can be on different pages; one
subscription both jobs want, one neither can have; a message may be processed
by both workers at any time, which has the effect of a crash and a
redelivery; `MaxMishaps` adds one death, change or tick. *Registry*: two accounts and
two visits race for either; `OneHalf` explores the Stripe or the SMTP
connections, which share no variable entry, so that steps of one commute with steps of
the other; `MaxRevision` bounds operator changes only. *Webhooks*: two events in
any order, in one second or two, either repeated; a stream gives up at any time.
*Commands*: each scenario has the commands whose claims, mappings or codes meet.

**Fairness.** Of the execution (`Fairness`, `PatientSpec`): SQS delivers what it
holds and an invocation runs to its end or its time limit, which is `Crash`: weak
fairness of each worker. What is not due yet becomes due: strong fairness of
`ClaimStep` and of a cancellation pass that finds everything due. Leases run out, a
caller answered `pending` replays its command, Stripe settles a pending update
and redelivers webhooks: weak fairness. Operators owe nothing. `PatientSpec`, used by
`progress` only, adds that Stripe does not fail transiently for ever, since
the code does not end otherwise (section 4). Of the preview (`FairSpec`): weak fairness
of each worker, for the same reason. The dead-letter queue takes a message after five
deliveries; the models deliver for ever, which only helps the code. With the next-renewal
policy, one job and one mishap, `PreviewEnds` holds.

## 4. Findings

Each has a run:

1. **A canary that must be retried wedges the job** (`canary_wedge`).
   `claim_items` refuses any claim once `mutationStarted` is true and
   `canaryApproved` is not (1346-1350), while `continue_execution` asks for the
   approval only when every canary claim has completed (1524-1530). A
   canary item in `retryable_failure` is never retried, and nothing
   after it is migrated. An operator can only pause and cancel.
2. **A stranded item** (`stranded`). After a crash the expired slot of an item
   is taken by the next one; the first item's settlement then deletes a slot it
   no longer owns, and can never commit. Execution recovers by claiming
   the item again; a cancellation never claims, and never ends.
3. **A preview that cannot be replayed** (`preview_replay`). With the immediate policy a
   page that is processed again gives each subscription a new proration time;
   `put_preview_item` refuses what differs from the stored item, for ever. A time
   limit or a retryable error after the first item of a page suffices.
4. **A canceled dry run** (`preview_canceled`). Canceling a preview with a cursor, or a dry
   run with pending items, stores a record that `_validated_job` refuses: its
   status cannot be read, and a later job that meets its subscriptions fails at
   `bind_migration_subscription` for ever.
5. **A redelivery that is refused** (`redelivery`). `accept_supported` compares the times
   of the request, so a redelivery in a later second conflicts, and an event
   whose stream record was given up while it was processing stays there.

Met while modelling, described without a run. Migration:

- `retry_cancellation_item` keeps the state while `_finish_item` clears lease and due time; for
  `retryable_failure` and `applying` the record fails `_validated_item`, so
  the attempt is not counted and never exhausted (`migration_store.py:1793`).
- A rollback after the renewal took effect releases the schedule and leaves the target
  price; item and job are recorded as reverted and canceled (`subscription_migration_worker.py:666`).
- The worker writes `pending_payment` after the webhook settled the item and completed
  the job (immediate policy, `migration_store.py:1749`).
- A webhook turns an applied item of a completed job into a review without the job
  (`migration_store.py:725`): the job can no longer be read. This takes an external update
  of the subscription, which `JobReadable` excludes.
- A release takes neither lease nor slot (`subscription_migration_worker.py:668`). Two passes
  of a cancellation may hold the release of one item; the slower one then calls
  Stripe when the item is settled, perhaps for review, and the job canceled.
- An event worker that dies between `_finish_item` and `continue_execution` leaves
  nobody to complete the job.
- The work index is eventually consistent. A cancellation that lists an item as pending
  though it was claimed since skips it, even while it is being changed, against
  `src/README.md:63` (only untouched work is skipped): it may keep its schedule and
  be reported as skipped. `SkippedNeverTouched` says that nothing else can cause this.
- The preview has the defect of finding 3 with any policy if a subscription
  changed, or was rejected, before the crash. A subscription that loses the price
  between `put_preview_item` and its retry stays pending and unbound;
  another job can then bind it. A completed job that is reopened by a cancellation
  after another job took over its subscription is protected by the rollback guard only.

Connections and webhooks:

- A Stripe connection that lost its account never binds one again (`LostForGood`), although
  `src/README.md:76` tells to reconnect it. A reconnect with the account kept
  cannot be completed, since the return requires that there is none
  (`BindingsFindNoAccount`; `tests/test_registry.py:335` tests the rebind alone).
- A deauthorisation that dies between disabling the connection and completing the
  event is never completed. A late one may disable the connection that holds the
  account by then.
- Events of one second are ordered by id (`tests/test_stripe_webhook_store.py:423`), so the
  projection may stay behind; `ProjectionCurrent` excludes that case.

Commands:

- A command whose invocation died after its claim is not performed again; after 24
  hours it goes to review. A completion that fails leaves it open.
- Of two overlapping invocations of a command, one may be answered 409 although the other
  is accepted: `_mapping_write` raises the conflict before the transaction whose
  failure would be looked into (`stripe_store.py:1543`, `1662`). It is the answer of a rejected
  command, too, so the caller has to ask again.
- A refused or reviewed command blocks its operation for good. A command may be
  answered rejected although Stripe did it.
- A discount with a code that went to `existing_only` can never be
  retired (its Delete is conditional on a claim already released); a revision racing a
  retirement leaks the code.
- Two first portal sessions race on the shared configuration, and one is refused.
  A checkout may sell an offer that is retired between read and call.

## 5. Proofs

TLAPS proves these for every value of the constants that satisfies the modules' ASSUMEs:
any finite number of items, workers, slots, jobs, subscriptions, connections, accounts,
events and commands, and any bounds. The theorems without a property are the inductive
invariants the others follow from.

| Module (`..._proofs`) | Theorem: property of `Spec` | Also assumed |
|---|---|---|
| `MigrationTypes` | `AlwaysInductive`; `TypesHold`: `TypeOK` | |
| `MigrationCanary` | `CanaryHolds`: `CanaryBound` | |
| `MigrationCounters` | `CountersHold`: `CountersAgree` | |
| `MigrationRenewal` | `RenewalInductive`; `JobStaysReadable`: `JobReadable`; `RenewalKeepsLifecycle`: `KeepsLifecycle`; `ProviderInductive`; `MutationsStayLeased`: `MutationsAreLeased`; `ClosedJobsAreQuiet`: `ClosedJobIsQuiet`; `SettlementsLast`: `SettledForGood`; `SkippedStaysUntouched`: `SkippedNeverTouched`; `OutcomesMatch`: `OutcomeMatchesProvider`; `CancellationLeavesNoSchedule`: `CanceledLeavesNoSchedule` | `Renewing` |
| `MigrationPreview` | `PreviewInductive`; `PreviewTypesHold`: `PreviewTypeOK`; `CommitmentsAgree`: `CommitmentAgrees`; `CandidatesAreFound`: `NoCandidateMissed`; `PendingStaysBound`: `PendingIsBound` | |
| `ConnectionRegistry` | `RegistryTypesHold`: `RegistryTypeOK`; `SentinelsHold`: `SentinelsAgree`; `FreshInductive`; `ActivationsAreFresh`: `ActivationIsFresh`; `LostStaysLost`: `LostForGood`; `BindingsFindNoAccount`; `IsolationInductive`; `SmtpStaysIsolated`: `SmtpIsolated` | |
| `WebhookPipeline` | `PipelineInductive`; `RegistryHoldsBeside`; `PipelineTypesHold`: `TypeOK`; `ReceiptsStayInStep`: `ReceiptsAgree`; `AcceptedEventsAreNotStranded`: `NothingStranded`; `SettlementsStay`: `SettledOnce`; `ProjectionFollows`: `ProjectionCurrent`; `EventsAreRelayed`: `OutboxRelayed`; `DeauthorizationsHold`: `DeauthorizationHolds`; `PipelineImplementsLog`: `ImplementsLog` | |
| `StripeCommands` | `CommandsInductive`; `CommandTypesHold`: `CommandTypeOK`; `ReceiptsMatchClaims`: `ReceiptMatchesClaim`; `StripeActsOnce`: `ProviderOnce`; `CallersAgree`: `AnswersAgree`; `AcceptedStaysRecorded`: `AcceptedIsRecorded`; `CodesStayExclusive`: `CodeExclusive`; `RetirementsLast`: `NeverRevived`; `CommandsImplementLedger`: `ImplementsLedger` | |

The ASSUMEs on constants say that sets are finite, that bounds are positive where the code
has a positive one, that the kinds of connections and resources are disjoint, and that what stands
for "none" is none of the others. `ScenarioAssumption` (commands) is described in section 2.

### The migration, with any policy

`TypeOK` is not inductive. That the queue stays positive needs that every
invocation has its message in the queue (`QueueHolds`); that a settled item has a
known state needs that a handler about to settle knows which item and
how (`WorkerShape`, `HookShape`); that `undo` stays within `MaxAttempts` needs that
an item which can still be undone has a retry left (`UndoBound`), which holds
because a retry that reaches the limit settles the item. `Inductive` is their
conjunction; there is one lemma per action, cited by `NextInductive`.

`CanaryBound` follows from `CanaryInv`: what was touched was claimed, what was claimed
before the approval is marked `canary`, and marks are no more than
`canaryClaims`, which the claim's transaction keeps within `CanarySize`. Every action
but `Claim` and `ApplyItem` is shown to leave these alone (`ClaimsKept`).

`CountersAgree` is preserved because a settlement commits only if item *and* job are
what its writer read (`Unchanged`). The lemmas on cardinalities then turn the
counters' arithmetic (`Metrics`) into a change of one item's state.

### The migration at the next renewal

`Renewing` is the next-renewal policy without subscriptions that somebody else leaves a pending
update on, so that no webhook reconciles an item. It is needed: with the immediate policy
a webhook may settle an item that a worker still holds, and what the worker then writes
breaks `JobReadable` (section 4, "met while modelling"). Crashes, expiring leases, other jobs of
the account, refused messages, every operator command and an index that lags by any number of
versions are included: nothing is assumed of `IndexLag`. What an outdated listing spoils is
an exception in the properties themselves, by `misread`, rather than ruled out.

`RenewalInv` is `Inductive`, `CanaryInv`, `CountersAgree` and three parts:

- `NoWebhooks`, the consequence of `Renewing`.
- `TaskInv`: what each worker may still write, given how far it is (`TasksShaped`). What a
  worker applies is leased to it, and its slot is its own, or the item is `misread`
  (`HoldersLeased`), and an item that a cancellation undoes is held by nobody, unless the pass
  listed it outdated (`UndoneUnheld`).
  `MutationsAreLeased` and `ClosedJobIsQuiet` follow.
- `JobInv`: what a job's record may say in each state, whatever operators do in
  between. Together with the counters it gives `RecordValid`, thus `JobReadable`:
  a job is never stored such that it cannot be loaded, so that the branches
  `Unreadable` and the like are never taken.

`ProviderInv` adds `Untouched` (an item that was never claimed, or was skipped from a listing
that was not outdated, is as Stripe had it), `ItemsMatch` (a state and what Stripe holds) and `WorkersMatch`
(a decision not yet written and what Stripe holds, whether or not the call that failed had
an effect). The three properties about Stripe follow.

`KeepsLifecycle` is proved as a step simulation: every step is a step of
`MigrationLifecycle` or leaves phase and outcomes alone, the fairness of the abstract
specification not included (it states none).

### The preview

What makes it hard is that two workers process one message, or two messages, of a job and
each wrote part of a page. `PreviewInv` has five parts: types, with digests as bags made of sets of
items; `JobInv`, the revision a job has in each state; `CommitInv`, the running commitment and the
dry run; `FoundInv`, everything up to the cursor is handled (stored and, if pending, bound), and
everything once closed; and `WorkersInv`. That one says why the cursor may move: a
worker's revision is the job's or an older one, and *while it is the job's*, whatever
the worker no longer has on its page, up to the page's end, is handled (`Covered`).
`StoreAdvances` is what a step may do to what is stored: whatever was handled stays so
until the job ends, and a job never returns to an earlier revision or to previewing. It turns the invariant of one worker after a step
of another into one lemma (`FitsOn`). `PageShape` is about the listing itself: the page is
the least `PageSize` subscriptions after the cursor, so that nothing listed is between.
`ItemAssumption` says that `NoItem` is not an item.

### The registry

`SentinelsAgree` is inductive but for what a transaction trusts of its caller: an
onboarding that binds has a Stripe connection and an account (`VisitShape`), and so
has a revocation that disables (`RevocationShape`). `BindingAgrees` and
`DisablingAgrees` are the two transactions that move a sentinel; every other step leaves
accounts and sentinels alone (`AccountsKept`).

Freshness is about what a visit read before its calls to Stripe. `FreshInv` adds that what a
visit carries is still what the record says as long as the revision is the one it read
(`VisitsCarry`), and where a connection's account, sentinel and loss may be (`AccountsPlaced`).
It is inductive because no transaction changes a record and keeps its revision
(`RecordsAdvance`). `IsolationHeld` is the invariant of the SMTP claims.

### The webhooks

`PipelineInv` contains `FreshInv`: the event worker deauthorises, and
`RegistryHoldsBeside` shows that the registry's properties survive the composition, since
each step of it is a registry step or leaves the registry alone. `BaseInv` is about the
records (receipt and ingress record; outgoing events that carry the projection's revisions, each once).
`FlowInv` is about what is under way: where an event's stream record is, and that what the
worker decided of the first record is still right when it is written (`CurrentInv`), although
Stripe, the operator and redeliveries go on in between. `RelayInv` adds to `OutboxRelayed`
that an event the relay has claimed is the first of its stream and not yet marked, and that
it was sent once `relay` says so. `ImplementsLog` maps the outbox to the log: a step
appends at most one entry. That none tells of a live subscription after a cancellation is
`CanceledInv`: once what the projection shows is canceled, so is the subscription at Stripe
and what the worker has read of it since.

### The commands

`CommandsInv` has five parts: types; `StoreInv`, receipts and the claim of their
operation (with `TakenInv`: a command that left a trace was claimed, and its operation never
goes back before it, so that a command that can be claimed is new, also after its receipt expired); `KeyInv`,
when Stripe may forget a key; `AnswersInv`, how callers were told their command was settled; and `CatalogueInv`, mappings and codes
against the claims, and what each invocation is about to write against what the catalogue shows by
now. The proof found an error of the model: `AcceptedIsRecorded` could not be proved while a checkout
with an equal mapping counted as done, since the code compares the revision as well. TLC's
scenarios had no such pair. `ImplementsLedger` is proved for each operation of the catalogue.

### Only model-checked

- Liveness (`ApprovedJobEnds`, `CancellationEnds`, and the runs of section 4 that refute one) and
  whatever depends on ENABLED: out of the provers' reach.
- Nothing else of the passing runs: every other invariant and action property, and the three
  refinements, are proved. With the immediate policy or external updates,
  however, only `TypeOK`, `CountersAgree` and `CanaryBound` are.

## 6. Not modelled

- Migration rules, request building and response checks of the adapter,
  message contracts, HTTP, authorisation and policy checks, internal routes,
  runtime wiring: they keep no state. Their verdicts are choices of the models.
- Payment, refund and checkout events, which only publish; listing, status and
  reads; the provisioning of secrets.
- The deployment template, beyond redelivery, time limits and stream retries.
- Three hazards have no property because what they warn of happens (section 4): the webhooks
  at `migration_store.py:725` and `:1749`, which leave a record that is refused, and the renewal
  between a migration and its rollback.
- Two more have none: an event worker that dies before
  `continue_execution` (a liveness instance with webhooks and workers is too large for
  TLC), and a cancellation pass filled by items that await the customer (needs more
  items than `MaxBatch` under fairness).

Next: what still holds of the execution with the immediate policy (leases of the items no
webhook settles, `SettledForGood` for items of open jobs), the settlement of finding 2 as
an invariant of what can be stranded, and a proof that the preview's `Spec` implements the
start of the execution.
