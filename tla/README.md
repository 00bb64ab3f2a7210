# QuickDash in TLA+

Models, model-checking runs and machine-checked proofs for the parts of QuickDash /
QuickEngine that decide what a business's records, stock and money end up as. The
repository is a TypeScript monorepo: an API service (`services/api`) over Postgres,
business modules (`packages/modules/*`), an event dispatcher with its handlers
(`packages/event-dispatch`), billing (`packages/billing`), agents (`packages/agent-*`)
and several frontends. All paths below are relative to the repository root.

Contents: [the system](#the-system) · [the modules](#the-modules) ·
[what the runs show](#what-the-runs-show) · [bounds](#bounds) · [fairness](#fairness) ·
[proofs](#proofs) · [disagreements found](#disagreements-between-the-code-and-what-it-says) ·
[not modelled](#not-modelled) · [plan](#plan)

## The system

How a request becomes durable, and what follows from it:

```
 client ──HTTP──> API route ──> mutation unit of work (one transaction)     MutationLedger
    │                │              domain rows · audit row · outbox row · api_mutations row
    │ upload         │                                       │
    │                │          orders ── stock movements     │             OrderStock
    ▼                │          payments ── refunds ledger    │             PaymentSettlement
 FileDocuments       │          invoices ── entries, payments │             Invoicing
                     │                                       ▼
 provider ─webhook───┤               outbox drain (lease, retry, give up)    Outbox
                     │                 │            │             │
                     │        webhook fan-out   refund restock   supplier payment and refund
                     │                 │         (OrderStock)     (SupplierSettlement)
                     │                 ▼
                     │        webhook deliveries (lease, retry, disable)     WebhookDelivery
                     │
                     ├── top-ups ──> credit ledger <── agent runs            AgentSpend
                     │
 hourly schedule ────┴── renewal runs · supplier sweep · reconciliation · storage cleanup
                         (SubscriptionRenewal) (SupplierSettlement)        (FileDocuments)
```

Everything is built from the same few devices: one database transaction per command,
row locks (`FOR UPDATE`), advisory locks, `SKIP LOCKED` claims under a lease written as a
future `available_at`, conditional updates, unique idempotency keys, and at-least-once
delivery. The hard behaviour is what happens *between* transactions: state read in one and
used in another, outcomes written by row id after a lease has lapsed, external calls made
between two transactions, redelivered and reordered events, and processes that die
anywhere.

### Inventory of components

| Component | State it keeps | Operations | Hard behaviour | What makes it correct | Model |
|---|---|---|---|---|---|
| Mutation unit of work, retention (`packages/db/src/mutation-unit-of-work.ts`, `mutation-retention.ts`) | `api_mutations` rows, advisory locks, the open transaction | `execute`, response pruning | racing retries, lock-hash collisions, a crash at any statement or after COMMIT | one effect per key; domain, audit, outbox and ledger row together or not at all; truthful answers | `MutationLedger`, `OnceCommand` |
| Outbox drain and dispatcher (`packages/events/src/outbox.ts`, `packages/event-dispatch/src/dispatcher.ts`) | `api_outbox_events`: attempts, `available_at`, `published_at` | claim, deliver, reschedule, give up, publish | concurrent drains, drains slower than their lease, crash loops, poison events | at least once, no attempt twice, nothing stuck behind a poison event | `Outbox`, `AtLeastOnce` |
| Webhook fan-out and delivery (`packages/event-dispatch/src/webhooks.ts`, `application.ts`) | endpoints, deliveries | fan-out, deliver, judge and disable, create / update / delete endpoint, replay | fan-out repeated, outcomes written by id over replays and deletions, judgement in two statements | bounded calls, success only after an answer, disabling only after failures | `WebhookDelivery`, `AtLeastOnce` |
| Orders and inventory (`packages/modules/orders/src/orders.ts`, `inventory-bridge.ts`, `packages/modules/inventory/src`) | orders, fulfillments, items' balances, movements | create, place, confirm, process, fulfil, cancel, delete, restock, adjust, archive, settings | buyers racing for the last unit, a restock that locks no order, settings changing between movements | no oversell; stock follows status; returns backed by what was taken | `OrderStock` |
| Payments and checkout settlement (`packages/modules/payments/src`, `services/api/src/checkout-settlement.ts`, `payments-routes.ts`) | payments, `payment_refunds`, the provider's own truth | checkout, settle, refund, dispute, statuses by hand | provider events repeated and reordered, provider call outside the unit of work, lost answers | the ledger neither passes the amount nor lies; paid once and on evidence | `PaymentSettlement` |
| Supplier settlement, refund, reconciliation (`packages/modules/inventory/src/supplier-settlement*.ts`, `packages/event-dispatch/src/supplier-*.ts`) | `supplier_payments`: status, transfer id, reversed amount; the provider's transfers | record, claim, send, unwind, sweep, reconcile | four writers of one row without a lock, an answer lost after the money moved, a changing reversal key | sent once; the row never claims more than the provider did; a ready supplier is paid | `SupplierSettlement` |
| Subscriptions and renewals (`packages/modules/orders/src/subscriptions.ts`, `packages/event-dispatch/src/subscription-renewal.ts`) | subscriptions, cycles, failed attempts | start, attach a card, list due, claim, charge, settle, pause, resume, cancel | overlapping runs that listed one row, a stop between listing and claiming, a lost failure count | one charge per cycle; ended only by failures; a stopped one left alone; a due one renewed | `SubscriptionRenewal` |
| Documents: upload and purge (`packages/modules/files/src/records.ts`, `services/api/src/quickdash-routes.ts`, `packages/event-dispatch/src/storage-cleanup.ts`) | documents, versions, objects, `mutation_idempotency` keys | upload, trash, restore, delete, purge | database and object store do not commit together; the key is claimed before the work | what can be opened has its bytes; one holder per key; a deletion completes | `FileDocuments` |
| Invoices, billed time, overpayment guard (`packages/modules/invoicing/src`, `time-tracking/src`, `payments/src/payments.ts`) | invoices, lines, entries, payments | draft, send, bill, detach, approve, record, refund, dispute | three modules writing one invoice in every order | time billed once; issued is fixed; never collected beyond the total | `Invoicing` |
| Agent runs, AI spend, credit (`packages/billing/src/ai-spend.ts`, `packages/db/src/credits.ts`, `packages/agent-runtime/src`, `services/api/src/agent-routes.ts`) | credit ledger, action counter, run budgets | admit, run, settle, top up | nothing reserved between admission and settlement; top-ups delivered twice at once | limits overrun only by runs side by side; one payer; paid credit arrives once | `AgentSpend` |
| Metering, gauges, usage billing (`packages/billing/src`) | counters, billed usage | record, bill | a monthly run repeated or racing its counters | every unit billed once | planned |
| Bookings, quotes, timers (`packages/modules/{bookings,quotes-estimates,time-tracking}/src`) | bookings, quotes, timers | book, convert, start and stop | two takers of one slot, quote or timer | one taker | planned |
| Referrals (`packages/modules/orders/src/referrals.ts`) | referral earnings | earn, reverse | redelivery | earned and reversed once | planned |
| Module registry (`packages/module-registry/src`) | enabled modules | resolve dependencies, enable | – (pure) | closure under dependencies | planned, as a function |
| Workspaces, roles, invitations (`packages/db/src/{workspaces,orgs,rbac,invitations}.ts`) | memberships, roles, invitations | invite, redeem, leave | an invitation redeemed twice, the last owner leaving | always an owner | planned, last |
| Checkout pricing, discounts; fulfillment, shipping | priced lines, fulfillments | price, ship | – | limits of discounts | statuses in `OrderStock`; pricing planned as a function |
| Supplier handoff; public media; plans, platform subscriptions; contracts and e-signing; projects, clients, content, products; reporting; customer sessions; notifications; rate limiting; realtime, search, jobs; webhook signing; SDK, CLI, frontends, configuration | – | – | single guarded statements, queries, I/O, cryptography or user interface | – | not planned, see [below](#not-modelled) |

`PROJECT.json` lists the components with their sources, and under `hazards` forty places
where this code can go wrong in a way a test would hardly reach, with the properties that
are about each.

## The modules

Each component has a module with its state as variables and one action per database
transaction, statement or external call — whatever the code lets others come between.
`MC*` modules instantiate them for TLC; `*Proofs` modules and `SumTheorems` hold the theorems.
`Sums` holds the sum of a column over a set of rows, which three modules use. Operators
whose comment begins with "Mutant" are deliberately broken variants of an action or a
helper next to them, used to make sure that every property can fail.

### `OnceCommand` and `MutationLedger`

`OnceCommand` is what the unit of work promises (the `MutationUnitOfWork` contract of
`packages/api-contracts/src/mutations.ts`) with no transaction, lock or row in sight:
under one key a command takes effect at most once, a call is told *success* only when the
effect of its own input exists, *conflict* only when another input's does, and a refused
call had no effect.

`MutationLedger` is `execute()` statement by statement. `pc[c]` walks through the code:

| `pc` | action | code |
|---|---|---|
| `new` | `Start`, `StartTooLate` | the abort signal and deadline check before the transaction |
| `lock` | `TakeLock`, `LockIsTaken` | `pg_try_advisory_xact_lock`, answered `in_progress` when taken |
| `read` | `FindConflict`, `FindCompleted`, `FindNothing` | the existing row decides |
| `insert` | `ClaimKey` | insert of the `in_progress` row, the unique index |
| `work` | `Write` (domain, audit, outbox), `Complete` | the command's own writes, then status `completed` |
| `commit` | `Commit` | everything in `buffer[c]` becomes visible, the lock goes |
| `announce` | `Announce` | the best-effort nudge after COMMIT, then the answer |
| any | `RollBack`, `Crash` | an error inside the transaction; a process that dies |

`Prune` is the retention job. `LockOf` stands for `hashtextextended`: it may map two keys
to one number. The refinement mapping (`EffectOf`, `ToldTo`) reads a key's effect off the
committed domain change and a client's knowledge off the answer.

### `AtLeastOnce`

What the two queues of the system promise, with no rows, leases, clocks or workers: an item
is handed over at most `Limit` times for each time it was asked for, and closed only once
every part of what is owed for it has been seen done. `Accept`, `HandOver`, `Close`, and
where the customer may interfere (`Revocable`) `Withdraw`, `Reopen` and `AskAgain`. `Outbox`
implements it for events, with its handlers as the parts and nothing revocable;
`WebhookDelivery` for deliveries, with an endpoint's answer as the only part. There an
item counts as accepted while its row is queued or a worker still has it in hand: a row
that a customer deletes may be called for once more.

### `Outbox`

`drainOutbox` and the loop around it. `Store` is a commit that wrote events; `Claim` is
the `SKIP LOCKED` select and its update (attempts + 1, `available_at` := now + lease);
`Deliver`, `Fail` and `GiveUp` run every handler on the oldest claimed event;
`Reschedule` writes the backoff **by row id**; `Finish` marks everything that was
delivered published, at the very end of the drain; `Crash` forgets what was delivered and
not marked. Time is relative: `hidden[e]` and `lease[d]` count down under `Tick`, so no
clock has to be bounded. `handled` and `ran` are history variables.

### `WebhookDelivery`

Endpoints are `absent`, `on`, `off`, `auto` (disabled by the platform) or `deleted`.
`FanOutRead` / `FanOutInsert` are the two statements of the fan-out, and `FanOutFails` the
foreign key that refuses an endpoint deleted between them. A worker goes
`idle → load → run → answered | failed → run`, and by `failed → judge → disable → run`
after a last attempt: `MarkSucceeded`, `MarkRetrying`, `MarkExhausted` write outcomes by row id,
`Judge` reads the newest deliveries and `AutoDisable` writes the endpoint in another
statement. Customers `CountEndpoints` then `CreateEndpoint`, enable, disable, delete and
`Replay`. A worker may outlive its lease or die at any step: `lost` counts, per delivery,
the holds that ended that way before the outcome was written.

### `OrderStock`

A transition of an order is a transaction `p` that locks the order (`BeginPlace`,
`BeginCancel`, `BeginFulfil`), then per line reads what the order holds (`ReadQuantity`,
`ReadHeld`), locks the item and moves the stock (`Move`; `MoveAgain` when the movement's
key exists), and commits status, delivery and balances together. `BeginRestock` is the
refund handler: the same steps with **no order lock**. The rows of
`inventory_adjustments` are kept as the two sums the code asks for, `held` (reserved) and
`taken` (off the shelf) per order and item; `dHeld`, `dTaken`, `dKeys` are a
transaction's own uncommitted part, so reads are READ COMMITTED. Operators archive items,
record movements and change the module's settings meanwhile.

### `PaymentSettlement`

The provider's truth (`charged`, `money`, the events it has sent) is kept beside what the
database says (`order`, `pay`, `ledger`, `told`, `warned`). A handler's database work is
one transaction that locks the payment and then the order, so it is one step; the calls
and separate transactions around it are steps of their own: `MarkDisputed` and
`WarnOfDispute` are two transactions with `CrashInDispute` between them, and a refund
request calls the provider (`CallProvider`), fails there (`ProviderRefuses`) or goes past it
(`SkipProvider`: `refundAtProvider` answers `refunded: false`, because the workspace is in the
other mode or not connected, and the route goes on) before the unit of work looks at its key
(`WriteLedger`, `Replay`, `Refuse`). Events arrive in any order. `unbacked` and `early` are
history: the payments whose ledger took a request that went past the provider, and the refund
events handled before their charge's success was. An event moves
`none → sent → (marked) → handled → done`: *handled* means the answer was lost and the
event will come again. `SendAgain` is a client that heard nothing. `SettleRow` carries
the code's rule that a transition which is not allowed counts as one already made.

### `SupplierSettlement`

The row of an obligation (`status`, `known`, `reversed`) beside the provider's truth
(`moved`, `requests`, `taken`, `made`, `buried`). Workers — any number of handlers of
`order.paid`, and the sweep — go `idle → checking → claiming → sending → paid | unsure |
failed`: `Check` reads the row (`settlementEligibility`), `Claim` is the conditional
update that only one of them can win, `Transfer` the call with its fixed idempotency key,
`Answered` the write of the outcome. An answer that is lost may be either: `asTransferError`
calls some of them final, and the row is then `failed` though the transfer may exist. `WorkerDies` may happen at any stage. A refund event
runs `UnwindStarts → Cancel | Reverse → WriteReversal | UnwindEnds`, any number of times;
its `Key` is derived from what the row says is already reversed. The reconciliation lists
rows, asks the provider about one (`ReconcileAsks`), by its id or by a search, and writes the
answer by id (`ReconcileWrites`). `TakeBack` is the provider acting by itself. `Bury` makes a
transfer one that the search misses, because it is not among the account's newest hundred or
the account it looks in is of the other environment. `OthersChange` lets the rows of other
obligations, of which the model says nothing else, fill the limit of a query or make room.

### `SubscriptionRenewal`

`Buy` is a checkout of a plan (and its retry, under the same key), `Attach` the saved card.
A run lists what is due (`ListDue`), and per subscription either opens the cycle (`Claim`,
one transaction: the cycle's unique key, the next date) or skips it; `Charge` goes to the
provider, and `SettleCharged` or `CountFailures` and `SettleFailed` write the outcome. The
failure count is read and written in two statements, so two settlements may lose one.
Operators and customers `Stop` and `Resume` at any time; `Tick` is one period.

### `FileDocuments`

An upload: `Claim` (the key), `Admit` (the storage gate), `Reserve` (document and version
rows), `FindReserved`, `Write` to the store, `Publish`, `Answer`; after a failure
`WriteFails`, `FailVersion` and `Release`; `Die` anywhere, which leaves the key claimed.
`Replay` is what a second request with the key is told. The owner moves the document
between active, archived, trashed and deleting (`SetStatus`), also while its upload is under
way. A cleanup run takes a deleting document: `PurgeStarts`, `PurgeFrees` (the objects),
`PurgeDrops` (the rows), `PurgeFails`. The object store is one set, the database's rows are
the other variables: nothing commits both.

### `Invoicing`

One action per operation of three modules. The author: `Create`, `Rewrite`, `Delete`,
`SetInvoiceStatus`. Time tracking: `Log`, `Approve`, `Unapprove`, `VoidEntry`, `Restore`,
`DeleteEntry`, `Bill` (a set of approved entries, one line each, under the unique index on
the source) and `Detach`. Payments: `RecordPayment` and `SetPaymentStatus`, `Refund`, each
with `Reconcile`, which moves the invoice between sent and paid by what `Net` says is
collected. Every operation holds the locks of what it decides on, so each is one action;
what can go wrong is their order. `byHand` and the payments' `contested` are history: the
invoices an operator declared paid, and what had been given back of a payment when it was
last disputed.

### `AgentSpend`

`ReadWorkspaceSpend`, `ReadAllowance` and `ReadBalance` are admission's three queries, in
the code's order; `Admit` and `Refuse` its outcomes. A run takes `Turn`s until its budget,
the model or the provider ends it (`Stop`); `Throw` is a run that throws and is charged its
ceiling. `Settle` records the spend with one payer: the plan's counter (`CountAction`) or
one row of the credit ledger (`WriteSpend`); `Lose` is a settlement that fails or dies,
after which nothing comes back to the run. `Age` and `NextMonth` move the cap's window and
the plan's month. Credit: `Pay`, then `Deliver` and `InsertTopUp` for each delivery of
Stripe's event, with `DeliveryFails`. `overlap` is history: the most runs ever in flight
at once, which is what the limits are stated against.

## What the runs show

Every run is `tlc -config X.cfg MC<module>.tla`. State counts are distinct states, rounded.

### Runs that pass

| Run | Config | Question | States |
|---|---|---|---|
| `ledger` | `MutationLedger.cfg` | Do three racing or retried calls over two keys and two inputs, with rollbacks, crashes and pruning, take effect once per key and answer as `OnceCommand` does — and do they always end? | 82 k |
| `outbox` | `Outbox.cfg` | With two drains in batches of two, two poison events that fill a batch in front of a healthy one, two handlers, lapsing leases and a crash: is no attempt run twice, does the drain keep to `AtLeastOnce`, does every event settle, is the healthy one published? | 79 k |
| `webhook_late` | `WebhookDelivery.cfg` | When workers outlive their leases or die, an event is fanned out twice, and the endpoint's customer replays and edits: is the queue still `AtLeastOnce`, and why may an event be acknowledged twice? | 1.3 M |
| `webhook_live` | `WebhookDeliveryLive.cfg` | With late workers, one of which may die: does every delivery end, is a healthy endpoint served beside a failing one that is created under the fan-out? | 84 k |
| `stock` | `OrderStock.cfg` | With two transactions interleaved at their row locks, two orders competing for the same bags, refunds and one manual step: is anything oversold, returned twice, or out of step with the order? | 1.4 M |
| `pay` | `PaymentSettlement.cfg` | With two charges of one order, two refund requests, a dashboard refund, a dispute, statuses by hand, a lost answer, requests that go past the provider, and events in any order, repeated until answered: can the ledger pass the amount or claim a refund that was not made, is an order paid twice or without evidence, does a repeated event change anything, and is every charge and full refund recorded? | 0.3 M |
| `supplier` | `SupplierSettlement.cfg` | With the event and the sweep racing for one obligation, a refund delivered any number of times, the reconciliation, deaths everywhere, answers lost as uncertain or as final, other obligations that fill the batches and a provider that takes money back: is the transfer asked for once, does the row stay within what the provider did, is a ready supplier paid, and is the row brought back to what the provider holds? | 137 k |
| `renewals` | `SubscriptionRenewal.cfg` | With two overlapping runs that may die anywhere and a subscription that is paused, cancelled and resumed: is a cycle charged once, is a stopped subscription left alone, is a due one renewed? | 60 k |
| `files` | `FileDocuments.cfg` | With an upload and its retry against the owner's changes and the cleanup, deaths and a failing store at every step: can a document be opened whose bytes are gone, do two requests hold one key, does a deletion complete? | 4 k |
| `invoicing` | `Invoicing.cfg` | Under every order of the operations of three modules on two invoices, two entries and two payments: is time billed twice, does an issued invoice change, by how much may more be collected than its total, does its status say what was collected? | 1.3 M |
| `agents` | `AgentSpend.cfg` | With two runs against an allowance, a balance and a cap, throwing runs, lost settlements and a payment delivered twice at once: by how much are limits overrun, who is charged, does paid credit arrive once? | 66 k |

The properties behind those questions:

* **MutationLedger** — `OneEffectPerKey`: however many calls carry a key, one domain
  change is committed under it. `ImplementsOnce`: the refinement to `OnceCommand` — *success*
  is told only when the effect of that key and that input is committed, *conflict* only when
  another input's is, a refusal when the call left nothing. `EveryCallEnds`.
* **Outbox** — `EachAttemptRunsOnce`: no two drains hold one attempt, none is run again;
  with `attempts ≤ MaxAttempts` handlers see an event at most that often.
  `DeliversAtLeastOnce`: the refinement to `AtLeastOnce`; no event is published before each
  of its handlers has succeeded, whoever dies, is late or drains beside it.
  `EveryEventSettles`, and `HealthyIsPublished`: a healthy event is published although the
  poison events before it fill a batch, as long as fewer drains die than it has attempts —
  which the filter on attempts makes so: without it exhausted events would be claimed first
  for ever.
* **WebhookDelivery** — `DeliversAtLeastOnce`: the refinement to `AtLeastOnce` —
  `MaxAttempts` calls per delivery and as many again per replay, even when leases lapse, and
  none closed as succeeded that its endpoint has not answered. `AnsweredOnce`: every
  acknowledgement of an event after the first is owed to a replay, or to a worker that lost
  the delivery, by its death or its lease, between claim and outcome; a second fan-out, or an
  outcome written late over another's, repeats none. `EveryDeliverySettles`: a delivery ends
  as succeeded or exhausted, and is left pending without attempts only if a worker lost it or
  it was replayed in a worker's hands. `HealthyIsDelivered`.
* **OrderStock** — `NoOversell`, `StockFollowsOrder` (both while the settings stay as they
  are), `HoldsAreSound`, `ReturnsAreBacked` (also across changed settings): an order never
  holds or takes more than was ordered, and no item it names in one line is given back
  twice, however often the refund is delivered.
* **PaymentSettlement** — `RefundedIsWhole`: the ledger never passes the amount, and a
  payment is refunded exactly when it reaches it. `PaidOnEvidence`: an order is announced
  paid at most once and only after a charge went through. `LedgerIsTrue`: for payments
  refunded as a whole the ledger exceeds what the provider gave back only when it took a
  request that had not reached the provider. `RedeliveryChangesNothing`: an event that was
  handled and comes again, in whatever order and after whatever else, changes nothing, but for
  a dispute, which it may take back, and a refund that was reported before its charge.
  `ChargeIsRecorded`; `RefundIsRecorded`, with the same exception of early refunds.
* **SupplierSettlement** — `SentOnce`: the provider is asked for a transfer once, whoever
  races, dies or retries. `BooksAreTrue`: whoever writes the row last, it never claims a
  transfer that does not exist or a reversal above what came back. `ReadyIsSent`: an
  obligation whose supplier stays ready does not stay calculated, though its handler may have
  died. `ProviderIsBelieved`: again and again the row of a transfer, initiated or succeeded,
  has its id and what came back of it, whoever took it. Both except rows that others keep out
  of the batch again and again, the second also a transfer that the search cannot see.
* **SubscriptionRenewal** — `ChargedOncePerCycle`. `EndedOnFailures`: a subscription that
  nobody cancelled is cancelled only after as many failed cycles as the limit says, although
  the count is read without a lock. `StoppedIsLeftAlone`: no run opens a cycle of a
  subscription that was paused or cancelled after the run listed it. `DueIsClaimed`.
* **FileDocuments** — `ReadableIsStored`: what its owner can open, in the trash included,
  has its bytes in the store. `KeyHasOneHolder`: a claimed key has one request behind it
  and a free one none. `DeletionCompletes`.
* **Invoicing** — `TimeIsBilledOnce`: an entry is on one line of one invoice.
  `NeverOverCollected`: payments net of refunds pass an invoice's total by no more than what
  had been given back of its payments when they were disputed.
  `PaidIsCollected`: an invoice that payments have touched is paid exactly when its total
  is collected. `IssuedIsFixed`: lines and total of what has left draft never change.
* **AgentSpend** — `LimitsGiveByOverlap`: balance, cap and allowance are overrun by at most
  one turn plus a whole run for every other run in flight at the same time.
  `ChargedToOnePayer`: a run is charged once, to the plan or to the credit ledger, and not
  before it ended. `CreditedOnce`: a payment's credit is there once, never without the
  payment, and Stripe is told so only once it is.

Where a property has a premise or an exception (`spent.settings = 0`, `WholeRefunds`,
`unbacked`, `early`, `lost`, `crowded`, `buried`, `contested`, `byHand`), it is read off the
state, its history or the requests that are made, and does not limit what the model does. The
section on [disagreements](#disagreements-between-the-code-and-what-it-says) shows what
happens without it.

`CHECK_DEADLOCK FALSE` stands in every configuration because every one is a finite
workload: when all calls have ended, all events are published and all counters are spent,
the system rests. The liveness properties are what rules out stopping too early.

TLC also finds no violation, on the same instances, of these properties that are in no
run's list (put one in place of the run's properties to check it again): each module's
`TypeOK`; `AllOrNothing`, `EvidenceIsKept` and `LocksAreFreed` of the ledger;
`PublishedWasHandled`, `LeaseIsExclusive` and `PublishedIsFinal` of the outbox;
`SucceededWasAnswered` and `DisabledWasFailing` of the webhooks; `DisputeIsTold` of
payments; `AheadByRuns` of renewals; `TotalIsTheLines` of invoicing. Those that are proved
are in the section on proofs.

### Bounds

* **Two actors race, a third observes.** Every race found or excluded here is between two
  transactions, drains or workers; the ledger has three calls so that a retry can follow a
  race between two others. Two keys, two inputs and two locks are enough for every
  comparison `execute()` makes; colliding locks are covered by the theorems, which hold
  for every `LockOf`.
* **Attempts 2, leases 1–2 ticks, backoff by the code's doubling with a ceiling.** Two
  attempts give a first, a retried and an exhausted attempt. A lease of one or two ticks
  is enough for a claim that lapses at once, later, or not at all. The production values
  (eight attempts of an event, a minute's lease) differ in number only; the theorems about
  attempts hold for all of them.
* **Outbox: three events, two of them poison, batches of two.** The poison ones fill a batch in
  front of the healthy one until they are out of attempts.
* **Webhooks: one endpoint fanned out to twice, with one replay, one death and two edits; or two
  endpoints, one healthy, with one fan-out, one death and batches of one.** Leases lapse freely
  in both. The theorems hold for every number of endpoints, events, replays and edits.
* **Orders of one and two lines, quantities 1 and 2, two units on hand.** The orders cannot
  both be served, an order of several lines can fail after its first line moved, and the
  difference between a line's quantity and what is held matters. One manual step: a
  second one adds nothing but more of the same balances.
* **Payments: amounts 1 and 2, requests of 1, one lost answer, one dashboard refund, events
  in any order.** 2 is the smallest amount with a partial refund. Each lost answer is one
  redelivery or one retry. No order of the instance is short of stock.
* **Supplier: one obligation of two units, one handler and the sweep, one refund of one
  unit, batches of one.** The obligation is the only row shared by its writers; two units make
  a reversal partial; one refund may be delivered any number of times. That other rows compete
  for a batch of one is `crowded`: any number of them, coming and going at any time.
* **Renewals: one subscription, two runs, two failures, one period, one resumption.** Two
  failures are the least that can be miscounted; one period and one resumption give the
  four cycles among which a run can be late.
* **Files: two uploads with one key, one cleanup run, room for one file.** Two cleanup runs
  (15 k states) and three uploads (0.5 M) show nothing more.
* **Invoices: two of everything, amounts 1 to 3 against totals 2 to 4.** An invoice can be
  paid in two parts, overpaid, refunded in part, and an entry can be billed elsewhere.
  Symmetry makes the two of each kind interchangeable.
* **Agents: two runs of at most two turns costing 1 or 2, a run's ceiling and the cap at 3,
  one intent of 3, two deliveries at once, one failure.** A third run (0.7 M states, turns
  of 2) shows nothing more.
* Counters that only histories need are capped where the property is already decided
  (`HistoryCap`, `told`, `warned` and `calls` stop at 2). All bounds are
  constants: `MaxCrashes`, `MaxFanouts`, `MaxReplays`, `MaxEdits`, `MaxManual`, `MaxLost`,
  `MaxTime`, `MaxResumes`, `MaxMonths`, `MaxFailures`.

Symmetry is used only where no liveness is checked (`MCSymmetry`, `ProcSymmetry`,
`Alike`). In the ledger's run, which does check liveness, the symmetry of keys and inputs is
broken by hand: `FirstRequest` fixes the first call's request.

### Fairness

Only what the code schedules is assumed:

* *Ledger*: `WF(Execute(c))` — a started call runs on: each statement ends within
  `lock_timeout` 5 s and `statement_timeout` 30 s (`mutation-unit-of-work.ts:72-73`), and
  the lock is never waited for. No fairness for rollbacks, crashes or retention.
* *Outbox, webhooks*: `WF(Tick)`, and per drain or worker `WF(Claims)`, `WF(Drain)` /
  `WF(Works)` — the cron starts a run every minute for ever, and a run that has not died
  reaches its end because handlers return or throw and every HTTP call is cut off by its
  timeout. Crashes, customers and fan-outs are not fair.
* *Payments*: `WF` of handling some event — the provider sends an event again until it gets
  an answer of 2xx; its events are finitely many and answers get lost `MaxLost` times, so handling
  some event for ever reaches each. The provider's own steps, operators and requests are not fair.
* *Supplier*: the schedule starts the sweep and the reconciliation for ever
  (`WF(SweepLists)`, `WF(ReconcileLists)`). A run may die at every step, but not every run
  dies before it reaches the same row: strong fairness of `SweepTakes`, `Check` and `Claim`
  of the sweep, of `ReconcileAsks` and `ReconcileWrites`. The event's handler, refunds and
  the provider are not fair: nothing may depend on them.
* *Renewals*: `WF(Renew(r))`, and `SF(Claim(r, s))` for the same reason.
* *Files*: `SF` of the cleanup's three steps per document; uploads and owners are not fair.

Apart from runs that may die, weak fairness is enough: no action waits for something that
is enabled only now and then.

## Proofs

The theorems hold for every value of the constants that meets the named assumptions of the
module: any number of calls, orders, payments, runs or workers, any amounts, limits, leases
and backoffs. TLC evaluates those assumptions in each run. Every invariant the passing runs
check is stated by a theorem, and so is every action property. Each argument has the same
shape: an inductive invariant with `Init => Inv` and `Inv /\ [Next]_vars => Inv'` (one lemma
or step per action), and a theorem for each consequence. TLC checked each invariant before
it was proved.

Some proof modules hold the theorems of two components. Where both would give a name to
their `Init`, `Next`, `Spec` or `TypeOK`, one of them carries a prefix: `OutboxSpec`,
`SpendSpec`, `RenewalSpec`.

| Module, component | Theorems | Inductive invariant, and why it is needed |
|---|---|---|
| `MutationOutboxProofs`, `MutationLedger` | `LedgerTypes`, `KeyTakesEffectOnce`, `CommitIsAtomic`, `ClientsAreToldTheTruth`, `LedgerEvidenceIsKept`, `LedgerImplementsOnce` | That a commit overwrites no row follows only if what the call read is still true: a call inside its transaction holds its key's lock (`LockHeld`), so its row is still free (`KeyStillFree`); its writes are complete at the commit (`BufferFilled`); rows carry the key and input of their owner (`RowsOwned`); nobody has an answer or an effect too early (`NoAnswerYet`). |
| `MutationOutboxProofs`, `Outbox` | `OutboxTypes`, `PublishedMeansHandled`, `AttemptsRunOnce`, `PublishedStays`, `OutboxImplementsAtLeastOnce`, `LeasesAreExclusive` | Publication happens at the end of a drain, so what a drain is about to mark must be handled already (`HeldRows`), and that an attempt is new when it is claimed needs that only claimed attempts have run (`AttemptsSpent`). That two drains never both have time left on one row needs that a row is hidden for at least as long as the lease under which it is held (`HeldIsHidden`), which only a failure breaks (`OnlyFailingFail`). |
| `WebhookDeliveryProofs` | `WebhookTypes`, `CallsStayBounded`, `SucceededMeansAnswered`, `OnlyFailingIsDisabled`, `AcknowledgedOnce`, `WebhooksImplementAtLeastOnce` | The bound counts claims, not calls: calls made plus claims held never exceed the attempts counted plus those that replays have reset (`AttemptsPay`), whatever leases do. A judge disables in a second statement, so a worker about to disable must carry evidence that stays true: as many deliveries of its endpoint were exhausted, in the history, as the setting asks (`JudgedInv`). That an event is acknowledged once needs both leases and counting: what a worker has in hand is queued, or its endpoint is gone for good (`HoldInv`); and answers so far, plus the workers that may still call and the claim that may still come, are paid for by one fan-out, the replays and the holds that were lost (`AnswersPay`), where a row that a worker hides for the length of its lease is open to no claim, and one whose lease runs out is a lost hold. |
| `OrderStockProofs` | `TypesHold`, `NothingIsOversold`, `NoHoldIsOverReleased`, `StockFollowsTheOrder`, `ReturnsWereTaken` | First (`IInv`) what a transaction has locked, read and moved but not committed (`Txns`), so that on hand and reserved, with every uncommitted movement, stay what the policy allows. Then `Accounts`, in five parts: which transitions are under way and that no order but a refunded one has two (`Lives`); that a release or a sale is of what the order holds when its line was read, under the order's lock (`Holds`); that what an order ever reserved is what the keys of its movements say, so it cannot reserve a line twice (`Reservations`); that the return of an item's only line is of what was taken, and is made once (`Returns`); and that a transition has moved exactly the lines it has done and none it has left, so that balance and status meet at the commit (`Followed`). |
| `ChargeProofs`, `PaymentSettlement` | `PaymentTypes`, `RefundsAreWhole`, `PaidNeedsEvidence`, `WholeRefundsAreTrue`, `RedeliveryIsHarmless` | Evidence needs that only charges that went through are reported (`ReportedWasCharged`). The ledger's truth needs that by the time a refund is reported, or waits for the ledger after the provider was asked, the provider has given back everything (`GivenBackWhole`, in `WholeInv`). That a redelivery writes nothing is about what the first delivery left behind and everything since left standing (`SettledInv`): a success that was handled has left its order beyond draft and its payment beyond the statuses a success could move, but for a dispute, and a refund that was handled, unless it came early, has left its payment refunded or failed — all unless the order was deleted. |
| `ChargeProofs`, `SubscriptionRenewal` | `RenewalTypes`, `CyclesAreChargedOnce`, `EndsOnFailures`, `AheadByNoMore`, `StoppedIsNotRenewed` | A run with a claimed cycle is the only one with it and the cycle is pending (`OwnInv`), which rests on the cycle's unique key; every failure counted belongs to a cycle that failed (`FailuresAreCounted`), although the count is read without a lock; a date lies ahead by at most one period for each run that no longer lists its subscription (`DatesAreNear`); a stopped subscription has no date to be listed for (`StoppedHasNoDate`). |
| `SupplierSettlementProofs` | `SupplierTypes`, `TransfersAreSentOnce`, `SupplierBooksAreTrue` | "Sent once" is about a worker between its claim and the provider's answer: such a worker is alone on its row and nobody has asked for the transfer yet (`SendersAreAlone`) — which no later writer of the row can undo, since nothing makes it claimable again. "Books are true" needs that whatever a worker, a refund or the reconciliation carries to the row was true when it was learnt and stays so, because transfers are never unmade and what came back only grows (`MessagesAreTrue`). |
| `FileDocumentsProofs` | `OpenedHasItsBytes`, `KeysHaveOneHolder` | A version is published in a transaction that sees the row, not the store: what is written is stored unless a purge has begun (`WrittenIsStored`), a purge begins only past return (`PurgeIsPastReturn`: no transition leaves deleting), and rows are reserved before they are written (`ReservedFirst`). The key's theorem is a bijection between claimed keys and requests in a holding state, counted at the end. |
| `BillingProofs`, `Invoicing` | `InvoicingTypes`, `BilledOnce`, `TotalsAreKept`, `NothingIsOverCollected`, `PaidWhenCollected`, `IssuedStays` | The unique index is on the lines, the decision on the entries; that a line's entry is not billed again needs the shapes of both (`Shapes`) and that a line carries its invoice. The guard looks at a sum, and that sum is too low by what disputed payments had given back. So the invariant (`CollectedInv`) bounds another sum, of what stands of each payment (`Standing`), by the total (`WithinTotal`); it says of every payment what it may have given back in its status (`Plausible`), from which that sum is never above the guard's (`SumIsBelowNet`). Totals must stay the sum of the lines meanwhile, because billing and detaching move the total a payment was measured against. `IssuedStays` is an action property: it needs no invariant but every operation's guard on the draft. |
| `BillingProofs`, `AgentSpend` | `SpendTypes`, `TopUpsArriveOnce`, `RunsAreChargedOnce`, `LimitsGive` | A delivery about to insert carries a paid intent (`CreditInv`); a run on its way to an answer has been charged nothing, and has a payer (`ChargeInv`). Limits are read in one transaction and drawn on in a later one: the invariant gives each run in flight what it may still draw of each limit, and bounds the sum of that and what has been drawn by the limit, one turn, and a whole run and its last turn for each other run (`LimitInv`). That needs each run to keep within its budget and its last turn, and `overlap` to be at least the runs in flight (`BudgetInv`). |
| `SumTheorems` | thirteen facts about `Over`, among them `SumWith`, `SumsCompare`, `SumChanged`, `SumIsBounded` and `SumOfSums` | Balances, totals and what was ordered or collected are sums over sets of rows (`Sums`), taken by a fold that picks elements. The induction principle of the library takes a predicate the provers cannot instantiate, so each fact is proved from a smallest set that would refute it, by the well-foundedness of the subset relation. |

Three theorems prove a refinement: the initial states map to initial states, and each step
maps to a step of the abstract specification or a stutter.

* `LedgerImplementsOnce`: an effect appears at `Commit`, an answer at `Announce` or a refusal;
  a rollback tells its client that the call was refused.
* `OutboxImplementsAtLeastOnce`: `Deliver`, `GiveUp` and `Fail` hand an event over, which
  needs that its attempt has not run (`EachAttemptRunsOnce`) and that the attempts run are
  numbered by those claimed (`AttemptsSpent`); `Finish` closes what is in `done`, which
  `HeldRows` says every handler has succeeded on.
* `WebhooksImplementAtLeastOnce`: a call hands its delivery over, within what claims and
  replays have paid for (`AttemptsPay`, and at least one claim is held by the caller); the
  fan-out accepts, an edit that deletes rows and a worker that lets a deleted row go
  withdraw, an outcome written over an earlier one reopens. That the counter of calls, which
  the model stops at a bound of its own, never reaches that bound is part of the
  proof (`ReplaysSpent`: a delivery's replays are among those made).

No theorem has a hypothesis beyond the named assumptions on the constants. Where the code
keeps a promise only up to a point, the theorem states the point: `AcknowledgedOnce` counts the
replays and the holds that workers lost, `NothingIsOverCollected` what had been given back of
disputed payments, `RedeliveryIsHarmless` and `WholeRefundsAreTrue` name the early refunds, the
disputes and the requests that went past the provider. The table of
[disagreements](#disagreements-between-the-code-and-what-it-says) has the statements without
these exceptions, all violated.

**Only model-checked**: the liveness properties — `EveryCallEnds`, `EveryEventSettles`,
`HealthyIsPublished`, `EveryDeliverySettles`, `HealthyIsDelivered`, `ChargeIsRecorded`,
`RefundIsRecorded`, `ReadyIsSent`, `ProviderIsBelieved`, `DueIsClaimed` and
`DeletionCompletes`. Liveness under fairness needs ENABLED, which is out of the prover's
reach. No module declares a RECURSIVE operator.

## Disagreements between the code and what it says

One run expects a violation of what a comment of the repository states:

| Run | Property | What happens |
|---|---|---|
| `supplier_again` (`SupplierSettlementAgain.cfg`) | `PulledBackOnce` | A partial refund whose event is delivered again pulls the supplier's share back a second time: the reversal's key is derived from what the first delivery raised (`packages/modules/inventory/src/supplier-settlement-run.ts:336`, against :335). |

Fifteen more configurations are kept as witnesses. Each ends in a counterexample that
marks the limit of a property above, or shows that a comment does not hold; run them like
the others.

| Config | Property | What it shows |
|---|---|---|
| `OutboxOrder.cfg` | `OrderIsPreserved` | A failed event is rescheduled with a backoff and the drain goes on, so a later change of the same record overtakes it (`packages/events/src/outbox.ts:204`). README.md:125-126 promises preserved ordering. |
| `WebhookDeliveryReplay.cfg` | `ReplayIsHonoured` | A replay that lands during a call is overwritten by its outcome and never attempted (`packages/event-dispatch/src/webhooks.ts:374`, against `application.ts:367`). |
| `OrderStockRestock.cfg` | `NoHoldBelowZero` | The restock of a refunded order and its cancellation read the same hold and both give it back, the second out of another order's (`packages/modules/orders/src/inventory-bridge.ts:380`, against :220). |
| `OrderStockShipped.cfg` | `FulfilledWasTaken` | An order restocked after a refund and then fulfilled leaves the shelf count untouched (`inventory-bridge.ts:300`). |
| `PaymentSettlementPartial.cfg` | `LedgerIsAlwaysTrue` | `charge.refunded` for a part is recorded as the whole (`packages/modules/payments/src/checkout-settlement.ts:282`, against `refund-provider.ts:22`). |
| `PaymentSettlementRetry.cfg` | `RefundedOnce` | A refund request sent again after its answer was lost reaches the provider twice (`services/api/src/payments-routes.ts:419`, against `refund-provider.ts:20`). |
| `PaymentSettlementEarly.cfg` | `SwallowedWasDone` | A refund reported before its charge's success is acknowledged and lost (`checkout-settlement.ts:38`, against :23-24). |
| `PaymentSettlementDisputed.cfg` | `RedeliveryNeverChanges` | A redelivered success takes a disputed payment back to succeeded, one the provider disputed or an operator marked so (`services/api/src/checkout-settlement.ts:27`). |
| `SupplierSettlementRace.cfg` | `CancelledWasNotSent` | A refund that read the row before the settlement claimed it cancels it by id while the money is sent (`supplier-settlement-run.ts:292`, against :245). |
| `SupplierSettlementBatch.cfg` | `EveryReadyIsSent` | The sweep's limit has no order: rows of suppliers that are not ready can fill every batch (`supplier-settlement-sweep.ts:73`, against :20). |
| `SubscriptionRenewalTwice.cfg` | `StartedOnce` | A retried checkout starts a second subscription (`services/api/src/checkout-routes.ts:648`, against `subscriptions.ts:227`). |
| `FileDocumentsReplay.cfg` | `ReplayMeansStored` | A retry is told *replayed* while the first request is under way, which then fails or dies (`services/api/src/quickdash-routes.ts:755`, against `idempotency.ts:24`). |
| `InvoicingBilled.cfg` | `BilledStaysInvoiced` | A billed entry is approved again and loses its invoice's status (`packages/modules/time-tracking/src/records.ts:423`, against `apps/quickdash/web/src/components/time-view.tsx:15`). |
| `AgentSpendOverage.cfg` | `OverageIsOneStep` | Two runs side by side overdraw the balance by more than the one step a comment allows (`packages/billing/src/ai-spend.ts:176`). |
| `AgentSpendCap.cfg` | `CapCoversPlanRuns` | Runs the plan pays for are not counted against the cap, which "applies to everyone" (`ai-spend.ts:97-99`). |

More properties the code does not keep. TLC finds each of them violated when it stands in
the named configuration in place of the properties there:

| In | Property | What it shows |
|---|---|---|
| `MutationLedger.cfg` | `ReplayIsFaithful` | A row whose body retention cleared is replayed as a success with an empty body (`packages/db/src/mutation-retention.ts:19`, against :22). |
| `Outbox.cfg`, one event without followers, one handler, three attempts | `LeaseIsAlwaysExclusive` | A failure seen after the lease lapsed rewrites `available_at` by id and ends another drain's lease (`outbox.ts:202`, against :55). |
| `WebhookDelivery.cfg`, two endpoints that do not exist yet and a limit of one | `EndpointsAreBounded` | Two creations at the limit both count before either inserts (`application.ts:236`). |
| `WebhookDeliveryLive.cfg` | `EveryDeliveryCloses` | A worker that dies, or is late, on the last attempt leaves the row pending with no attempts: it is never claimed again and never shown as exhausted (`webhooks.ts:244`). |
| `OrderStock.cfg` | `CancelledHoldsNothing` | A cancellation while the module is disabled leaves the hold for good (`inventory-bridge.ts:252`). |
| `OrderStock.cfg`, an order that names one item in two lines of one unit each, fulfilled while its refund's event is handled, and then handled again twice | `ReturnsAreBacked` without its premise of one line: `taken >= 0` | The restock reads what an item has taken before it locks the item, per line, and the lines come in no order: two deliveries that each reach another line first both return the one unit that was taken (`packages/modules/orders/src/inventory-bridge.ts:376-425`). |
| `OrderStock.cfg` | `HoldsCanBeReleased` | Once negative stock is no longer allowed, a movement that improves a negative balance is refused (`inventory.ts:115`). |
| `PaymentSettlement.cfg` | `RefusedMovedNothing` | A refund without an amount, or too large, is refused after the provider has paid it out (`payments-routes.ts:419`, against :398). |
| `PaymentSettlementPartial.cfg` | `LedgerNeverLies` | A refund is asked for while the workspace is in the other mode, or not connected: the provider is not called, nothing fails, and the ledger says that the whole payment went back (`packages/modules/payments/src/refund-provider.ts:71-93`, `payments-routes.ts:426`, against `refund-provider.ts:22-24` and `packages/modules/payments/src/connect.ts:280`). |
| `PaymentSettlement.cfg` | `DisputeToldOnce` | A redelivered dispute is recorded a second time (`checkout-settlement.ts:303`, against :309-310). |
| `SupplierSettlement.cfg` | `RestIsOwed` | A partial refund cancels the whole of an obligation that was not sent (`supplier-settlement-run.ts:313`). |
| `SupplierSettlement.cfg` | `ShortBalanceResolves` | A refusal that may be retried leaves the row `initiated`, and nothing sends it again (`packages/event-dispatch/src/supplier-settlement.ts:178`). |
| `SupplierSettlementRace.cfg` | `FailedWasNotMade` | A connection that breaks after the transfer was made is reported as final (`packages/modules/payments/src/supplier-transfers.ts:223-236`), so the row is `failed`, which nothing claims or reconciles (`supplier-settlement-run.ts:215`, against :209-211). |
| `SupplierSettlementBatch.cfg` | `EveryTransferIsFound` | The search for a transfer without its id looks at the account's newest hundred, and at whichever environment's account it finds: an older or misplaced one stays `initiated` for ever (`supplier-transfers.ts:300-309`, `packages/event-dispatch/src/supplier-reconciliation.ts:141`, against `supplier-transfers.ts:278`). |
| `SubscriptionRenewal.cfg` | `NeverEarly` | Two overlapping runs: the second opens the next period before it is due (`subscriptions.ts:459`, against `subscription-renewal.ts:22-25`). |
| `SubscriptionRenewal.cfg` | `StoppedStays` | A settlement that comes late makes a paused or cancelled subscription active again (`subscriptions.ts:533`). |
| `SubscriptionRenewal.cfg` | `ActiveComesDue` | ... and then it has no date, so it is never charged again. |
| `SubscriptionRenewal.cfg` | `CycleSettles` | A run that dies leaves its cycle pending for ever, though "the next hour retries" (`dispatcher.ts:127`). |
| `SubscriptionRenewal.cfg` | `FailedTookNothing` | A cycle is recorded as failed though its charge went through. |
| `FileDocuments.cfg` | `PurgedLeavesNothing` | An object written after its document was purged stays in the store without a row. |
| `FileDocuments.cfg`, `Limit = 2` | `OneDocumentPerKey` | A failure after publication releases the key, and the retry stores a second document. |
| `FileDocuments.cfg`, uploads u1 and u3 under `TwoKeys` | `WithinAllowance` | Two uploads at once both pass the storage gate. |
| `Invoicing.cfg` | `NeverAboveTotal` | A disputed payment leaves the sum while its refunds stay in it, so the guard lets too much in (`packages/modules/payments/src/payments.ts:292`, against the "single definition" of :264-280). |
| `Invoicing.cfg` | `PaidIsTerminal` | A recorded payment, even a pending one, moves an invoice that was marked paid by hand back to sent, though `status.ts` calls paid terminal. |

Read in the code beside the models, not checked: `failed` obligations are eligible but never
claimable, though the schema says they are safe to retry; the cleanup of public media asks
the store to delete from a provider named `public`, which the store refuses
(`storage-cleanup.ts:114`, `packages/storage/src/index.ts:559`), and putting a removed asset
back is filtered out before it starts (`products-services-routes.ts:465-470`); an invoice
from a discounted order fails its own schema; a failed model call's tokens are not recorded,
though `agent-routes.ts:24-26` says spend is recorded even when a run fails; nothing calls
auto-recharge or the expiry of credit; nothing consumes `storage.cleanup`.

## Not modelled

Inside the modelled components:

* *MutationLedger*: the command's own tables (a write is a write) and the content of the
  stored body; replay of a body that retention has cleared answers without it.
* *Outbox*: the dispatcher's `maxBatches` (a drain that stops early is one the schedule
  starts again), and what handlers do — except restock, fan-out and the supplier's two,
  which have models of their own, driven by repeated delivery.
* *WebhookDelivery*: URLs, subscriptions (constants), signatures and address checks, the
  metering of attempts, a second workspace (rows are independent but for the batch).
* *OrderStock*: prices, discounts, draft edits and order numbers; creation and deletion of
  items; lines whose product is not stocked (they move nothing). Database deadlocks are
  rollbacks (`RollBack`), as Postgres breaks them.
* *PaymentSettlement*: PayPal capture and the workspace its webhook is resolved for, a
  workspace whose account is disconnected while events are under way (they are dropped),
  charges without a reference of the provider (`SkipProvider` stands for their refunds), the
  connecting of accounts, and the reservation of
  stock, which appears as the orders (`Short`) it fails for; `OrderStock` models the stock
  itself. Payments of invoices are in `Invoicing`.
* *SupplierSettlement*: how a share is computed and held back at checkout, messages to the
  supplier, the `pending` and `discrepancy` statuses (nothing writes them), amounts other
  than whole obligations and the portions a refund reverses.
* *SubscriptionRenewal*: plans and prices, the order a cycle places (`OrderStock` and
  `PaymentSettlement` from there on), e-mails.
* *FileDocuments*: folders and attachments, quarantine and second versions (no route
  reaches them), public media, how the storage meter is shown.
* *Invoicing*: running timers and their overlap, entries that are not billable, edits of an
  entry's description, lines copied from bookings and quotes, invoice numbers.
* *AgentSpend*: automatic recharge, credit that expires, tools and tokens (a turn has a
  cost), a change of plan or of a limit while a run is under way.

Postgres is external: atomic commit, rollback on failure, row locks, unique and foreign
keys, `SKIP LOCKED` and READ COMMITTED are taken as documented. So are the payment
provider, the suppliers' transfers, the object store, the model provider and the receivers
of webhooks, modelled from how the code uses them and marked external in the map.

Planned and not yet there: metering, gauges and usage billing (read, not checked: the label
of a period is the month of the run and not of the usage; a rerun after more gauge usage
makes a second item; an account whose billing fails half way keeps what was billed and is
not retried); referrals; bookings, quotes and timers; the module resolver; pricing;
invitations.

Whole components left out for good, and why: plans, platform subscriptions and storage
packs (absolute upserts of what the provider sends); reporting, search and analytics
(queries); realtime, jobs, cache, e-mail and notifications (I/O; the outbox delivers to
them); projects, clients, content and products (single-transaction records under the
unit of work); supplier handoff and public media (one guarded statement each); contracts
and e-signing (a small lifecycle under row locks; its tokens are cryptography); customer
sessions (single guarded statements); webhook signing; the SDK, CLI, API contracts,
configuration and tests. The frontends are by far the largest part of the repository —
components, routes, styles and generated API descriptions — and keep no state of the
business: whatever they do reaches the server as the requests modelled here. That is why
the map, measured in lines, covers a small share of the repository.

## Plan

Done, in the order of what they put at stake: `MutationLedger` with `OnceCommand`,
`Outbox`, `WebhookDelivery`, `OrderStock`, `PaymentSettlement`, `SupplierSettlement`,
`SubscriptionRenewal`, `FileDocuments`, `Invoicing`, `AgentSpend`. Proofs accompany all of
them: every invariant and every action property that a run checks is stated by a theorem.

The queues have a contract of their own, `AtLeastOnce`, which `Outbox` and `WebhookDelivery`
are both shown to implement.

Next:

1. Metering and usage billing: counters, gauges, the monthly run and its rerun, the check
   of a limit and the recording of usage in two statements.
2. Referrals: earned on payment, reversed on refund, under redelivery.
3. Single-resource races — bookings, quotes, timers, invitations — as instances of one
   module of competing takers.
4. The module resolver (closure under dependencies) and pricing (discounts and limits) as
   functions, against a reference over bounded inputs.

Compositions worth having: `AtLeastOnce` as the specification that drives `OrderStock`'s
restock, `WebhookDelivery`'s fan-out and `SupplierSettlement`'s handlers; and `PaymentSettlement`
with `OrderStock` for a charge whose stock cannot be reserved.

Runs stay few: one that passes per module, sized to finish within two minutes on two
workers. A new module brings its safety and liveness in one run where the state space
allows it, and takes the place of the least telling existing one.

