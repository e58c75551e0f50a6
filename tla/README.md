# PayGuard in TLA+

PayGuard is a payment gateway: merchants create payments, capture and refund them over an
HTTP API; a payment provider answers, does not answer, or answers later by webhook; a worker
dispatches an outbox; reconciliation asks the provider about payments whose result was lost.
All state that matters is in PostgreSQL, under READ COMMITTED, and the correctness of the
system rests on row locks, unique constraints and on which steps share a transaction.

This directory models that machinery, checks it with TLC on small instances and proves the
main safety properties with TLAPS for every number of sessions and every amount.

## The system's parts

| Part | State it owns | Operations | Module |
|---|---|---|---|
| Payment state machine (`packages/domain/state_machine.py`) | none: a table | `is_valid_payment_transition` | `StateMachine` |
| Payments (`packages/payments/service.py`) | `payment_intents`, `payment_attempts`, `provider_transactions`, `refunds`, `payment_events` | create, capture, refund | `PaymentLifecycle` |
| Payment reads (same file) | none | list, detail, dashboard summary | `MerchantReads` |
| Ledger (`packages/ledger`) | `ledger_entries` | `record_payment_settled`, `record_refund_settled`; the audit | `PaymentLifecycle`, `MerchantReads` |
| Webhooks (`packages/webhooks`, `apps/api/routers/webhooks.py`) | `webhook_events` | verify, receive, process | `WebhookDelivery`, `Outbox`, `PaymentLifecycle` |
| Reconciliation (`packages/reconciliation/service.py`) | `reconciliation_reports` | find, reconcile, report | `PaymentLifecycle` |
| Providers (`packages/providers`) | what the provider recorded | authorize, capture, refund, status | `PaymentLifecycle` |
| Idempotency keys (`packages/idempotency/service.py`) | `idempotency_keys` | claim, reclaim, complete, fail | `Idempotency`, `OneAnswer` |
| Outbox worker (`packages/outbox`) | `outbox_events` | claim one, dispatch, back off, dead-letter, requeue | `Outbox` |
| Risk engine (`packages/risk/service.py`) | `audit_logs` | six signals, score, level | `Screening` |
| Rate limiter (`packages/ratelimit/service.py`) | a bucket in Redis | `check_rate_limit` | `RateLimiter`, `TokenBucket` |
| Merchants (`packages/merchants`, `scripts/rotate_api_key.py`, `apps/api/dependencies.py`) | `merchants` | rotate, authenticate | `MerchantKeys`, `ApiGate` |
| Schemas and error mapping, observability, frontend, migrations, infrastructure, other scripts | none the services read | | not modelled |

How they interact: an API request finds its merchant by its key, takes a token from the merchant's
bucket, claims its idempotency key, calls one payments operation and completes the key in the
operation's last transaction. A creation is screened by the risk engine before the provider is asked. Payments call the provider, write
the ledger and append to the outbox in the same transaction as the status. The provider's
webhook is stored with an outbox event; a worker applies it through the same `lock_payment` /
`apply_transition` pair as the API. Reconciliation uses that pair too.

What makes it hard:

- a request is several transactions with a provider call between them, and can die in between;
- captures hold the row lock across the provider call, refunds do not;
- sessions are made with `expire_on_commit=False` and `lock_payment` does not ask for
  `populate_existing`, so a session that has loaded the payment before decides on the status
  it loaded, not on the row it has just locked;
- an answer can be lost, and the money may have moved nevertheless;
- webhooks arrive at any time, before or after the synchronous answer;
- the payment's status is an aggregate over refunds that start and finish in any order;
- whatever reads several rows, a page, an audit or the risk engine, does so in several statements,
  and each of them sees another moment;
- API servers bring their own clocks to a bucket that Redis expires by its own.

## Modules

- `StateMachine`: statuses, actors and the transition table, as sets.
- `Amounts`: `SumAmounts(amount, rows)`, SQL's `coalesce(sum(amount_minor), 0)`. It counts
  the pairs of a row and one of its minor units, which is a definition without recursion
  that a proof can work with.
- `PaymentLifecycle`: one payment and every session that works on it.
- `MCPaymentLifecycle`: the instance for TLC, with the symmetry of captures, refunds,
  webhooks and passes. The liveness runs do not use it.
- `Idempotency`: one idempotency key and the requests made under it; `OneAnswer` is what the
  key promises, in two actions.
- `Outbox`: the outbox rows, the workers and the operators who requeue; `WebhookDelivery` puts the
  webhook endpoint in front of it.
- `Clock`: the time that servers, Redis and operators read, where a module needs one.
- `RateLimiter`: the bucket of one merchant; `TokenBucket` is what it promises. `MerchantKeys`: the
  merchant's keys and runs of the rotation script. `ApiGate` composes the two.
- `Screening`: creations of one merchant as the risk engine sees them.
- `MerchantReads`: payments of one merchant, and the pages and the audit that read them.
- `MCIdempotency`, `MCWebhookDelivery`, `MCApiGate`, `MCScreening`, `MCMerchantReads`: instances for
  TLC, with the symmetry of what is interchangeable.
- `AmountsProofs`, `PaymentLifecycleProofs`, `LifecycleExactProofs`, `IdempotencyProofs`,
  `OutboxProofs`, `ApiGateProofs`, `ScreeningProofs`, `MerchantReadsProofs`: theorems.

The state machines meet at narrow points. `PaymentLifecycle` takes from `Idempotency` that a
request which runs has claimed its key, and from `Outbox` that a webhook event is handled by one
worker at a time and may be handled again after a crash; the latter is what `OneWorker` and
`EffectOnce` say. `CreateBlocked` takes any verdict of the risk engine, whose counts are `Screening`'s
subject. `MerchantReads` repeats, payment by payment, which rows each commit of `PaymentLifecycle`
writes together, and leaves out what no reader sees.

### PaymentLifecycle

State. `status`, `event`, `ptx` (a provider transaction backs a successful attempt), `linked`
(the creation key's row names this payment), `refund`, `amount`, `settlements` and
`refundEntries` are database rows as committed. `lock` is the session that holds the row lock
across a provider call: only captures do. `truth`, `collected` and `paid` are the
provider's: what it recorded for the creation key, the captures it collected, and the refunds it paid. Each session has a control point `pc`,
the status `seen` of the payment object it holds, and its provider's `answer`.

Actions. One action is what a session does between two points where another can interleave.
A transaction that takes the row lock and makes no provider call is one action guarded by
`Unlocked`. `create_payment` is `CreateProcessing`, `CreateBlocked` (the risk engine says
BLOCK), `ProviderAuthorize`, `CreateRecord` and `CreateAbandon`; `capture_payment` is
`CaptureReplay`, `CaptureReject`, `CaptureStart`, `CaptureFinish`, `CaptureAbandon`;
`refund_payment` is `RefundReject`, `RefundReserve`, `ProviderRefund`, `RefundSettle`,
`RefundAbandon`; webhooks are `receive_webhook`, `WebhookLookup`, `WebhookApply`,
`WebhookRetry`; `reconcile_payment` is `ReconcileCheck`, `ProviderStatus`,
`ReconcileResolve` or `ReconcileConflict`, and `write_report`, reached from a pass
(`find_payments_needing_reconciliation`) or a direct call (`ReconcileCall`). The `...Abandon`
actions are exceptions and crashes; what was committed before stays.

What is abstracted. Every request has its own idempotency key and claims it successfully; a
retry under a new key is another element of `Captures` or `Refunds`. The creation key is not
reclaimed while the payment lives. `payment_events` is represented by its latest row, the
outbox only by the redelivery of webhook events. A ledger pair is a count, since both entries
are always written together. A capture or a refund that finds no payment is not modelled.

### Idempotency

State. `key` is the committed row, whose `id` is the request that inserted it (`key_row_id(r)` is the one `r`
holds on to), `writer` and `draft` the uncommitted write of it, since the
insert and the update of a claim make others wait. `payment` is the payment's row lock, which
matters because refunds take both. `now[r]` is the time the claim of `r` began, `memory[r]` the row
object in its session: the ORM applies the reclaiming UPDATE to that object even when the database
matched no row, and a later SELECT does not refresh it.

Actions. `claim_idempotency_key` is `Begin`, `Insert`, the four `Select...` outcomes and `_reclaim`;
a reclaim that matches no row goes back to `Insert`. The operation under the claim is `Start` (the
first commit of a creation or a refund), `Refuse`, `Relock` and `complete_idempotency_key`, or
`CaptureComplete`, since a capture does everything in one transaction. `Raise` (an exception anywhere after
the claim, also before the first commit, where it rolls the claim back), `DeadlockAbort` and
`Refuse` lead to `_fail_claim_and_raise`: `FailRead` by the row's id, which finds nothing after the rollback
of an insert, then `fail_idempotency_key`. What the operation
does to the payment is left to `PaymentLifecycle`; here it is a member of `executed`.

`Timely` restricts the clock: no request is active for `StaleAfter`, or it has crashed. It is what
the stale limit assumes of its holders.

`Mismarked` is the one way in which timely requests still get in each other's way: a request whose own claim
was rolled back finds the row PENDING, because another request has claimed it since, and marks it FAILED. It
is what `key_timely_refunds` shows. The properties of timely requests are stated up to that step: in
`OneAnswer`, which specifies the promise of a key, it is `Break`, after which nothing is promised.

### Outbox

State. The columns of `outbox_events`, the webhook events that are still RECEIVED, how often each
webhook's effect was committed, the row each worker has locked, what each requeue has read, a clock.

Actions. `Enqueue` is the producer's commit; `_claim_one` takes the row that has been due for
longest among those nobody has locked; `ProcessNext` and `DispatchFails` are the two ends of
`process_next`, each one commit; `WorkerCrash` rolls back. `requeue_dead_letter` is `RequeueRead` and
`RequeueWrite`, because it takes no lock. The dispatchers raise before they write, so a failed
dispatch has no effect. An error of the database inside a dispatch is not counted as an attempt: it
aborts the transaction and ends the worker's loop, which is `WorkerCrash`.

`WebhookDelivery` adds the deliveries of an event. `verify_webhook_signature` refuses one before the
database is asked (whether signature, timestamp and body are right is not the model's to say);
`receive_webhook` is the INSERT ... ON CONFLICT DO NOTHING, which waits while another delivery of the
same event is between its insert and its commit (`InFlight`); `Acknowledge` is the commit of the event
with its outbox row, and `DeliveryCrash` the rollback.

### ApiGate

State. `RateLimiter` has `tokens`, `last_refill` and `expires_at` of the bucket, and an observer's count:
requests `allowed` since the first one of a window that may be opened at any time (`OpenWindow`), and by
how much `last_refill` was set back meanwhile. `MerchantKeys` has the key columns of the merchant's row,
a control point for each run of the script and what it has loaded, and the last key that was printed.
`ApiGate` adds how far each request has come.

Actions. `check_rate_limit(now)` is the Lua script, one step in Redis, for a `now` that the caller
read within `Skew` of Redis's time. An expired bucket is one whose values are no longer read. A run of
the script is `RotateLoad`, `rotate_api_key` with its commit, `RotatePrint`, and `RotateCrash`
anywhere in between. A request is `get_current_merchant`, then `enforce_rate_limit`.

Tokens are real numbers in the script; in the model a token is worth `Token` units and a tick buys
`Refill` whole units, so every rational rate has an instance. Requests without the header and reads,
which take no token, add no behaviour.

### Screening

State. Which intents are committed and with which `created_at` (the start of the session's transaction,
that is, when the merchant was looked up), the `now` of each assessment, its signals, the audit rows, the
payments the provider was asked for, when the transaction of each attempt began, and that time of the
declined attempts that are committed. `known` is history: the declines an assessment could see when it began.

Actions. `Begin`, `CreateIntent`, the two counts in statements of their own (`_velocity_signal`,
`_repeated_failures_signal` with the commit of the audit row), then `Block`, or `ProviderAuthorize`,
`BeginAttempt` (`lock_payment`, where the transaction and the attempt's `created_at` begin) and `RecordAttempt`
(its commit); `Abandon` anywhere. So a decline can appear with a time before that of an assessment which
did not see it, and `FailuresNoticed` speaks of what was committed. The six weights, thresholds and levels are those of the source.

### MerchantReads

State. Per payment its `created_at`, status, the statuses its events name, the outcomes of its attempts,
its refund row and its ledger entries; one reader with the results of the statements it has run.

Actions. The writers are the commits of `create_payment`, `capture_payment`, `reconcile_payment`,
`_handle_payment_outcome` and `refund_payment`, each with all rows it writes. Sessions that decide on an
older status are here too: a webhook's worker writes over whatever the row says, and so does a refund that
settles, whose session has held REFUND_PENDING since the reservation. `Begin` is the start of the
transaction that will create a payment: `created_at` is its time, and the list is ordered by it. Each page is the sequence of its
statements (`get_payment_detail`, `get_dashboard_summary`, `global_ledger_balance`), and `Execute` runs the
next one on what is then committed. `Count` and `list_payments` are the two statements of a page of the
list, for a client that goes on while there is more; `RowNumber` is a row's place in the order, and `torn`
records that the total and the rows of the last page saw different lists.

## Runs

Of `MCPaymentLifecycle`:

| Run | Instance | Shows |
|---|---|---|
| `lifecycle` | 2 captures, 2 passes, 2 refunds, amount 2, no webhooks | one settlement and legal transitions although passes decide on stale sessions; balance, refund ledger, aggregate status, creation key of UNKNOWN payments; events form a chain but for what a stale pass repeats |
| `webhooks` | 2 captures, 1 webhook, 1 pass, 2 refunds | what survives webhooks that are applied from stale sessions: REFUNDED in full, refunds that are backed; one collection and bounded payouts at the provider but for abandoned captures and lost answers |
| `liveness` | 1 capture, 1 pass, 2 refunds, `FairSpec` | creations are decided, lost authorizations resolved, refunds settle unless one is abandoned |

Of `MCIdempotency`:

| Run | Instance | Shows |
|---|---|---|
| `key_any_operation` | 3 requests of every operation, slow holders, `FairSpec` | nothing executes or answers under another request's key; a capture takes effect once; abandoned claims and deadlocks do not hold up the key |
| `key_timely` | 4 creations or refunds, timely | one holder at a time and the key refines `OneAnswer`, until a request marks the claim of another one |

Of the others:

| Run | Instance | Shows |
|---|---|---|
| `outbox` (`MCWebhookDelivery`) | 2 rows, 2 deliveries of one webhook, 2 workers, 2 requeues, 3 attempts, `FairSpec` | an acknowledged webhook is stored; one worker per row, one effect per webhook and bounded retries although requeues race; nothing comes back by itself; every row is processed or given up |
| `api_gate` (`MCApiGate`) | 3 requests, 2 rotations, skew 1, capacity 2 | the limit of any window; the expiring bucket refines one that is never forgotten; no outage by rotation; retired keys stay retired |
| `screening` (`MCScreening`) | 3 creations, bursts of 3, 2 declines | bursts and runs of declines are noticed; nothing reaches the provider unscreened |
| `merchant_reads` (`MCMerchantReads`) | 2 payments with a refund each, pages of 1 | detail page, landing page, audit and list under concurrent commits |

Bounds. Two captures are the second that waits for the first; two passes overlap; two
refunds over an amount of two units can be rejected, fill the balance in parts, and finish in an order
other than the one they started in (the proofs cover any number). One webhook is
enough for a stale application; a second one adds no kind of writer that a capture, a pass
and a refund do not already stand for. A key needs a holder that is abandoned, two requests that
reclaim it and, for a mismark to do harm (`key_timely`, `key_timely_refunds`), one that comes after: three or
four requests. Requests for different operations differ in their fingerprints as those with different bodies do, so
one body is enough. A stale
limit of one or two ticks tells fresh claims from stale ones, and the clock runs as long as a claim is ageing. Three attempts
are a first, a middle and a last one; a delay of up to one tick, less than the second backoff asks for, lets rows overtake each other and makes the
cap bite.
`MAX_ATTEMPTS` is 8 in the code, where the cap of 300 seconds is never reached: the largest delay is
64 seconds. Two deliveries of one event are one that is storing it and one that meets it. A
clock that runs to 5 passes the expiry of a bucket with a time to live of 4, and an overlap of 2; a
third request finds a bucket of two tokens empty. In `screening` every creation can be of a burst
or declined, and the window of one tick is left within the clock's two. In `merchant_reads`
`MaxEntries` stops webhooks once the ledger holds two pairs, which lets a payment be settled twice or
both of them once; one page per payment makes offsets move.

Fairness. A request that runs keeps running until it ends or is abandoned, hence weak
fairness for its steps, and none for the `Abandon` actions. Nothing in the repository
schedules reconciliation: that passes are triggered again, that not every one of them
crashes (strong fairness of `ReconcileCheck`), and that a provider which is asked again and
again does answer with what it recorded (strong fairness of `TruthfulStatus` and
`DefiniteResolve`) are assumptions about operation that `liveness` and `capture_unknown` make
explicit.

For keys: a request that runs keeps running, PostgreSQL breaks deadlocks, time passes, and a client
that was told REQUEST_IN_PROGRESS asks again. For the outbox: somebody polls (weak fairness of a
claim by any worker), and a worker which is restarted each time it dies does not die in every
dispatch (strong fairness of its two ends). Nobody is obliged to requeue.

Deadlock checking is off for keys, the outbox, the gate, screening and a lifecycle without passes: requests end, rows are done
with, the bounded clock stops, and then nothing is left to do. A pass and a reader can always start again.

### Where the code and its documentation disagree

Each of these runs checks one statement of a document or a comment and finds it violated.

| Run | Statement | What the model does |
|---|---|---|
| `webhook_capture_race` | a webhook that loses the race "observes already-applied state and no-ops" | it loaded the payment as PROCESSING, waits for the capture, still holds PROCESSING, and settles the ledger again |
| `capture_unknown` | a lost capture answer is re-discovered by reconciliation | inserting the provider transaction violates its unique constraint in every pass |
| `key_timely_refunds` | retries produce "exactly one payment operation" | a refund that fails marks the key FAILED although another request holds it by then, and a third reclaims it; a creation whose first commit raises does the same |

The model has further behaviours that contradict a document. TLC exhibited each of them while the
model was written; no run is kept for them:

- the stale webhook of `webhook_capture_race` also takes a payment that a capture has just made
  FAILED to SUCCEEDED (`docs/architecture.md:313` forbids it), and of two passes that overlap the
  second resolves again instead of reporting MATCHED (`docs/reconciliation.md:82`): `lock_payment` does
  not refresh the object either session holds;
- a refund whose answer was lost is booked as FAILED although the provider may have paid it
  (`RefundSettle`; `docs/architecture.md:310`);
- a creation or refund slower than the stale limit and the request that reclaims its key both
  complete, each with its own response (`docs/architecture.md:171`);
- two refunds under one key can deadlock, since they take key and payment in one order when they
  start and in the other when they end (`Deadlocked`; `docs/adr/ADR-002-postgresql-locking-strategy.md:55`);
- a success webhook during a refund takes REFUND_PENDING to SUCCEEDED, which is valid for it, and
  settles the ledger again; `docs/ledger.md:47` has webhooks settle only on PROCESSING -> SUCCEEDED;
- a refund that dies after its reservation stays PENDING, nothing returns to it, and the payment stays
  REFUND_PENDING (`docs/refunds.md:73`; `RefundsSettleUnlessAbandoned` is what remains true);
- the audit's two sums are two READ COMMITTED statements, and a settlement between them makes a balanced
  ledger look unbalanced; `docs/adr/ADR-007-ledger-design.md:63` has it run SERIALIZABLE
  (`AuditErrsOneWay` is what remains true);
- the total and the page of the list are two statements, so a payment committed between them can
  end a walk one payment short; `payments/service.py:380` speaks of no "second round trip that could
  race against the first" (`WalkComplete` is what remains true);
- of two requeues that have read the same dead letter the second resets a row that has been
  processed (`docs/outbox.md:82`).

## Proofs

Proved with TLAPS for every set of sessions and every amount:

- `TypeCorrect`: `TypeOK` is inductive as it stands.
- `BalanceNeverExceeded`, `RefundLedgerExact`, `RefundedMeansInFull`, `PayoutsBounded`: from `RefundInv`, which adds to
  the three properties that a refund's row is PENDING between its reservation and its
  settlement and NONE before, that amounts of rows are among the requested ones, and that a
  session whose provider said SUCCEEDED has been paid. REFUNDED needs no assumption on
  sessions: it is written by a refund that has just summed the rows, rows never lose
  SUCCEEDED, and the balance bounds the sum from above. No session but a refund's touches
  refund rows (`OthersLeaveRefunds`).
- `RefundsAreBacked`: from `SettlementInv`, where a status that says the money was collected, in the
  row or in any session's stale copy, implies a settlement.
- `UnknownCanBeAsked`: from `LinkInv`. The key is linked in the transaction that records the provider's
  answer, so it is linked before a capture or a pass can be on its way to make the payment UNKNOWN, and no
  webhook asks for UNKNOWN.
- `CollectedOnce`: from `CollectInv`: the capture that runs holds the lock and the row is PROCESSING; one that
  collected and was not abandoned has taken the payment out of PROCESSING; and once the creation key is
  linked nothing takes it back there.
- `SettledOnceWithoutWebhooks`, `StatusIsAggregate`, `OnlyLegalTransitions` (`LifecycleExactProofs`): with
  `Webhooks = {}`, `ExactInv` relates `settlements` and the refunds to the row and says of each kind of
  session which copies it can hold: a capture that holds PROCESSING holds the lock and the row is
  PROCESSING; a pass's copy can be stale, but then `ptx`, or a definite answer of the provider that is
  the same for all passes, decides that it does not settle again. The hypothesis is needed: with webhooks
  `webhook_capture_race` violates the first of the three.

- `SettlementsBounded`, with webhooks: from `DirectInv`. A capture settles while the row is PROCESSING and a
  provider transaction is on record, a pass only while none is, and it records one; once either has settled
  the row never returns to PROCESSING. So all settlements but one are webhooks', which is the extent of
  what `webhook_capture_race` shows.
- `ChainUpToStalePasses` (`EventsFormChain`) and `EventsChainWithOnePass`, with `Webhooks = {}`. A creation, a capture and a
  refund write their events from a status that `ExactInv` says the row still has. A pass writes from the UNKNOWN it
  loaded. Where several overlap the copy can be stale, and then the event stands beside the chain and the
  row's status does not change; with one reconciliation task, whose passes follow each other, nobody else takes the
  payment out of UNKNOWN (`FreshPass`), and the chain is unbroken. With webhooks neither holds.

The argument rests on lemmas about `SumAmounts` (`AmountsProofs`): it is a natural number,
monotone in the rows, unchanged where amounts are, grows by a row's amount when the row is added, is at least
the amount of each of its rows, and is a product where all amounts are the same.

The assumptions are those of the module: positive amounts (`schemas.py` rejects others), a
finite set of refunds, and disjoint sets of sessions.

For keys (`IdempotencyProofs`), for any requests, bodies and stale limit:

- `KeyTypeCorrect`, `KeysNeverMixed`, `CapturesOnce`: from `KeyInv`. `RowInv` says what the columns of
  the row mean together, `WriterInv` who may have an uncommitted write of it and which, `RequestInv`
  what each control point of a request implies, `EffectInv` that whatever has executed has the
  fingerprint of the row. Captures need that a capture's claim is never committed as PENDING.
- `TimelyRequestsAlone` and `TimelyRequestsKeepPromise`, with `Timely`, for any operations: `OwnerInv` says
  that the holder owns the row, that is, that the row's `locked_at` is the holder's, until it is answered or has
  marked the row; `TimeInv` that a claim with an active holder is not stale. Together they make every reclaim
  one of an abandoned claim, and each step a step of `OneAnswer` or a stutter. `OwnerInv` is inductive up to
  `Mismarked`, which stays once it is true (`MismarkedStays`). Both restrictions are needed: without
  `Timely` a slow holder's key is reclaimed, and after a mismark `key_timely_refunds` violates the conclusion.

For the outbox (`OutboxProofs`), for any rows, workers, requeues and limits:

- `OutboxTypeCorrect`, `OneWorkerPerRow`, `RetriesAreBounded`, `WebhookEffectOnce`, `RequeuesOnly`: from
  `OutboxInv`, which adds that a row a worker has locked stays PENDING, that a webhook event is RECEIVED
  until its effect is committed, and that a requeue has read a row that exists.
- `SequentialRequeuesAreSafe`, for behaviours in which no two requeues of one row are between read and write at
  once (`NoOverlap`): PROCESSED is final, because what a requeue has read is still a dead letter when it
  writes (`StillDead`).

- `DeliveryImplementsOutbox`: the outbox behind the endpoint takes only steps of `Outbox`, so all of
  the above holds for the composition. `AcknowledgedIsStored`: rows never disappear (`RowsStay`), and an
  answer follows a commit or a committed row.

For the gate (`ApiGateProofs`), for any capacity, rate, margin, skew, overlap and runs:

- `LimitKept`: from `WindowInv`, which adds the tokens that are left to those that were taken.
- `ExpiryUnobservable`: the bucket refines `TokenBucket`. `ExpiryInv` says that when Redis drops a bucket, the
  clock of every caller has passed the time of a full refill, so a forgotten bucket and a remembered one are
  both full. `MarginAssumption` is needed: callers off by more than half of the margin of 60 seconds
  can tell the difference.
- `GateTypeCorrect`; `RotationWithoutOutage` and `RetiredKeysStayRetired`: from `SerialInv`, which says of runs
  that do not overlap or die that what the one under way has loaded is current, and that the key given
  last is current, or previous until the new one is printed.

For screening (`ScreeningProofs`), for any requests, window and thresholds:

- `ScreeningTypeCorrect`, `EveryBurstNoticed`, `EveryFailureRunNoticed`, `AskedOnlyAfterScreening`: from
  `ScreeningInv`. `BurstInv` says of the requests that have been through the first count what `BurstNoticed`
  says of those whose assessment is on record: the last of a burst to count sees the rows of all others,
  which were committed before they counted. `StageInv` ties each control point to the rows it implies, and
  says that what an assessment knew of is still on record, with its time, at the second count.

The balance beside webhooks (`BalanceNeverExceeded`) and the types of `ApiGate` and `Screening` are proved for
all constants and are not checked by a run of their own.

For reads (`MerchantReadsProofs`), for any finite set of payments, any amount, page size and `MaxEntries`:

- `ReadsTypeCorrect`, `DetailAlwaysExplained`, `SummaryAlwaysCovers`, `AuditAlwaysErrsOneWay`, `WalkAlwaysComplete`: from
  `ReadsInv`, the conjunction of `DbInv` and `PageInv`. `DbInv` is about what is committed: `RowInv` says what
  the rows of one payment imply of each other (a status of a collected payment, a refund row or a REFUND_PENDING event comes
  with a successful attempt and a settlement; REFUNDED with a refund in full; a refund that succeeded
  with exactly one credit of its amount), `StampInv` that no two payments have the same `created_at`, and
  `LedgerInv` that entries come in pairs of equal amounts, so that the sums of the two sides agree. `PageInv`
  says of a page that is half read that what it has shown is still explained by the rows it has yet to read:
  `DetailInv` statement by statement, `SummaryInv` that at least as many refunds in full are on record as were
  counted, `AuditInv` that the credits have reached the debits it added, and `WalkInv` that what the walk has
  yet to show is below the offset it has reached.
- The step between the two is `Grows` (`HistoryAppendOnly`): no commit takes back an event, an attempt, a ledger
  entry, a visible row or its time, or a refund that succeeded. Each commit is one of five kinds
  (`WritersWrite`: a change of status alone, a settlement, a reservation, a refund that succeeds, one that
  fails), each kind keeps `DbInv` and `Grows`, and `PageInv` survives any step that does (`WriterKeepsPage`).
  It is the order of the statements that `PageInv` needs: it is no invariant of a page that reads its
  ledger, its totals or its credits first.
- For the walk, a creation that commits moves rows down the list, never up, so the rows between the offset and
  a payment not yet shown cannot be skipped; on the last page the total, unless it is torn, says that no
  row is left below.

Only model-checked: liveness, which is outside what TLAPS's backends do (`CreationIsDecided`,
`LostAuthorizationIsResolved`, `RefundsSettleUnlessAbandoned`, `Served`, `Handled`). Every other property of a
passing run is a theorem, under the hypotheses given above.

## Not modelled

- A reconciliation pass over several payments. Each payment has the state of `PaymentLifecycle`, and two of
  them are out of TLC's reach. What it would show is known: the exception of `ReconcileConflict` ends
  the pass, and the payments after it wait for a pass that does not meet it.
- HMAC, SHA-256 and the parsing of headers and bodies: outcomes are chosen freely, or, for hashes, injective.
- The risk engine's matching of addresses with prefixes, a pure function of a string.
- The list's filter by status. With it rows leave the list while it is walked, and no completeness is
  claimed by any document.
- `get_refund` and `get_payment` on their own: one statement each.
- HTTP routing, schemas and error mapping, metrics, logs and traces, the frontend, migrations,
  infrastructure and the demo, seed and load scripts. They hold no state the services read.
