# Riverside OS: TLA+ models, checks and proofs

Riverside OS runs a formalwear store: a point of sale with registers and card
readers, orders, weddings, alterations, inventory, refunds and accounting. A
Rust server (`server/src`) keeps everything in PostgreSQL, uses Redis for a job
queue and a cache when one is configured, and serves a React client (`client/`)
in a Tauri shell. This directory holds models of the parts of the server where
several actors write the same rows without waiting for each other, what TLC
checks of them on small instances, and what TLAPS proves of them in general.

    tlc -workers 2 -config MCOutbox.cfg MCOutbox      # a run
    tlapm OutboxProofs.tla                            # a module of proofs

`PROJECT.json` lists the components, the runs with the properties of each, the
source lines every definition stands for, the hazards the properties are aimed
at, what was found, and the theorems.

Contents: 1 the system, 2 the modules, 3 the runs, 4 the proofs, 5 what was
found, 6 what is not modelled, 7 the plan.

## 1. The system

Paths are relative to `src/server/src` unless they start with `client/`.

| part | state | operations | what makes it hard |
| --- | --- | --- | --- |
| Checkout `logic/transaction_checkout.rs` | transactions, lines, payments, allocations | `execute_checkout` in one database transaction | repeated requests, offline replay, card approvals arriving meanwhile |
| Operational outbox `logic/operational_outbox.rs` | `operational_outbox`, one row per checkout | enqueue in the checkout's transaction, claim, nine follow-up steps, finish, retry, cleanup | leases nobody renews, crashes between steps, updates by id |
| Card payments `api/payments.rs`, `api/webhooks.rs`, `logic/helcim.rs` | `payment_provider_attempts` | start a purchase, poll, release, webhooks, attach to a sale | four writers per attempt, an outside reader and customer, lost and late messages |
| Helcim event ledger `api/webhooks.rs` | `helcim_event_log` | claim, process, fail, ignore, replay | redelivery while the first delivery is at work |
| Redis job queue `jobs/` | two lists, a dead letter list, a record per job | enqueue, dequeue, recover, complete, fail | several commands per move, no owner of a job |
| Distributed lock, rate limit `cache/redis_client.rs`, `middleware/rate_limit.rs` | a key with a token and a TTL; counters | acquire, extend, release; count | expiry under the holder |
| Recovery jobs and offline queue `api/recovery.rs`, `client/src/lib/offlineQueue.ts`, `client/src/lib/serverRecovery.ts` | queued checkouts in the browser, mirrored on the server | flush, mirror, adopt, replay, resolve | the same sale reaching the server by three ways, answers that come late |
| Register sessions `api/sessions.rs` | sessions, lanes, cash adjustments | open, attach, shift, reconcile, close | closing while sales, mirrors and replays are under way |
| Refunds, returns, exchanges `api/transactions.rs`, `logic/transaction_returns.rs` | refund queue, payments, returned lines | refund, return, exchange, void | a card refund gives up its locks while Helcim is asked; refunds that time out |
| Stored value `logic/gift_card_ops.rs`, `logic/store_credit.rs`, `logic/customer_open_deposit.rs` | balances and ledgers | load, redeem, refund | balance and ledger staying equal |
| Inventory and fulfilment `logic/physical_inventory.rs`, `logic/transaction_fulfillment.rs`, `api/purchase_orders.rs` | stock on hand, reserved and layaway stock | sale, pickup, receipt, count, swap | absolute stock written by a count; received units reserved for any order of the variant |
| Order lifecycle, parked sales, online store | order line states; carts | transitions; park, recall; web checkout | order of legal steps |
| QuickBooks journal `logic/qbo_journal.rs`, `api/qbo.rs`, `jobs/qbo_sync.rs` | `qbo_sync_logs`, one or more rows per business date | propose, refresh, approve, revert, post, retry, void | a posting whose answer is lost; refreshes of a row being approved |
| Counterpoint import | staging batches | import | restarts in mid-batch |
| Notifications, weddings, messaging, staff, search, reports, assistant, metrics, backups | records | mostly single writes or reads | little of their own |

How they interact. A checkout commits its transaction and its outbox row
together; an outbox worker then calls the notification, task, loyalty and
wedding modules and posts the finalized webhook. A card purchase is dispatched
before the checkout exists, is settled by the provider's webhooks (each taken
once, thanks to the event ledger), by polls and by staff, and the checkout
refuses to complete while an attempt of its `checkout_client_id` is open or
approved but not attached. A checkout whose answer does not come is kept by the
browser under the same `checkout_client_id`, mirrored to the server as a
recovery job, and repeated by the register or by a Manager; the Z-close of the
till decides whether such a sale is in its report or gets evidence of its own.
Checkouts, releases, returns, receipts and counts meet in the row of a variant.
A refund asks Helcim between two database transactions. Z-closes propose the
day's journal for QuickBooks. The job queue is fed by the image generation
webhook (`post_fal_webhook`) and by nothing else; its QuickBooks handler posts
what was approved.

## 2. The modules

| module | models |
| --- | --- |
| `Outbox` | `operational_outbox.rs` and `loyalty::try_accrue_for_order` |
| `OutboxContract` | what a committed checkout is promised; abstract, implemented by `Outbox`: `owed`, `done`, `told`; `Promise`, `Record`, `Announce` |
| `CardTerminal` | attempts, readers, webhooks, polls, releases, the checkout's gate |
| `HelcimEvents` | `helcim_event_log` |
| `JobQueue` | `jobs/queue.rs`, `jobs/worker.rs` |
| `PhysicalCount` | `logic/physical_inventory.rs` and the writers of the stock around a count |
| `Fulfilment` | order lines and their stock: checkout, `api/order_lifecycle.rs`, `api/purchase_orders.rs`, releases, returns, cancellations |
| `CardRefund` | `process_refund` in `api/transactions.rs` and Helcim's side of it |
| `CheckoutRecovery` | the cart, the offline queue, `api/recovery.rs`, `execute_checkout`'s idempotency, the Z-close |
| `QboJournal` | `qbo_sync_logs`: `logic/qbo_journal.rs`, `api/qbo.rs`, `jobs/qbo_sync.rs` |
| `OutboxProofs`, `JobQueueProofs`, `CardTerminalProofs`, `CardRefundProofs`, `CheckoutRecoveryProofs`, `QboJournalProofs` | theorems about the module they are named for, `CardTerminalProofs` also about `HelcimEvents` (section 4) |
| `InventoryProofs` | theorems about `PhysicalCount` and `Fulfilment` |
| `Sums` | what SQL's `SUM()` computes, over numbered rows (`SumTo`) and over a set of rows (`SumAlong` a list of it) |
| `DataLemmas` | lemmas about sums, sequences and finite sets |
| `MC...` | values for the constants, symmetry |

Every module but the MC ones takes its sets, bounds and limits as constants with
a named assumption. Each bound on a counter is a constant whose comment says
*bound*. An operator marked *mutant* or *variant* is an altered form of the
definition near it; nothing refers to it. It is there so that it can be put in
the place of the definition to see that a property notices (`PROJECT.json`,
mutants). Every module has a type invariant `TypeOK`; it is the base of the proofs
and listed in no run, but holds on every instance of section 3. `HelcimEvents`
and `PhysicalCount`, whose theorems share a module with those of another
component, name their parts apart: `LogInit`, `LogSpec`, `LogTypeOK`,
`CountInit`, `CountSpec`, `CountTypeOK`.

A variable marked *history* or *the store* is not in the code: it remembers what
a property needs to speak about, or says where goods really are.

### Outbox

`status`, `attempts`, `due` (`available_at` reached) and `lapsed` (`locked_at`
older than five minutes) are the row; `applied` holds, per job, the follow-up
steps whose keyed row exists, `reached` the two-phase steps whose second
statement ran as well, `points` how often loyalty points were given, `posted`
and `alerted` what left the system. A worker is `job`, `copy` (the `attempts` in
its `ClaimedJob`), `at` and `pc`.

`Claim` is `claim_next`; `Inspect`, `Skip`, `RunStep`, `FanOut` and `Accrue` are
the statements of `process_checkout_post_commit` in their order, one action per
statement, because a crash or an error can fall between any two; `StepFails` is
any of them returning an error; `Finish` and `RetryOrFail` are the updates that
end the attempt, by id alone as in the code; `Vanish` is a crash or a final
update that fails (its error is only logged). `LeaseLapses` under a live worker
is possible, and counted as a fault.

Two steps are merged or simplified: `rms_charge_program_selected` belongs to the
`sale_checkout` step (two access-log rows of the same kind), and a transaction
not eligible for points is one whose `Needs` lacks the loyalty step.

### CardTerminal

The row of an attempt is `status`, `error` (its `error_code`), `ref` (which card
transaction its `provider_transaction_id` names), `audit` (whether
`raw_audit_reference` is set), `old` (past
`HELCIM_TERMINAL_PENDING_TIMEOUT_MINUTES`), `checkout` and `terminal`. `call` is
where the dispatching request stands. `showing` is the purchase a reader
displays, `reads` the card transactions under each attempt's invoice, `heard`
those whose event was processed. A poll is `place`, `target` and what it took
from the row and from Helcim.

The four writers: `StartPurchase`, `Accepted`, `Rejected`, `Unknown` (the
dispatching request, whose reply is stored by id alone);
`CardTransactionEvent`, `TerminalCancelEvent` (webhooks, in any order, late or
never); `Poll` then `Store`, `ReleaseCanceled`, `ReleaseAsks`,
`ReleaseRosError` (the register's stream, its badge, and staff releasing the
reader: read, ask, write, each write under the condition of its UPDATE); and
`Checkout`. `ReadCard` and `LeaveReader` are the customer, outside the code.

Abstractions, each a simplification a later version may lift:

- All attempts are for the same amount and currency, so nothing is a mismatch;
  card transaction events carry no device code, so the amount-and-reader
  fallback of `handle_helcim_card_transaction` does not apply.
- Register sessions stay open. Hosted checkout, saved cards and the simulator
  are left out. A sale is completed in one step.
- A poll's read of the row and Helcim's answer are one action (`Poll`), its
  write another (`Store`). Everything may happen between them.
- `InvoiceMatch` looks at the invoice's own card transactions; identity checks
  on them succeed.
- A cancel event reaches any pending attempt that `SafeCancelCandidate` admits,
  or, from the time the attempt counts as old, possibly none: the code's limit
  is ten minutes after creation, the model's `old` starts at five.
- `ReleaseRosError` may come at once; the code wants the attempt to be 30 s old
  (`HELCIM_ROS_ERROR_RECOVERY_MIN_SECONDS`). The model allows more, so what it
  shows holds for the code.
- Staff confirm a physical cancel only when the reader no longer shows the
  purchase.

### HelcimEvents

`row` and `lapsed` are the ledger's row; a handler is a delivery or a replay.
`Claimable` is the WHERE of the upsert in `record_helcim_event`. A handler is cut
off after 150 s and its lease lasts 180 s, so the lease cannot lapse while it
works (`LeaseLapses` asks for `At(e, "work") = {}`), but can while its error
waits to be marked. `Process` is the handler's transaction with
`mark_helcim_event_processed` in it; it may commit and still be reported as timed
out. CardTerminal relies on what is shown here: an event acts once.

### JobQueue

Each Redis command is an action, because a process can die after any of them.
`queue`, `processing` and `dead` count how often a list holds an id (the order
in a list matters to no property; that a list is first in, first out appears as
fairness). `data` is the record, `got` an agent's copy of it. A loop
(`Scan`, `Look`, `Unlist`, `Reset`, `PushBack`, `Pop`, `Load`, `Drop`, `Stamp`,
`Spawn`) is `dequeue` with the stale recovery before it; a task (`Handle`,
`ReadRecord`, `Complete`/`Fail`, `UnlistCompleted`/`UnlistFailed`, `Requeue`) is
`process_job`. `Abort` is a death or a command that fails. A record's
`started_at` is never set, recent or older than the processing timeout; `Age`
lets that time pass for the record and the copies of it alike. `enqueue` is one
action: a crash inside it leaves a record no list names.

### PhysicalCount

One variant, on the books (`onHand`, `ledger`, `lines`) and in the store
(`marked` and `unmarked` units on the shelf, `owed` to customers). Sales,
bookings, pickups, returns and losses change both, or only the store (`Shrink`).
The count is `OpenSession`, `TakeScan` (on the device), `SendScan` and
`ApplyScan` (the session is looked at without a lock, then the scan id claimed
and the unit added), `Recount` (the reviewer's adjusted quantity),
`MoveToReview`, `CancelSession`, and publication in two actions: `CheckPublish`
locks the session and looks for movements other than sales, `Publish` locks the
variant, computes the review and writes the stock. A receipt or adjustment is
`BeginMove` and `CommitMove`, since it looks for an active count first and is
stamped with the time it began. `NOW()` is `clock`, advanced by each stamped
transaction.

### Fulfilment

Several order lines of one variant. Every handler locks its transaction or
purchase order and then the variant, so each is one action. `stock`, `reserved`
and `layaway` are the variant's columns; `line` and `po` the rows; `shelf` is
what stands in the building, `custody` what stands there for a customer who
bought it as Pick Up Later. Quantities, partial receipts and partial
cancellations are counted. `PickUp`, `PickUpHeld` and `Ship` are the three ways
out, `ReturnGoods`, `ReturnOpen`, `CancelUnits`, `CancelOrder` and `Forfeit` the
ways back. A return says for itself whether it restocks (`restock`): the default
looks at whether the line was fulfilled, an explicit value is obeyed, also for
units that were never handed over (`ReturnOpen`). `phantom` counts the units the
books gain that way. A cancelled record still takes a return with its refund.
Suit component swaps and the reservations of web orders are not
here; each line is alone in its transaction.

### CardRefund

One card charge and a few refund tenders of it. A refund by cash is one action
(`RefundAtOnce`). A refund by card is a request in steps: `BeginCardRefund` (the
transaction that validates and is rolled back), the reservation of an attempt
(`ReserveNew`, `ReserveSame`, `ReserveAfterFailure`, `ReserveRetry`), `Recheck`,
`Lookup`, `Send`, the answer (`AnswerApproved`, `AnswerDeclined`, `NoAnswer`,
`SendRejected`), `Attach`. `Lookup` asks Helcim for the batch of the charge and
chooses, at every call anew, to reverse the charge or to refund it
(`ReturnAction`); the two go to Helcim under keys of their own, so what Helcim
receives, grants and declines are *requests*, an attempt with its action, and an
attempt can be two of them once the batch closes (`BatchCloses`). Between any two
of these steps the request may stall, or go with its connection (`Drop`), and
other refunds may commit. Drawers are not followed: one closed meanwhile makes
the check before the call fail (`RecheckFails`) or ends the request before its
commit (`Drop`). `Restore` is the request that finds its approval on record. `CancelItems` is the
cancellation of order items without a tender, which opens a queue row that a
later refund finds; only after it does the key of a first refund stay the same
when the refund is asked for again. The
idempotency key is modelled by its parts: the queue row's id (0 for one that is
rolled back), what the card was refunded before, the amount. Amounts and
merchandise are counted in units.

### CheckoutRecovery

`sale` is the Transaction Record under a `checkout_client_id`, with who recorded
it and whether the till was closed then. The browser has `cart`, `queue` and the
answers it waits for; `call` is a checkout request that the server authenticated
before it locks the session, and `stale` those nobody waits for any more. `job`
is the mirror on the server, `mirror` and `resolving` the requests about it,
`manager` a Manager's replay between the checkout and the transaction that
settles its job. `phase`, `report` and `ack` are the till's session group.
Everything the client sends may be lost, answered too late, or sent again after
`Restart`.

### QboJournal

One business date. `rows` are its staging rows, oldest first; `facts` numbers
the states of the day's activity, so that a payload is the number of the state
it shows. A proposer reads (`BeginPropose`) and writes (`FinishPropose`), a
poster reads (`ReadRow`), claims and sends (`Claim`), and stores an answer
(`Posted`, `Failed`) or none (`Drop`). QuickBooks takes a request up late or
never (`MakeEntry`), answers a request id it knows with the entry it made, and
forgets ids after a day (`Forget`).

## 3. The runs

| run | instance | distinct states | properties |
| --- | --- | --- | --- |
| `outbox` | 1 job needing all nine steps, 2 workers, 2 attempts, 2 faults | 120 k | `CompletedIsDone`, `PointsOnce`, `WebhookLast`, `SoleHolder`, `AttemptBudget`, `CompletedStays`, liveness `EveryJobSettles`, refinement `ContractSpec` |
| `card` | 2 checkouts, 1 reader, 2 purchases, 1 card each, 1 poll, no release by staff | 627 k | `CancelTakenForAnother`, `NoSecondPurchase`, `SaleTakesApprovals` |
| `card_one` | 1 purchase, 2 cards, polls without bound | 72 k | `ApprovalsAreReal`, `ApprovalFinal`, liveness `ChargeRecorded` |
| `helcim_events` | 2 events (one ignored), 3 handlers, 2 faults | 0.9 k | `ActsOnce`, `WorkerHoldsRow`, `FinalStays`, liveness `EventsSettle` |
| `jobs` | 1 job, 1 server, 2 permits, 2 retries, 2 faults | 112 k | `NotLost`, `RecoveredAfterTimeout`, `SoleTask`, `RunBudget`, liveness `EveryJobSettles` |
| `phys_count` | 2 units, 2 scans, 5 stamped transactions | 2.2 M | `LedgerExact`, `PublishedIsShelf`, `OverwritesOnlyUnseen` |
| `fulfilment` | 2 lines of up to 2 units, 3 in all, no stock at first, 1 unit bought for stock, overrides | 2.4 M | `BooksMatchShelf`, `PromisesKept` |
| `card_refund` | a charge of 2, 2 tenders, the items cancelled before or not, 2 requests at work, 2 attempts | 2.0 M | `RefundsCovered`, `AttachedIsReal`, `OneOutstanding`, `FailedMeansNoMoney` |
| `checkout_recovery` | 1 sale, 1 Manager, 1 till | 1.1 M | `NothingForgotten`, `RegisterSalesReported`, `EvidenceIsExact`, `BlockedStays` |
| `qbo` | 2 rows, 2 states of the day, 2 posters, 1 void, 2 entries, 1 forgotten id | 2.4 M | `OneEntryPerRow`, `NothingHidden`, `BooksAgree`, `OnePoster` |
| `card_late` | 1 checkout, 2 readers, 2 purchases | stops at depth 7 | `ApprovalProtected`, found violated (section 5) |
| `card_refund_restore` | a charge of 2 | stops at depth 10 | `RestoreFindsApproval`, found violated (section 5) |

What the newer properties say.

- `CancelTakenForAnother`: a terminalCancel event names a reader, not a purchase.
  A purchase the customer paid is taken for canceled only by the event of an
  earlier purchase on which a card had been declined, come late; a purchase
  that was merely released to make room for the next never has this effect.
- `LedgerExact`: an absolute write posts the difference from the stock it
  replaces. `PublishedIsShelf`: a count that went straight leaves on the books
  what is on the shelf, whatever moved around it; `Straight` names what can go
  wrong in a store or by a late scan, and is met by many behaviours with sales
  before, between and after the scans. `OverwritesOnlyUnseen`: a movement is
  overwritten in two ways only, both a matter of time between a check and a lock.
- `BooksMatchShelf`: over every sequence of sales, releases and returns, no
  handler takes units off the books twice or forgets to, or puts any on them that
  did not come in, but in two ways that are counted: the release of a partly
  cancelled line (`misposted`) and the explicit restock of units never handed
  over (`phantom`). As many units as were made up may be sold without being
  there. `PromisesKept`: what a receipt reserved is not released for someone
  else, as long as nobody released units that were not held for the line.
- `RefundsCovered`, `OneOutstanding`, `AttachedIsReal`, `FailedMeansNoMoney`: the
  three ways a refund can be wrong (too much, twice, or a movement the books and
  Helcim disagree on) across steps that hold no lock in common. Helcim never holds
  requests of two attempts, although it may hold two of one. An attempt is
  excepted once a replay of it was rejected (`abandoned`), or once it was sent
  both ways and one of the two was declined (`Split`): the row says failed then,
  and the other request may have moved the money (section 5).
- Some properties except the very fault a hazard names, and say how far it
  reaches rather than that it cannot happen: `SoleHolder` and `CompletedStays`
  (a lapsed lease), `WorkerHoldsRow` (a failure marked late),
  `OverwritesOnlyUnseen` (a movement between check and lock), and
  `FailedMeansNoMoney` as just said. `PROJECT.json` says so at each
  of those hazards. `RecoveredAfterTimeout` is about one server with one loop; a job
  between its pop and its stamp is met only by the scan of another server.
- `NothingForgotten`, `RegisterSalesReported`, `EvidenceIsExact`,
  `BlockedStays`: a sale is never lost, and ends in the Z-report or has
  post-close evidence.
- `OneEntryPerRow`, `NothingHidden`, `BooksAgree`, `OnePoster`: QuickBooks and the
  staging rows tell the same story after timeouts, retries, refreshes and voids.

The bounds. Rows of the outbox do not influence each other except through the
order of claims, and two workers and two faults suffice for a worker whose lease
lapsed to write after another one claimed the row, and to fail once more. The
card runs separate two questions. What happens *between* purchases on a reader
needs two of them and two checkouts, but only one poll (with releases by staff as
well it has 1.2 M states, and agrees). What happens to *one* purchase needs a
decline followed by an approval, releases, and polls without bound for the
liveness property. Two requests for one event are enough for every race of
the ledger, three for a failure marked after its lease was taken over. For the
job queue one job and two tasks give every race for a job; two jobs with two
faults (6.4 M states) were run once and agree. `MaxRuns` in `JobQueue` ends
behaviours in which two tasks at one job lose each other's count of attempts for
ever; it exceeds `MaxRetries + MaxFaults`, which `RunBudget` allows. A count
needs two scans and a sale before, between or after them.
Two lines suffice for one order to be served with what another was promised; two
units on a line for partial receipts and cancellations. It opens without stock, so
that what is made up can be promised to a customer before any unit is there. Two
refund tenders and a charge of two let the first leave less than the second
wants; a second attempt is what a retry makes. The items may be cancelled before
(`Cancellations`): only then does the key of a first refund survive a replay, and
a reversal needs a key that says nothing is refunded yet. So one attempt does go
out both ways in this run, while another tender is asked for. (Without
cancellations a charge of three, 0.3 M states, was run as well and agrees.) One sale is enough for the offline queue, where items of
different sales meet only in the count before the close. Two rows are what a
revision needs, two posters every race for a row.

Deadlock checking is off where the system really ends or a bound stops it: a
settled and purged outbox has nothing to do, a card instance runs out of
purchases (`MaxStarts`), an event ledger ends when all is processed, `MaxRuns`
may stop the job queue; a count is published or cancelled, a day posted, a
charge refunded, a till closed.

The fairness, and why the code justifies it:

- Outbox: the worker's loop ticks every two seconds and never stops, so a
  worker's next step is weakly fair. The claim is strongly fair per job, since
  `ORDER BY available_at` serves the longest-waiting row first. Clocks advance.
  Nothing is assumed of crashes; they are bounded.
- CardTerminal (only for `ChargeRecorded`): someone asks about the attempt again
  and again *and Helcim then answers*. This is what the register's stream and
  badge do while an attempt is open. It is an assumption about operation, not
  something the server does by itself.
- HelcimEvents: Helcim redelivers what was not acknowledged (the server has no
  sweeper of its own), its API answers in the end, clocks advance.
- JobQueue: the loop runs, tasks end (`job_timeout`), a list is a queue.
- The other modules state no fairness and no liveness. What ends a count, an
  order, a refund, a queued sale or a failed posting is a person or the
  register; the server promises nothing by itself, and in places (section 5)
  leaves a row for good.

## 4. The proofs

Every theorem holds for all values of the constants that the named assumption of
its module admits: any number of jobs, workers, purchases, requests, rows,
faults. The assumptions are types, limits that are positive, special values that
differ from data, and for the outbox the places of the loyalty and webhook steps
in the pipeline. The bounds of section 3 are constants of the modules, so they
are arbitrary here.

| module | theorems |
| --- | --- |
| `OutboxProofs` | `TypeCorrect`, `CompletedJobsAreDone`, `PointsAccruedOnce`, `WebhookIsLast`, `OneHolderAtATime`, `CompletedIsFinal`, `AttemptBudgetHolds`, and the refinement `OutboxImplementsContract` |
| `JobQueueProofs` | `TypeCorrect`, `SoleTaskHolds`, `NotLostHolds`; with one server `RecoveredAfterTimeoutHolds`, `RunBudgetHolds` |
| `CardTerminalProofs` | `TypeCorrect`, `ApprovalsAreRealHolds`, `CancelTakenForAnotherHolds`, `ApprovalFinalHolds`, `NoSecondPurchaseHolds`, `SaleTakesApprovalsHolds`; of the event ledger `LedgerTypeCorrect`, `EventsActOnce`, `LeaseHeldAtWork`, `FinalEventsStay` |
| `CardRefundProofs` | `TypeCorrect`, `RefundsCoveredHolds`, `AttachedIsRealHolds`, `OneOutstandingHolds`, `FailedMeansNoMoneyHolds` |
| `CheckoutRecoveryProofs` | `TypeCorrect`, `NothingForgottenHolds`, `RegisterSalesReportedHolds`, `EvidenceIsExactHolds`, `BlockedStaysHolds` |
| `QboJournalProofs` | `TypeCorrect`, `OnePosterHolds`, `OneEntryPerRowHolds`, `BooksAgreeHolds`, `NothingHiddenHolds` |
| `InventoryProofs` | of a count `CountTypeCorrect`, `LedgerStaysExact`, `StraightCountsPublishTheShelf`, `OnlyUnseenMovesAreOverwritten`; of fulfilment `TypeCorrect`, `BooksAlwaysMatchShelf`, `PromisesAreKept` |

A theorem `XHolds` is about the property `X` of section 3. Each module of proofs
begins with the parts of its inductive invariant, `IInv` (in the outbox `Base`,
`Recorded` and `BudgetOK`, for a count `CountIInv`), proves that `Init` gives it
and every step keeps it, and derives the rest. The two modules whose theorems
share one with another component's do this once for each.

### The outbox

`CompletedIsDone` is not inductive: it says nothing of a worker about to finish.
What carries it is that a worker at statement `k` has the keyed rows of all
needed statements before `k` (also when another worker wrote them), so that one
at `finish` has them all, or its transaction is gone; and nothing ever deletes a
keyed row. The same fact gives `WebhookLast` and the order the contract asks
for. `SoleHolder` needs in addition that a row without a lapsed lease is claimed
only from `pending`, when nobody holds it. None of this depends on leases being
respected: the steps are keyed, and that is what keeps overlapping workers
harmless.

`AttemptBudget` is a counting argument, since `claim_next` does not look at the
limit itself. A row becomes claimable by being enqueued, by an attempt short of
the last that gives it back, or by a lapsed lease, which is a fault. The workers'
copies of the counter are all different, so each value below the limit is given
back once at most (`GivenBack`, `ToClaim`, `Counted`); hence the counter never
exceeds `MaxAttempts + faults`.

`OutboxImplementsContract`: every behaviour of `Outbox` is one of
`OutboxContract` under `owed` = rows ever enqueued, `done` = `applied`, `told` =
`posted`.

### The event ledger

The invariant adds to the types that, unless a lease was overrun, at most one
handler is at work or failing on an event and the row says so (`HolderOK`), and
what each status of the row says of `applied` (`RecordOK`).

### The job queue

`SoleTask` speaks of tasks only; between tasks a job is in the hands of a loop,
or of nobody. The invariant `Sole` is about all *holders* of a job: one at most,
the job is on one list at most, and on `processing` exactly when it is held and
not between two lists. `Known` says that what a holder read of the record is
still the record, and where it can find it gone; `Kept` that a record is gone
only when its job is nowhere. All of it excepts jobs that recovery took from a
live worker (`shared`), and `Kept` those a fault dropped (`lost`), as the
properties do.

`RecoveredAfterTimeout` and `RunBudget` are proved under `SoleServer`: any number
of permits, but one server with one loop, as deployed. The hypothesis is needed:
with a second server, recovery may look at a job between its pop and its stamp
(section 5), and then neither property need hold. The argument is that a job at
work has a recent stamp unless it overran (`Stamped`), and that each run short
of a fault is paid for by the record's `attempts` (`Budget`: a bound for each
place the job can be at).

### Card payments

`IInv` relates four things: what a reader shows (`ReadersOK`), what a poll
carries from its read to its write (`PollsOK`: it may be old, but what Helcim
said is still true), what a row names of its invoice (`RefsOK`), and how a
purchase ended (`EndsOK`). A purchase ends as failed only after a declined card
or without having reached its reader; as canceled by its own cancel event, or
that of an earlier purchase that left the reader after a decline (`Earlier`).
`CancelTakenForAnother` follows. `OnePending` is the partial unique index of the
table. The three action properties follow from `IInv` and what any step may do
to a row at all (`RowStep`). `late` appears in `RefsOK` as it does in the
properties: a confirmed approval is on the row unless the reply to its own
dispatch overwrote it.

### Refunds to card

The advisory lock is held for the reservation only, so mutual exclusion has to be
carried by the rows. `Core` says how: an attempt Helcim has not received has one
request at most, none once it failed (`SoleSender`); a request that is about to
send knows whether the attempt may have been sent before (`HandlersOK`); and at
most one attempt is outstanding (`OneUnresolved`), which is what the
reservation's query looks for. It speaks of attempts and not of requests: a
second request of an attempt may be on its way whatever the row says by then, but
unless one of the two is declined, or a replay is rejected, the row stays pending
or approved. `RefundsCovered` needs nothing of it: each of the
commits validates anew in its own transaction, and the sums grow by what was
validated.

### Offline queue and close

A copy of a sale leaves the browser's queue for an answer, a mirror that says
resolved, or a resolution. `SettledIsSold` says of all of these, on either side
of the network and in every stale request, that the sale exists.
`UnconfirmedBlocks` keeps a blocker from arriving as pending by any road;
`ReportOK` and `EvidenceOK` tie the Z-report to the moment each sale was made.

### The journal

`OneEntryPerRow` holds because QuickBooks knows every entry of a row whose request
id it never forgot, and one entry per id (`KnownOK`). `BooksAgree` needs that
everything on the wire and in QuickBooks belongs to a row that was posted and
has its lines (`WireOK`, `EntriesOK`), and this that a row being posted is not
refreshed, for which `OnePoster` is wanted.

### A physical count

`LedgerExact` is inductive beside the types: every writer adds to the stock what
it appends to the ledger (`PostExact`, by `SumExtends`), and so does `Publish`,
whose delta is taken under the lock. `PublishedIsShelf` needs an account of the
counted units over the whole session: as long as none left without a sale, those
on the shelf and the sales of such units together are the units scanned, or the
number the reviewer entered (`ShelfOK`). Together with `TallyOK`, which says that
the row counts the scans applied and is stamped if and only if it counts
anything, a straight count has in the row exactly what is on the shelf and what
was sold since the last scan, and the review subtracts the latter
(`StraightCount`). `OverwritesOnlyUnseen` rests on `SeenOK`: unless a movement
escaped, all that came after the count began carries a stamp the check looks at,
and at a publication the check has seen nothing.

### Fulfilment

`BooksMatchShelf` is inductive once it is known that nothing is kept for, or was
brought for, a line that was not sold (`FreshOK`). Each handler changes one line,
hence the sums over all lines by the difference on that one (`TotalChange`). That
what is kept is there but for the units made up is part of the invariant for
another reason as well: when kept units are returned and not restocked, those
that never were there go off the count of units made up, which therefore has to
cover them.
`PromisesKept` alone is not: a partial receipt reserves units before the line
counts as received, so the reservation has to be credited with what the line's
own purchase order brought so far. `Due` is that credit: all that remains of a
received line, and of any other the units its order brought, but no more than
remain. `DueOK` says that what is reserved covers it, and the corresponding sum
over layaways; a step may break it only by setting `overdrawn`.

### Sums and sequences

Refunded amounts, the stock ledger and the units of all lines are sums of any
length. `SumTo` is a recursive function, and the prover has no induction over
data to offer. `DataLemmas` gets by with the least counterexample: a set of
naturals that is not empty has a least element (`LeastElement`), so were there a
length up to which the sums of a function are not defined, or are not unique,
there would be a first one, and the defining equation refutes it. From this
follow `SumEmpty`, `SumExtends` and `SumNat`, and, in the same way, that sums of
integers are integers, are monotone, and change by the difference when one term
does (`SumInt`, `SumLeq`, `SumChange`). A sum over a set of rows runs along a list
that has each of them once (`ListOf`; a finite set has one, `ListOfSet`), and
inherits these (`SetSumInt`, `SetSumNat`, `SetSumLeq`, `SetSumChange`,
`SetSumZero`). The list is chosen, and what is proved holds whichever it is.

### Only model-checked

- Liveness: `EveryJobSettles` (twice), `ChargeRecorded`, `EventsSettle`. Fairness
  is out of the prover's reach.
- With more than one server, nothing is proved of `RecoveredAfterTimeout` and
  `RunBudget`, which are not true then.
- `ApprovalProtected` and `RestoreFindsApproval` are false (section 5).

Every other property of the runs has a theorem.

## 5. What was found

Two statements of documents do not hold of the code and have a run each
that shows the shortest way there (`PROJECT.json`, findings).

1. `card_late`: an approval taken back. The reply to a dispatch, when it is an
   error or a timeout, is stored by id alone; if the approval's webhook was
   faster, the approved attempt becomes pending or failed again and the
   checkout can be charged once more. `NoSecondPurchase` and
   `SaleTakesApprovals` hold for every other order of events (`late` is the
   history variable that sets this one apart).
2. `card_refund_restore`: an approved refund that its retry cannot find. The
   idempotency key holds the id of a queue row which, when the refund is sent
   with its return lines, is rolled back before Helcim is called. If the ledger
   commit after the approval fails, the retry computes another key, does not
   find the approved attempt, and is refused because of it.
The models contain more that a reader of the code may want to know, more
contradicted claims of documents and comments among it. What follows was met while modelling, is behaviour of the models too, and is why some
properties carry an exception or are not claimed at all.

Outbox, cards, events, jobs:

- A keyed task or notification and its second row are two statements; a failure
  between them is retried, finds the key, and skips both
  (`logic/tasks.rs:1359`; `docs/POS_PARKED_SALES_AND_RMS_CHARGES.md:78`).
- The poll that watches for an approval after Try Again finds but cannot store
  it (`api/payments.rs:13182`); a poll that sees a decline before its webhook
  does ends the attempt while the reader still offers Try Again
  (`api/payments.rs:12793`).
- A failure marked after its lease was taken over reopens an event another
  delivery is processing (`api/webhooks.rs:759`); `overran` sets these apart.
- With two servers on one queue, recovery takes a job that was just popped and
  not yet stamped (`jobs/queue.rs:212`).

Physical count (`PhysicalCount`):

- Publication looks for movements before it locks the variants
  (`logic/physical_inventory.rs:1019`), so a return, receipt or adjustment that
  commits in between is overwritten by the absolute stock, as is one whose
  transaction began before the count and committed during it. The comment at
  `logic/physical_inventory.rs:1056` ("so absolute stock writes cannot overwrite
  newer inventory mutations") and
  `docs/audits/PHYSICAL_INVENTORY_READINESS_AUDIT.md:32` ("preventing Physical
  Inventory from overwriting adjustments, returns, damage/loss, RTV, or receipt
  movements") say that this cannot happen. `OverwritesOnlyUnseen` shows that
  these two windows (`escaped`) are the only ones.
- Units picked up during a count for orders booked before it are not deducted
  from the count; orders booked after it are, although their units are still on
  the shelf. `PublishedIsShelf` speaks of counts where neither happened to a
  counted unit.
- A scan that arrives late moves `last_scanned_at` past sales that took the unit.
- A return during a count keeps it from being published for good.

Fulfilment (`Fulfilment`):

- A release takes the whole quantity of a line off the stock and its
  reservation, also what was cancelled before (`misposted`), and can so let go
  what another order was promised (`overdrawn`; the comment at
  `api/purchase_orders.rs:1507` says such units are not available).
- An explicit restock is obeyed for units that were never handed over
  (`logic/transaction_returns.rs:299`; `docs/TRANSACTION_RETURNS_EXCHANGES.md:139`
  says only that it overrides the default), so the stock gains units that did not
  come in (`phantom`), and they can be sold. `api/transactions.rs:8777` refuses
  a partial refund that would do this, but not one that cancels the transaction.
- A manager's override releases what was never reserved for the line, with the
  same effect. Cancelling an unpaid order leaves its layaway, reserved or
  kept units where they are.

Card refunds (`CardRefund`):

- A replay that is rejected marks as failed an attempt Helcim may have executed
  before (`abandoned`).
- Every call of an attempt asks for the batch of the charge and reverses or
  refunds accordingly, under two keys (`api/transactions.rs:10082`, `10092`,
  `10105`). A reversal whose outcome is unknown, replayed after the batch closed,
  is a second request to Helcim, which may execute both.
  `docs/TRANSACTION_RETURNS_EXCHANGES.md:68` ("may be replayed only with the same
  key") and `docs/HELCIM.md:134` ("Network and HTTP 5xx retries reuse the same
  provider key and identical payload") say otherwise.
- The answer to one of the two is stored for the attempt: when the refund is
  declined, the attempt is marked as declined although the reversal may have
  moved the money (`api/transactions.rs:10196`), and the next refund is a new
  attempt (`Split`).
- A crash while a call is out leaves the attempt pending and the charge blocked.
- An answer that comes after another request for the same attempt stored an
  approval puts it back to pending.

Offline queue and close (`CheckoutRecovery`):

- The queue is counted before the till is looked at and locked, so a till may
  be closed as ordinary with a sale still queued (a comment at
  `client/src/lib/serverRecovery.ts:346` says otherwise). It is not lost, and
  needs a Manager then.
- A sale whose answer was late, replayed by a Manager after the close, gets
  evidence although it is in the report; `EvidenceIsExact` is about sales the
  replay itself recorded.
- A sale made offline that was never mirrored before the close can be neither
  mirrored nor replayed after it.
- Not modelled: a Manager may also settle a job by the reference of a payment
  reconciled outside (`resolve_externally_reconciled_checkout`,
  `api/recovery.rs:1603`-`2051`). It demands that the Transaction Record and its
  payment exist and writes no post-close evidence, so `EvidenceIsExact` is about
  jobs settled by a replay and not about these.

QuickBooks (`QboJournal`):

- A failed posting that QuickBooks did execute, retried when it no longer
  remembers the request id, makes a second entry (`lapsed`).
- A row left in `syncing` by a crash is never taken up again.
- A day refreshed while its row is being posted gets a second full row, which
  is not marked as a revision; both can be posted.
- An unreadable success is stored as `UNKNOWN` and can never be voided; a void
  whose answer was lost cannot be repeated.
- A posting sends the payload it read, also when the row was reverted,
  refreshed and approved again meanwhile (`outdated`).

## 6. What is not modelled

Section 1 lists the parts; `PROJECT.json` gives the reason for each. In short:
record keeping with single-row writes, read-only reporting, calls to outside
services without a protocol of their own, the user interface and the installers
are out of scope. Most of the source is of this kind: the Counterpoint import
alone, entity by entity SQL, is larger than all that is modelled. Of the
modelled parts, amounts are left out where no property is about them (the
payload of the finalized webhook, prices and tax, the lines of a journal), and
so is the work of the job queue's handlers except for posting to QuickBooks. The
settlement of a recovery job by an external payment reference is left out
(section 5).

## 7. The plan

Done: `Outbox`, `OutboxContract`, `HelcimEvents`, `JobQueue`, `CardTerminal`,
`CardRefund`, `CheckoutRecovery`, `QboJournal`, `PhysicalCount`, `Fulfilment`:
modelled, checked, and every safety property of their passing runs proved.

To prove next: abstract specifications of a refund (asked, moved, booked) and of
a posting (owed, entered), with `CardRefund` and `QboJournal` shown to implement
them; an abstract specification of a queued sale (left, recorded, reported) for
`CheckoutRecovery`.

To model, in this order: stored value (balances under a row lock and their
ledgers), parked sales with the recovery of a card approval, purchases under
way at a register close, the distributed lock, order lifecycle against a
reference table, Counterpoint staging batches.
