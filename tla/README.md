# HayaFlash in TLA+

HayaFlash is a Django application for flash sales over WhatsApp in West Africa:
a seller opens a sale, clients order from a public page and pay on delivery, and
the seller follows the parcels. PostgreSQL keeps the state (READ COMMITTED, row
locks taken with `select_for_update`), Celery beat runs periodic tasks, and a
service worker in the client's browser sends orders again until it reads an
answer.

This directory holds TLA+ models of that program, the TLC configurations that
check them on small instances, and proofs that TLAPS checks for every instance.

| file | what it is |
| --- | --- |
| `Orders.tla` | orders, stock, expiration, delivery and the seller's grid, as transactions that interleave |
| `Inventory.tla` | what they promise together, without locks or sessions |
| `MCOrders.tla`, `Orders*.cfg` | instances of `Orders` for TLC |
| `OrdersProofs.tla` | the inductive invariant of `Orders` and the theorems that follow |
| `Subscription.tla` | the payments of a seller's subscription: webhook, browser, status check, activation |
| `MCSubscription.tla`, `Subscription*.cfg` | instances of `Subscription` for TLC |
| `SubscriptionProofs.tla` | the inductive invariant of `Subscription` and its theorems |
| `Settlement.tla` | the sales of a reseller: follow-up lines, weekly statements, payouts, corrections |
| `MarginDebt.tla` | what the settlement promises about one margin, without rows or transactions |
| `MCSettlement.tla`, `Settlement*.cfg` | instances of `Settlement` for TLC |
| `SettlementProofs.tla` | its inductive invariant, its theorems, the refinement of `MarginDebt` |
| `Allocation.tla` | a wholesale product shared out among the shops of resellers |
| `Partners.tla` | the commissions of a partner, their validation and their payouts |
| `Payments.tla`, `PaymentsRetry.cfg` | customer payments, provider callbacks, the ledger |
| `Sales.tla` | the flash sales of one seller, their rules and the tasks that open and close them |
| `BackOffice.tla` | these four, which share no row, in one specification |
| `MCBackOffice.tla`, `BackOffice.cfg` | an instance of `BackOffice` for TLC |
| `AllocationProofs.tla`, `PartnersProofs.tla`, `SalesProofs.tla` | theorems about three of the parts |
| `BackOfficeProofs.tla` | theorems about `Payments`, and that the composition implements each part |
| `SumLemmas.tla` | what `MapThenSumSet` computes over any finite set, proved |
| `PROJECT.json` | runs, mutants, the map from definitions to source lines, findings, hazards |

## 1. Inventory of the system

Paths are relative to `src/`. "Hard" says what a test would hardly reach.

**Orders** (`orders/`, `flash_sales/services/ordering.py`). State: `Order`,
`OrderItem`, `UnhonoredOrder`. Operations: `POST /api/v1/orders/` (pre-checks in
`client_order.py`, transaction in `create_order.py`), `expire_pending_orders`
every 15 minutes, `release_order_stock`. Calls products (stock, movements),
delivery (one row per order), notifications (after commit). Hard: several
products locked one by one, retries of the same request that race one another,
a sale that closes while an order waits, a sweep that reads before it locks.
Right when: stock is never sold twice, an order leaves the stock once and comes
back at most once, what the client was told is true, every stale order ends.

**Delivery** (`delivery/services/delivery.py`). State: `Delivery` (one per
order). `advance_delivery` locks the delivery and then the order, and writes the
two statuses together. Hard: the pair of statuses after any sequence of steps
from the orders page and the delivery page, with the expiration task beside
them. Right when the two statuses agree, final states are final, and a failed
delivery counts against the phone until its order is cancelled (which the code
does not allow: finding 5).

**Products** (`products/`). State: `Product.stock_available`, `StockMovement`
(the journal), `FlashSaleProduct` (the link of a sale and a product). The
seller's grid writes a whole batch in one transaction. Hard: row locks on
several products, a correction typed while orders go on. Right when the stock is
the sum of its journal and the lock order leaves no deadlock.

**Flash sales** (`flash_sales/`). State: `FlashSale.status` and its period.
Operations: create, update, open, close, complete, cancel; `auto_open` and
`auto_close` tasks; rules on quotas and overlaps. Hard: rules counted before the
write; whole-row saves of an instance read before. Right when two sales that take
orders never overlap, the limits of the plan and of the day are kept, a window is
never longer than allowed, a live sale has begun and a closed one stays closed.

**Subscriptions** (`subscriptions/`). State: `Subscription`,
`SubscriptionPayment`. Orange Money is asked over the network by the webhook,
the return page and a task every 5 minutes; the activation extends the
subscription under a row lock. Hard: network calls between the read and the
lock, webhook lost, duplicated or late, a cancellation saved from a stale read.
Right when a payment extends the subscription once, success is final and the days
paid for are given.

**Reseller distribution** (`distrib/`). *Allocation*: a wholesaler invites
resellers, who import its products into their shops; the wholesaler allocates
units, which become the stock of the shop's product, and takes unsold ones back,
while orders take and return units of the same row. Hard: totals over several
resellers read before they are written; orders, take-backs and deletions of one
product. Right when allocations stay within the catalogue's stock and every
allocated unit is on the shelf or in an order.
*Settlement*: a follow-up line per imported item ordered, written by an
`on_commit` callback of the order, a reconciliation every five minutes, the
wholesaler, the customer's receipt, a presumption after a delay and the team; a
weekly statement of the confirmed margins; payouts that the reseller accepts,
contests, or accepts by silence. Hard: order statuses read without a lock and
applied later, callbacks out of order, lines withdrawn from a statement that is
being paid, staff corrections from any state, three timeouts. Right when a
statement, its lines and its payouts tell one story, a confirmed sale is kept, a
margin is never discharged twice, nothing waits for ever.

**Customer payments** (`payments/`). `PaymentTransaction`, `LedgerEntry`;
initiation with a client reference, provider callbacks, idempotent ledger. Hard:
two requests that both find a reference unused, callbacks repeated and
contradicting. Right when a repeated request is answered with its payment, an
outcome is final and the ledger agrees with it. The public form takes cash on delivery only.

**Partners** (`partners/`). `PartnerAcceptance`, `Referral`, `CommissionEntry`,
`Payout`: a commission per collected subscription payment of a referred seller,
within a window, validated by the team and paid monthly. Hard: payments recorded
late and out of order, acceptances entered after their date, a validation that
writes over what it read before. Right when a payout is the sum of what it holds,
holds what was validated, and does not change once paid.

**Others.** Accounts and one-time codes, the rate limiter (cache counters),
analytics (counters read by people), notifications (sent after the commit,
never read back), the assistant, dashboards and pages (read only), settings and
deployment. They hold little state that another part relies on; section 7 says
why they are left out.

## 2. How the modules are cut

One module per component that keeps state other parts rely on.

1. `Orders` composes order creation, expiration, delivery and the grid, which
   share rows; `Inventory` is its abstract specification.
2. `Subscription` is a world of its own, but for the commission it records.
3. `Settlement` reads the order's status, which it takes as its environment
   (`OrderMoves`, the transitions of `advance_delivery` and of the expiration);
   `MarginDebt` is its abstract specification.
4. `Allocation`, `Partners`, `Payments` and `Sales` share no row, and each is small:
   `BackOffice` composes them for one run. Interleaving them would multiply their
   states and show nothing, since no action of one reads a variable of another:
   `part`, chosen at the start, says which one moves.
   `BackOfficeImplementsParts`, proved, carries the theorems of the parts over.

Every component has its theorems in a module of its own, except `Payments`, whose few
are in `BackOfficeProofs`; the lemmas on sums they share are in `SumLemmas`. No module
declares a RECURSIVE operator; sums are folds over sets (`MapThenSumSet`).

## 3. `Orders`: the state and the code

A row of `orders_order` is named by its `client_request_id`, unique in the
table, so `status[r] = "absent"` stands for "no such row is committed". Every
request of a client is one member of `Requests`, always addressed to the same
sale (`SaleOf`) with the same basket (`Quantity`): the browser stores the payload
with the identifier and sends both again. `create_order` takes baskets of
several products; the public form sends one.

| variable | code |
| --- | --- |
| `orderable[s]`, `window[s]` | `FlashSale.status` in `ORDERABLE_STATUSES`, the clock within the sale's period |
| `link[s][p]` | the `FlashSaleProduct` row: missing, `is_active` True, False |
| `stock[p]`, `moved[p]`, `net[r][p]` | `Product.stock_available`, the sum of all its `StockMovement`s, the sum of those that name order r |
| `status`, `delivery`, `collected`, `unhonored`, `old` | `Order.status`, `Delivery.status` (`assigned` is never written), `cod_collected`, rows of `UnhonoredOrder`, created before the cutoff |
| `answer[r]` | the last answer the client of r has read: the order (`accepted`), a refusal, or nothing it can tell from (`none`: no answer, or a 429) |
| `tx[w]` | the transaction open in session w: where it is, its request and sale, product rows still to lock and already locked |

A handler becomes several actions exactly where it can wait or be overtaken: at a
network answer, at an unlocked read, at each row lock. Between two of those a
transaction runs alone on what it has locked, so one action does it all.

* `Submit` is the view and the checks before the transaction: the limit per
  address, which any try may meet, then the sale and the link, then the phone
  block and the limit per phone, which only a try that finds no order may meet; `Lookup`,
  `LockSale`, `ReserveNext`, `Insert` follow `_create_order_transactional`. The
  stock is checked at each product lock and taken at the insert with the UPDATE
  guarded by `stock_available__gte`. An `IntegrityError` on the unique
  identifier rolls back and answers with the committed row. `Refuse` and
  `Accept` answer, and the answer may be lost.
* `PickStale`, `ExpireOne`, `ReleaseNext`, `CommitRelease` are
  `expire_pending_orders`: an unlocked read of the candidates, a second read
  under the lock, one product lock after the other in ascending order, commit.
  An order that fails is skipped (`Abort(Beat)`) and tried again at a later run.
* `CancelBySeller` enters the same release from `advance_delivery("cancel")`;
  `Confirm`, `StartDelivery`, `MarkDelivered`, `MarkFailed` are its other steps.
* `OpenEdit`, `LockForEdit`, `FinishEdit` are `bulk_update`: existing products
  locked in ascending order, then `adjust_stock` and `attach_product_to_sale`
  line by line. Django's foreign keys are deferred: the insertion of a link
  takes its key-share lock on the sale's row at COMMIT, which waits for a
  `FOR UPDATE` lock on that row (`Attaches`).
* `WriteSaleStatus` is any of open, close, complete and cancel, an UPDATE that
  waits for an order holding the sale. `PassTime` is the clock, `Age` the cutoff.
* `Abort` is a killed process, a batch with an invalid line, or the victim
  PostgreSQL chooses in a deadlock: rollback, no answer.

Abstracted: amounts and prices, addresses, notes and audio, the client's
identity, wording. The counters of the rate limits and of the phone block are
nondeterministic refusals at the places where the code looks at them.

`Inventory` is the abstract specification: a request holds its whole basket or
nothing, and gives it back at most once; the seller may correct the stock.
`ImplementsInventory` maps `phase` to the order's status and leaves `stock` as it
is: locks, retries, sweeps and crashes are stutters of it.

### `Subscription`: the state and the code

One seller: rows of different sellers never meet. `status[p]` is
`SubscriptionPayment.status`, `special` the payments with a `price_override`,
`known` those whose `pay_token` and `notif_token` were saved, `recent` those
young enough for the status check; `orange[p]` is what Orange Money says of p
(final once it is not "open"); `plan`, `expires`, `uses` are the subscription and
the use count of the special price; `activations` and `undone` count what
happened to a payment and are read by properties only.

Webhook, return pages, cancellation pages and task all read the payment, go on
only if it was PENDING, spend some time (network, template) and write. `tx[w]` is
a session between the two: its kind and the payments it has read. `AskForOne` is
a return page or a SUCCESS webhook, which the code confirms with Orange before it
believes it; `Poll` the queryset of `check_pending_orange_payments`, read once;
`OpenCancel` and `OpenFailure` the two handlers that save a whole row. `Apply` is
the answer of Orange and the transaction behind it: `Activate` under the row lock
of the payment, or `Fail` over PENDING. `LearnNothing` is an answer that is not
final, an error, another amount, or a missing token. `SaveCancel` and
`SaveFailure` write without a lock what they decided before. `Create`,
`Redirect` and `FailInitiation` are `create_orange_payment`, with its network
call between them, and `GrantTrial` the free month of partners.

A webhook that says anything but SUCCESS may come at any time and from anyone: the
handler does not ask Orange, so that the model does not assume that Orange failed
the payment (`docs/releases/v1.0.0-rc1.md:581`, F-62, knows of it). A payment of
another plan replaces what is left of the present one (`payment.py:335-342`), and so
it does in `NewExpiry`. Prices are data, and the special price is not above the
official one (`get_price_quote` ignores it otherwise). The commission recorded at
the end of an activation, in a savepoint of its own, belongs to `Partners`.

### `Settlement`: the state and the code

The lines of one reseller. An order carries one imported item
(`services/commission.py:7-9`), so a member of `Lines` is an order and its line.

| variable | code |
| --- | --- |
| `order[l]` | `Order.status` |
| `line[l]` | the `DistribSettlement`: status, whether its confirmation was presumed (`auto`), margin, whether `auto_confirm_at` is set (`presumed`), the week of `paid_confirmed_at`, its statement and payout, whether the customer has told (`told`) |
| `statement[p]` | the `DistribStatement` of week p: status, the lines its amount sums (`covers`), `contest_count`, the number of its payouts |
| `payout[p][a]` | `ResellerPayout.status` of attempt a |
| `seen[w]` | what `sync_order` has read of an order, before it gets the lock of the line |
| `fix[w]` | a withdrawal that has read the lines left in the statement (`recalc_statement`) and not committed |

* `OrderSaved` (the signal, after commit) and `Reconcile` (the task, with the
  filter of its query) read; `SyncNothing`, `SyncOpen`, `SyncReverse` apply, as
  `_apply_order_state` does, whatever the order has become meanwhile. A callback
  that fails is only logged, which is the same as one that does not run; that is
  why nothing obliges `OrderSaved` to happen.
* `DistributorConfirm`, `AutoConfirm`, `CustomerConfirm`, `DeclareNotDelivered`
  run under the lock of the line; the confirmations read the order under its lock
  too.
* `StaffCorrect` is `staff_correct`. When the line is in a statement,
  `StaffWithdraw` and then `FixCommit` or `FixRefused`: the transaction holds the
  line only, so that another line may be withdrawn in between. A statement
  without lines is deleted, which its payouts (`on_delete=PROTECT`) forbid; the
  whole transaction is then undone.
* `CloseWeek`, `DeclarePaid`, `Accept`, `Contest`, `AcceptDue`, `StaffClose`,
  `StaffReopen` are the functions of `statements.py`. `DeclarePaid` and
  `StaffReopen` update all lines of the statement, so they wait for a line that
  is on its way out.

`MarginDebt`: a margin is earned, claimed, disputed or discharged. The mapping
`DebtOf` calls owed what `reseller_due` of `ceilings.py` sums: confirmed and not
in a payout that stands.

### `BackOffice`: the state and the code

`Allocation` is one wholesale product. `total` and `allocated` are its
`stock_total` and the `allocated_qty` of each import; `shelf` is
`Product.stock_available`; `out` counts units in orders that are not cancelled.
`grant[w]` is a transaction of `import_product` or `allocate` between its checks,
under the lock of the wholesale product, and its commit: revocations, suspensions
and ceilings change meanwhile, as they are read without locks. `TakeBack`,
`UpdateCatalog`, `Reserve`, `Release`, `DeleteProduct` are one action each, all
their reads being under locks. The grid refuses to correct the stock of an
imported product (`products/api.py:172`), so no other action moves `shelf`.

`Partners` is one partner and the sellers referred. `Collect` is an activation,
whose savepoint may lose the commission; `Reconcile` is `partners_reconcile`, in
the order of collection; `AcceptTerms(at)` also the acceptance on paper entered
late. `ValidateRead` and `ValidateWrite` are `validate_month`, which locks nothing.
`BuildPayout`, `MarkPaid`, `CancelEntry` hold row locks. An instant is its month.

`Payments`: `Replay` is a look-up that finds the reference, `LookUp` one that finds no
row and hence locks nothing. `Insert`, `Refuse` and `LoseRace` come after the lock of
the order: the unique constraint of `client_reference` decides between the first
and the last, and the last ends in an error, since its query comes in a transaction
that the failed insertion broke. `answer[w]` is what the request was answered.
`WebhookSuccess` and `WebhookFailed` work under the
lock of the payment; a callback that changes nothing is a stutter.

`Sales` is the flash sales of one seller. `sale[s]` is the row (status and window),
`withOrders` the sales that have orders. Nothing here takes a lock: a request reads
and counts (`Create`, `Clone`, `Update`, `OpenSale`, `CloseSale`, `CancelSale`) and
leaves in `job[h]` what it will save: the status only (`Kept`), the status and the
window, or the whole row, which for an edit of a scheduled sale is the same.
`Save` writes it, whatever the row has become; `Crash` is a worker that stops before.
`opening` and `closing` are what is left of the lists of the two tasks, read once;
`OpenerNext` decides on the copy in its list, `CloserNext` is one sale of the other
task. Times are instants: the form's tolerance of five minutes for a start in the past
is less than one. Any number of requests and tasks run at once, as in production, and
the rules, counted before the write, cannot keep all they promise. What they keep
is stated by means of `raced`, a history that no action reads: it records which
sales, or which one sale, two workers had in flight at one moment, that is, read and
not yet saved.

## 4. Runs

| run | question | bounds |
| --- | --- | --- |
| `orders_ledger` | do two orders that compete for the last unit, their retries in two web sessions, the seller's page and the expiration task keep stock, journal, orders, deliveries and answers consistent? | 2 requests (one of two products), 2 products, 1 or 2 units, 2 web sessions and beat |
| `orders_grid` | is this also so when a seller corrects and attaches the products of a batch, can sessions then wait for one another, and does a stale order still end under the fairness below? | 1 request of 2 products, batches of both, stock 0 or 1, 2 web sessions and beat |
| `orders_retry` | is POST /orders/ safe to retry? (violated) | 1 request, 1 product |
| `orders_deadlock` | does the lock order rule out deadlocks? (violated) | 1 request of 2 products, a batch |
| `orders_unhonored` | may the seller cancel the order of a failed parcel? (violated) | 1 request, 2 web sessions and beat |
| `subscription` | do webhooks, browser, cancellations, polls and the trial keep the payments and the plan right, and does the status check alone settle what Orange has cashed? | 2 payments of one plan, 1 web session and beat, clock 1..2 (`Horizon`), a plan of 3 days, special price and trial of 1 |
| `subscription_once` | does a payment extend the subscription once? (violated) | 1 payment, 2 web sessions and beat |
| `settlement` | do lines, statements, payouts and corrections keep agreeing, and is `MarginDebt` implemented? | 2 lines (symmetric), 1 session that synchronises or corrects, 2 weeks, 2 payouts of a statement, 1 correction |
| `settlement_tasks` | do the tasks alone get every payout and every order answered? | 1 line, 1 session, 3 weeks, 3 payouts, 2 corrections |
| `settlement_sum` | is the amount of a statement the sum of its lines? (violated) | 2 lines, 2 sessions, 2 corrections |
| `back_office` | do allocation, commissions, customer payments and flash sales keep what they promise? | stock up to 3, 2 resellers, 2 workers; 3 payments of 2 sellers, 3 months, a window of 1, a minimum of 2, 2 members of staff; 2 orders, 1 reference and requests without one, 2 workers, 3 payments; 2 sales, 1 web worker and the tasks, 2 days of 2 instants |
| `payments_duplicate` | is a repeated request answered with its payment? (violated) | 1 order, 1 reference, 2 workers |

Why these bounds are enough: the interesting conflicts need two requests for one
unit, two sessions for one request, and one basket of two products so that locks
can be taken in two orders; all are in the instances, and the theorems of section
5 cover the rest. No counter of `Orders` is cut by a bound: a request is ordered at
most once and stock levels are typed from `Levels`, so the state space is finite.

Of `Settlement`: two lines are what a sum needs to go wrong, one session beside the
actions under locks what a stale read needs, and two payouts what an escalation
needs; `MaxWeek`, `MaxAttempts`, `MaxCorrections` cap the clock, the redeclarations
after a reopening and the corrections, the only counters that would grow for ever.
Of `BackOffice`: two resellers compete for one stock, two payments of one seller
make a window, a third of another seller makes a payout of several, and two
requests race for one reference; `MaxMonth` and `MaxRows` cap the clock and the
payments. Two sales are what an overlap needs; one request beside the tasks is what
a stale save needs, and races two workers as well as two requests do; windows of one or two instants on two days, one sale a day, let a
window run over into the next day, move, and reach the limit of the day. The
quota of the plan is not exceeded with two sales: `SalesLimits`, proved, covers it.
`Horizon` caps the clock of the sales and their windows.

Web sessions, the lines of `Settlement` and what `back_office` names are symmetric
where a run checks no liveness. Deadlock checking stays on, except in
`back_office`: the sale's clock never stops, the staff may always turn the special
price on or off, and orders can always be read again, but payments and
commissions may all have reached their end. `Horizon` caps the clock of `Subscription`
too: two days are enough, because a seller may start with a plan that has ended; that
days add up beyond that is proved (`PaidDaysAreGiven`), as is all of its safety for
any number of web sessions and plans.

**Properties.** `StockLedger`, `LedgerMatchesOrders` and `LockedStockSuffices` say
that no unit is sold twice or lost. `OrderMatchesDelivery` lists the pairs of
statuses that a long mix of steps may reach.
`AcceptedExists`: an answer of success is true. `OnlyAttachDeadlocks`: among
sessions that wait in a circle one attaches a product. `NoOrderAfterClose`,
`ExpiryRespectsConfirm`, `FinalIsFinal` are action properties about steps that
overtake a handler between its read and its write. Each has a mutant in
`PROJECT.json`: a plausible bug in one definition that makes TLC report it.

Of `Subscription`: `OnlyPaidActivates` and `AgainOnlyIfUndone` say what the lock and
the second question to Orange are for; `PaidDaysGiven` that the days paid for at the
official price of one plan add up in the subscription, whatever trials and special
prices, initiated before, are confirmed in between (a payment of another plan does
replace what is left); `CashedIsSettled` that the task makes up for lost webhooks.

Of `Settlement`: `OneLivePayout` and `LinesFollowStatement` relate rows that five
functions write under different locks; `ConfirmedKept` says that reads without a
lock take back no confirmed sale but the one case the module's docstring allows;
`AmountFrozen` that the missing lock of `recalc_statement` never reaches an amount
that was paid; `ImplementsDebt` that no path of corrections, contests and
reopenings discharges a margin twice or loses one that was settled.
`SilenceIsConsent` and `OrderIsAnswered` say that the tasks make up for people and
signals.

Of `BackOffice`: `UnitsAccounted` and `WithinCatalog` are about stock that orders,
take-backs and allocations move at once; `PayoutIsSum`, `InPayoutWasValidated` and
`PaidIsFinal` about payouts completed step by step beside validations that
overwrite; `CommissionInWindow` about payments recorded in any order;
`LedgerTellsPayment` and `OutcomeIsFinal` about callbacks that repeat and contradict
one another. `WindowIsLegal` is about saves of different fields, prepared from older
rows, in any order. `OrderableDisjoint` and `SalesWithinLimits` say that the rules fail
only between sales that two workers had in flight together: races of other sales,
crashes before a save, early openings, edits and the stale lists of the tasks never
lead there. `LiveHasStarted` and `NoWayBack` say the same of one sale: a live sale has
begun, and one that was opened, closed or cancelled does not go back, unless two
workers had it in flight at once. Without that exception they fail, as the list below
says.

**Fairness** (`FairSpec` of `Orders`). A web transaction that is open goes on or is lost
(requests time out, PostgreSQL breaks deadlocks): weak fairness on `Continue`.
Celery beat starts the sweep every 15 minutes and the sweep takes every candidate
in turn: strong fairness on `PickStale(r)` and `ExpireOne(r)`. A row lock that is
free again and again is granted to a waiter, because PostgreSQL queues waiters:
strong fairness on `ReleaseNext(Beat, p)`. So an order whose expiration fails at every
run is left out: the task logs it and goes on, and nothing in the code ends it. The worker is not killed in the middle
of every run for ever: `<>[][~Abort(Beat)]`. Nothing is assumed of clients or
sellers, who may never come back, nor of web sessions beyond that they end.

`FairSpec` of `Subscription`: the task starts every 5 minutes and its run goes on
(weak fairness on `Poll` and on what `Beat` writes), and Orange answers at last
(strong fairness on `Apply(Beat, p)`); sessions may still crash. Nothing is assumed
of webhooks and browsers: `CashedIsSettled` is about the task alone.

`FairSpec` of `Settlement`: the beat starts the reconciliation every 5 minutes, the
presumption and the acceptance of payouts every 15, and each takes all its rows, an
error on one leaving the others (strong fairness on `Reconcile` of each line and on
`AutoConfirm`, which a transaction that holds the line may disable again and again;
weak fairness on `AcceptDue`). A synchronisation or a withdrawal that has begun
ends (weak fairness). Nothing is assumed of signals, people or the orders.
`OrderIsAnswered` speaks of orders that are on their way, delivered or cancelled: a
pending order has no deadline. The bound on corrections matters here: a team that
put a line back to "ordered" for ever would keep it open.

**Findings.**
1. `orders_retry`: the checks of `submit_public_order_api` come before any
   look-up of the request, so that the retry of an order that was committed is
   refused when the sale has closed, the product was hidden or its last unit was
   taken by this very order; the browser's queue then marks the order as failed.
   The API contract promises idempotent retries.
2. `orders_deadlock`: a batch that attaches a product and an order of that sale
   can block one another, in spite of the ascending product locks the comments
   rely on. PostgreSQL then fails one of the two; no data is lost.
3. `subscription_once`: the cancellation pages save a payment they read before, and
   may put CANCELLED over a SUCCESS; a status check that was waiting for the
   network then extends the subscription again. `AgainOnlyIfUndone`, which holds and
   is proved, says that this is the only way to be extended twice.
4. `settlement_sum`: `recalc_statement` sums the lines left without locking the
   statement. Two lines withdrawn from it at once leave an amount that counts one
   of them, or an empty statement that is never deleted, and `declare_paid` copies
   that amount. `AmountFrozen`, proved, says that a paid amount is out of its reach.
5. `orders_unhonored`: the comment of `UnhonoredOrder`, `unhonored.py`, a test and
   `distrib/README.md` treat a failed parcel whose order is cancelled later as a case
   that happens. `advance_delivery("cancel")` refuses it, the delivery being past
   pending, and the expiration looks at pending orders only. `FailedNeverCancelled`,
   proved, says that no modelled step gets there; an edit in the Django admin might.
6. `payments_duplicate`: the loser of two requests with one reference searches for
   the row in the transaction its failed insertion broke, which Django refuses; it
   reads a server error, where the docstring and a test promise the payment. A later
   retry finds it.

Behaviours the models have that no run is about. Of the first two the sources say the
contrary; the checked and proved properties say how far they go:

* two requests at once put two sales of one seller on one slot, as both count before
  either writes, though `rules.py:6` says "pas de chevauchement de creneaux entre deux
  ventes du meme vendeur" and `tests_overlap.py:1` that a seller cannot have two such
  sales (`OrderableDisjoint`: only sales in flight together);
* the opening task saves LIVE, from a copy in its list, over a sale the seller closed
  meanwhile, though `open_sale` lists CLOSED among what is not reopened
  (`models.py:172-178`) and `templates/orders/dashboard.html:134` says "Cette action est
  définitive" (`NoWayBack`: only with the sale in flight twice);
* a late `validate_month` sets a cancelled commission, or a paid one, to validated;
* two payments of one order may both succeed;
* `close_sale` has no guard: a cancelled sale that is closed counts again, beside the
  sale that took its slot. `rules.py:92-94` says that a closed sale counts, and
  `models.py:172-178` that neither is reopened, but the pages never offer to close a
  cancelled sale, which takes no orders either way;
* `cancel_sale` looks for orders and saves later without the lock of the sale: the
  sale may begin and be ordered from in between.

## 5. Proofs

`OrdersProofs.tla` is for any number of requests, products, sessions and sales.
Assumed: the three ASSUMEs of `Orders` (requests are finitely many, the keys of products
are naturals with a greatest one, quantities are natural and no basket is empty, beat is
a session).

The invariants TLC checks are not inductive: a transaction acts on what it read
before its locks, so the invariant must say what an open transaction still knows.
`IndInv` is

* `TypeOK`;
* `TxInv`: what each point of a transaction knows (`Reserving`: the sale still
  takes orders, the rows locked and to lock are those of the basket, the locked
  ones cover it; `Returning`: the order is still pending or confirmed with its
  parcel not gone, and for beat still pending and too old; a session elsewhere
  holds no product), that locks are exclusive (`Exclusive`), and that they are
  taken in ascending order;
* `DataInv`: `StockLedger`, `LedgerMatchesOrders`, `OrderMatchesDelivery`,
  `AcceptedExists`, and that the delivery of an unhonored order is past pending.

One lemma per action shows that it preserves `IndInv`; `InductiveInvariant`
combines them by PTL. The theorems listed in `PROJECT.json` follow: every safety
invariant and every action property of the passing runs, `FailureIsForGood`, which
says for every order what `orders_unhonored` shows of one, and
`OrdersImplementInventory`, the refinement, where a step maps to `Reserve`,
`Return`, `Sell`, `Correct` or a stutter. `DeadlockOnlyByAttach` takes, in a set
of sessions that wait in a circle, the one whose awaited product is the greatest
and shows that nobody holds it without having attached.

`UnitsAreConserved` is about the sum over all orders, which the ledger of each product
and order does not give by itself: what is on the shelf and what orders hold or have
sold add up to the same in every step but a correction of that product. It follows from
the refinement: a step that is no correction reserves, returns or sells one basket, or
moves none (`BasketMoves`), and a sum in which one entry changes moves by that change
(`SumChange`).

`SubscriptionProofs.tla`, for any number of payments, plans and sessions, from the
three ASSUMEs of `Subscription` (durations are positive, the free plan is not sold,
beat is a session, payments are finitely many). `IndInv` adds to the checked invariants that a payment whose
initiation is in progress is pending, unknown to Orange and in one session only
(`Initiated`: that is why `FailInitiation` may write without a lock), and that
whoever cancels or reports a payment, and Orange itself, knows it (`Known`,
`Stored`). `PaidDaysAreGiven` is about the sum over all payments (`SumLemmas`).
`PaidDaysGiven` is not inductive: a trial or a special price would cut the sum short if it could
come before the paid days are over. `DaysInv` adds that they are over once the
seller has another plan, and the guards of both on a paid subscription keep it.

`SettlementProofs.tla`, for any number of lines, sessions, weeks and attempts, from
the two ASSUMEs of `Settlement` (margins are integers, bounds are natural). What is
checked is not inductive, because withdrawals in progress will write what they
read. `IndInv` adds `FixesHold` (the line of a withdrawal is still in its statement
and in no payout, for its transaction holds it and whoever pays waits for it; the
lines left are among those it has read), `OneHolder` (one withdrawal per line),
`SeenIsPast` (an order that was read as cancelled is still cancelled, which is why a
reversal on a stale reading is right) and `ContestsCounted` (how the status of a
statement follows from its contests). `SettlementImplementsDebt` maps each action
to one of `MarginDebt` or a stutter; `MarginsAreSettledOnce` is proved of `MarginDebt`
and carried over by it.

`SumLemmas.tla`: `MapThenSumSet` is a CHOOSE of a recursive function, of which nothing
is known until it is shown to exist. Induction on finite sets is obtained without an
operator as parameter: `SubsetInduction` picks a minimal counterexample among the
subsets (`WFMin` of the library, whose order of strict subsets of a finite set is
well-founded). Then `SolutionsAgree` and `TableSolves` give the existence, `SumOfPick` the
recursion, and `SumRemove`, `SumChange`, `SumOfUnion`, `SumOfSums` what the
proofs use: the order of a sum does not matter, one entry changes it by its change,
disjoint sums add up.

`AllocationProofs.tla`, for any finite set of resellers: `AllocationInv` adds that a product
nobody ordered has no unit out, without which a deletion would lose units. A grant in
progress needs no clause there: what it moves, it moves on both sides. For
`WithinCatalog` it needs two (`CatalogInv`): one grant at a time has been checked and not
yet written, since it holds the lock of the product (`OneGrant`), and what it checked
still fits (`GrantFits`), since the catalogue's stock is edited under that lock and
whoever changes what a reseller holds without it only lowers it. `UnitsAreWithinCatalog` combines both: shelves and orders together hold no
more than the catalogue.

`PartnersProofs.tla`, for any finite set of payments: `PartnersInv` adds `WindowOpened` (a
commission implies that the window of its seller is open, which then never moves) and
`ReadingExists` (what a validation has read exists, so that its late update creates no
commission). `TotalsInv` strengthens `PayoutIsSum` to every month, those without a payout
included (`TotalsAreSums`): what `build_payout` adds to when it creates a payout is 0. The
total of the commissions it takes over is added to a disjoint sum (`SumOfUnion`), and a
cancelled one was in no payout. `PayoutsReachMinimum` follows with it.

`SalesProofs.tla`: `LegalInv` adds to `WindowIsLegal` what the saves under way and the
lists of the tasks hold (`PendingLegal`): a window that was checked, or none for a sale
that exists. Two more invariants follow `raced`. `TrackInv` is about one sale: what two
workers have in hand is in `raced` (`RacesAreSeen`), and a sale that is not there is as
the worker that holds it believes, save or list (`PendingSound`, `ListsSound`); it gives
`LiveHasStarted` and `NoWayBack`. `RoomInv` is about several: `Hold` are the sales that
take orders and those a save under way will let take them. Those that were never
in flight together do not meet (`HoldDisjoint`) and keep to the day (`WithinDay`) and
to the plan (`WithinQuota`), and a save that moves a window still fits, on the day and
beside the others (`MoversFit`), though the rows it was checked against may have
moved since: then they were in flight with it. `WithinQuota` counts what claims a place
in the plan, which an edit does not change: that is why an edit need not look at the
plan. No bound on the number of sales or workers is used, but that sales are finitely
many. A sale that is closed leaves the count, as the rules count all that are not
cancelled: the theorems are about those that may take orders.

`BackOfficeProofs.tla` proves of `Payments` what is checked, which is inductive as it
stands, shows that the composition implements each part, and that what is proved of
the parts holds of it (`BackOfficeTypes`, `BackOfficeIsConsistent`).

Every safety property of the passing runs, invariant or action property, and both
refinements are stated by a theorem. Left to TLC: `StaleOrdersEnd`, `CashedIsSettled`,
`SilenceIsConsent` and `OrderIsAnswered`, as liveness under fairness is out of the
prover's reach. The six violations are counterexamples and need no proof.

## 6. What the proofs and the checks do not say

They speak of the model. Each definition lists in `PROJECT.json` the lines it was
translated from; whoever changes those lines should read it again. What
PostgreSQL does is modelled from how the code uses it: row locks are exclusive,
an UPDATE waits for them, a rollback leaves nothing.

## 7. Not modelled, and why

`src/` has some 62 000 lines, of which the models stand for a small part: most are
tests, migrations, pages, forms, admin screens, reports, seeds, scripts and
settings. What is left out of the rest:

* **Django admin**: edits of rows by the team, which may set any status of an order or
  of a sale.
* **Flash sales**: the links to products (in `Orders`); the statuses `executing` and
  `completed`, which no request sets and which end a sale as `closed` does; interests
  and their reminders; that the closing task gets to every late sale (the task is in
  the model, its liveness is not checked).
* **Partners**: attribution of a seller to a partner, places of founders (counted
  under the lock of one partner only, see the hazards), access links, statements.
* **Allocation**: prices, photos. **Settlement**: receipt codes, and the commission
  due to the platform, which is set and cleared with the status of the line.
  **Payments**: the signature of callbacks. **Subscription**: plans set by hand.
  **Products**: archiving, prices, images.
* **Accounts, one-time codes, rate limiter**: single counters in the cache with
  expiries inside the cache server; no other state relies on them.
* **Notifications, analytics, assistant, dashboards, pages**: they write nothing
  that the code above reads before it changes state.
* **Deployment, scripts, settings**: no behaviour of their own beyond the periods
  and limits quoted above.
