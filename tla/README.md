# Verification of FashionAI_BE

FashionAI_BE is a NestJS backend (TypeScript, PostgreSQL through Prisma, Redis and
BullMQ) for a made-to-measure fashion shop: orders, coupons, payments (SePay bank
transfers, MoMo, ZaloPay), refunds, shipments by GHN, memberships, AI try-on with daily
quotas, chat, accounts. Its hard part is seldom a single handler. Customers on several
devices, administrators, cron jobs, payment providers and the carrier write the same rows
without waiting for each other, and a handler acts on columns it read before an `await`.

Paths below are relative to `src/` of the repository; file names without a directory are
those of `src/src/modules/*`. `PROJECT.json` lists every component with its status and,
under `hazards`, the places where the code is hard to test, each with the properties that
watch it.

## 1. Inventory

| Component | State it keeps | Operations | Behaviours that are hard | What makes it correct |
|---|---|---|---|---|
| Orders, payment phase (`orders.service.ts`) | `orders.status`, `payment_status`, `refund_status`, `checkout_url`; `order_events` | `create`, `cancel`, `expireUnpaidOrders`, `updateStatus` | conditional UPDATEs race with writes by id; checks before the transaction | one outcome per order; nothing overwrites a payment |
| Checkout (`quote`, `create`) | quote tokens, `orders`, `order_idempotency_keys`, `coupon_redemptions` | quote, create | prices, coupon and address change between quote, reads and transaction; repeated requests | one order per key; a discount has its redemption; lines add up |
| Coupons (`coupons.service.ts`, `coupon-redemption.util.ts`) | `coupons.used_count`, `coupon_redemptions` | claim, release, edit, remove | last use, double release, release of a paid order | counter = redemptions, never above a limit |
| Payments (`payments.service.ts`) | `payments`, `webhook_events`, `webhook_failures` | IPN, bank webhook, manual confirmation, void, checkout, gateway callback, reconcile query | repeated and concurrent reports, relinked rows, a stop between two statements | paid once, money on record and never written over |
| Payment gateways (MoMo, ZaloPay) | links, transactions | create, query, refund | unknown outcome, repeated callback | outside the server |
| Refunds (`updateRefund`, `refundGatewayPayment`, `finalizeGatewayRefund`) | `refunds`, `orders.refund_status` | reserve, send, finalize, reopen | two refunds at once, unknown result, by hand next to the gateway | never more than was collected; records agree with the gateway |
| Order issues (`order-issues.service.ts`) | `order_issues` | open, review | compensation by hand after a failure | resolved when the money is back |
| Fulfilment, delivery disputes, measurement review (`orders.service.ts`) | later statuses, `delivery_disputes`, `order_items.measurementReview` | `updateStatus`, `confirmDelivery`, disputes, reviews | writes by id after a check | no step back; refund owed when given up |
| Shipments (`shipping.service.ts`, `admin-shipments.service.ts`, `createShipment`) | `shipments`, `webhook_events` | create, cancel, webhook, sync, track | events late, twice and out of order; two creations; lost answers | the order says what the parcel does |
| Delivery addresses (`user-addresses.service.ts`) | `user_addresses` | create, update, remove, setDefault | several devices; only a row lock | one default |
| GHN location catalog (`ghn-location-sync.service.ts`) | runs, locations, metadata, publications | sync, reconcile, read by revision | two runs, a dead run, publication between two reads | a revision is one whole copy |
| Memberships (`subscription.service.ts`) | `subscriptions`, `users.tier` | buy, schedule, cancel, resume, nightly cron, reminders | statements of the cron against payments and the user | a payment takes nothing away; due plans start and end |
| Live try-on (`live-try-on.service.ts`) | budgets, sessions, leases | create, pause, resume, end, settle | a token is issued between two transactions; settle races with end | budget never exceeded, nothing reserved for ever |
| AI studio and quota (`try-on`, `stylist`, `chat`, `quota.service.ts`) | Redis counters, `daily_usage`, `try_on_results` | guard, lock, cache, provider, consume | check, then act; Redis outages; locks that expire | what is given stays near the limit, what is charged was given |
| Redis lock and cache (`redis.service.ts`) | keys | get, set, incrBy, acquire, release | memory fallback; release of another's lock | modelled where it is used |
| Sessions (`token.service.ts`, `auth.controller.ts`) | `refresh_tokens`, grace, block and blacklist keys | login, refresh, logout, revoke | one token sent twice; a revocation in between | a retry is served, a revoked session stays out |
| Accounts (`auth.service.ts`, `users.service.ts`) | users, codes, attempts, reset tokens, roles | register, verify, reset, change role | codes replaced while they are used; check and write apart, a stop between two statements | nobody is locked out |
| Cart | `cart_items` | add, merge, update, remove, clear | counted before, capped after in a statement of its own | the cart fits in an order |
| Order chat | messages, unread counters | send, markRead | three statements beside arriving messages, and a stop between them | the counter is what is unread |
| Sale campaigns | campaigns, items | create, update, remove, resolve | overlap check without a lock | no overlap one after another; one price |
| Products and collections | products, pictures, collections | create, update, remove, pictures | counts outside the transaction | one main picture |
| Reviews | reviews, rating | create, update, remove | statistics read by another connection | rating behind by one change at most |
| Outbox and mail queue | `outbox_events`, BullMQ jobs | enqueue, handle, retry | a stop between commit and enqueue, stalls, retries, refused and suppressed mails | accepted work is done |
| Notifications, realtime, push | sockets, timers, `device_tokens` | connect, renew, disconnect, push | timers against renewals; a device that changes hands | reaches only its user |
| Maintenance | – | the crons | their overlap with requests | in the modules they serve |
| Rack and measurements; reports, analytics pages, storage, health | their tables | single statements, reads | none | not modelled (section 6) |

Interaction. `create` claims a coupon and opens the placeholder row in `payments`; a
checkout links that row to a gateway; payment reports write `payments` and `orders` in one
transaction, and an order for a tier then goes through `createOrExtendSubscription`;
cancelling an order expires its payment rows and releases the coupon; a paid order enters
measurement review and fulfilment, feeds the outbox and empties the cart; the carrier's
events move the shipment and, forward only, the order; disputes, issues and refunds rewrite
`orders` and `payments` afterwards. The Redis lock serves the AI studio, the location sync
and the shipment sync.

## 2. Modules

| Module | Contents |
|---|---|
| `OrderFlow` | order statuses, transitions of `updateStatus`, collected payment statuses; shared by the next three |
| `OrderPayment`, `CouponPool`, `MCOrderPayment` | the payment phase of product orders; the abstract pool of coupons it implements; instances |
| `Refunds`, `MCRefunds` | refunds of one paid order by hand and through the gateway, the cron that settles them, order issues and their review |
| `Fulfilment`, `MCFulfilment` | one paid order from measurements to delivery, its shipment, the carrier, disputes |
| `Membership`, `MCMembership` | one user's plans: orders for a tier, their payment, the nightly cron, reminders |
| `LiveTryOn`, `MCLiveTryOn` | live sessions, their budgets, the lease and the settling cron |
| `Checkout` | from the quote to the order |
| `AddressBook`, `Sales`, `Cart`, `OrderChat`, `AiStudio`, `Locations`, `Catalogue`, `Accounts`, `Sessions`, `Outbox`, `Notices`, `Reviews` | one service each |
| `Services`, `MCServices` | each of those services and `Checkout`, side by side; an instance |
| `OrderPaymentProofs`, `LiveTryOnProofs`, `FulfilmentProofs`, `MembershipProofs` | theorems about those modules |
| `RefundProofs` | theorems about `Refunds`: sums over its table, types, agreement with the gateway, money |
| `CustomerProofs` | theorems about `Checkout`, `Cart`, `AddressBook`, `OrderChat`, `Reviews` |
| `PlatformProofs` | theorems about `Outbox`, `Notices`, `Catalogue`, `Accounts`, `Locations`, `Sessions` |
| `StudioProofs` | theorems about `AiStudio` |

Conventions. A request is a job of a handler, cut at every `await` that separates a read
from a later write: the reading step stores what the handler keeps in local variables
(`job`), a later step acts on it. A database transaction is one step where the rows it
writes first keep the others out until it commits; where that is not so (`Refunds`,
`Reviews`, `OrderChat`) it is cut as well, and the module says so. A request that only reads
is an action only if the answer is remembered. `Crash` ends a request between any two of its
steps, the server having stopped or a statement having failed. It is left out where a request
reads and then writes once, in one statement or transaction (`Checkout`, `AddressBook`, `Sales`,
`Reviews`, `Catalogue`): one that is interrupted leaves nothing of itself, which is also a
behaviour of a request that never goes on. `Notices` has none because its sockets and timers
end with the process; in `Outbox` the queue notices the death of its worker (`WorkerDies`). Definitions keep the names of the code. Beside some definitions stands a *mutated
form*: what a plausible mistake would have made of them, with which the properties are
tested; no specification uses one.

### `OrderPayment`

Variables `status`, `paymentStatus`, `refundStatus`, `checkoutUrl` are columns of an
order; `redemption`/`usedCount` the coupon tables; `rows` the `payments` of an order,
named by how they came to be (the `PLACEHOLDER` of `create`, the row `CONFIRMED` by a
bank payment, the row of a `VOIDED` transaction, or the row a checkout created for a
link); `orderEvents`, `failures` (`webhook_failures`) and `webhookEvent` the logs.
`provider`, `transfer`, `overdue` are the world: links at the gateway, money sent to the
bank account, age of the order.

* `BankRead`/`BankClaim` are IPN, bank webhook and manual confirmation; `VoidRead`/`VoidWrite`
  are `markOrderCancelled`; `AdminRead`/`AdminWrite` are `updateStatus`; `CheckoutRead` …
  `CheckoutSave` are `createCheckoutLink`, `resolveProductOrder` and
  `createGatewayCheckoutLink`; `CallbackStart` … `CallbackDone`, `FailureRead` and
  `FailureWrite` are `applyGatewayPaymentResult`, called by a callback or a query.
* A transaction is one step: every modelled transaction that can meet another one on the
  same order (`processOrderSuccess`, `cancel`, `expireUnpaidOrders`, `markOrderCancelled`,
  `updateStatus`) writes the order row first and keeps its lock. The single statements of a
  checkout take no such lock and are steps of their own.
* `Cancel` and `ExpireUnpaid` are single steps: their condition is the WHERE of the UPDATE;
  the read before it only chooses the error message.
* A transfer is `EXACT` or `WRONG`. A gateway collects what the link asked for, so its
  `AMOUNT_MISMATCH` and `REQUEST_ID_MISMATCH` branches are left out. `expectedStatus` of
  `updateStatus` is never sent, which allows more than a client that sends it. One bank
  transfer and one voided transaction per order. Cart clean-up, GA4, notifications and mail
  after the claim are best effort and write nothing the model has.
* The model stops where fulfilment begins.

### `Refunds`

The order is paid and delivered; `row` and `gateway` are status and provider of its collected
payments: `Main`, and the `Extras` whose `paymentData.refundScope` is `PAYMENT_ONLY`.
`refund` is the table of refunds in the order of `requested_at`, `issue` the status of each
order issue, `provider` what the gateway really did with a refund. The field `then` of a job
says which step of `review` called `updateRefund`.

* `updateRefund` is `StartRefund`, `ReadRefunds`, `WriteRefund`, `CommitRefund`. Its
  transaction reads sums first and reaches the order row last, so the sums of two of them
  can be read before either commits; the refund row it locked makes others wait
  (`Unlocked`).
* `review` is `ReviewRead` … `CompleteOpenRefunds`, with `reopenRefundNotReceived` as
  `ReopenRead`, `ReopenWrite`, `ReopenCommit`; a call that throws inside the try block
  leads to `ReviewRollback`.
* `refundGatewayPayment` is `GatewayRead` … `GatewayError`; ZaloPay answers "processing" or
  refuses, MoMo answers with the result. `finalizeGatewayRefund` is `FinalizeClaim` and
  `FinalizeCompleted`/`FinalizeFailed`, called by the cron (`CronTake`, `CronQuery`) or by an
  administrator (`FinalizeManually`), who is assumed to look at the gateway first.
* Left out: evidence, receipts, bank details, mails, the windows of seven days, withdrawal of
  a return, replay of an idempotency key. Every payment collected `Price`.

### `Fulfilment`

`status`, `refundStatus`, `review`, `dispute`, `shipment`, `seen` (keys of `webhook_events`)
are the order's rows; `history` is the parcel at the carrier, an external party that moves it
as its table of statuses allows. Webhooks are not a bag of messages: any event ever recorded
may be delivered at any time, again, late or never (`WebhookRead(h, k)`). `StatusRead` …
`StatusWrite` are `updateStatus`, with the check of open reviews between; `ReviewRead` …
`SubmitWrite` the measurement requests; `CreateRead` … `CreateSave` `createShipment`, whose call may fail before or after the carrier acted; `CancelRead` … both `cancelShipment`;
`EventWrite` `handleShippingStatus`, shared by the webhook and `SyncRead`, `SyncAsk`,
`SyncFound` (`syncActiveShipments`, one run at a time under its lock); `TrackRead`/`TrackWrite`
`getTracking`; the rest confirmation and disputes. `allowedActions` is what the order page
offers (`toPublicOrder`). Fees, addresses of the shipment and the seven days of a dispute are
left out, and so is what limits a round of the sync: shipments younger than 30 days, not asked
about for five minutes (the tracking page counts as asking), 25 at a time.

### `Membership`

Money is in thousands of VND, time in days. `order` holds the orders for a tier, `sub` the
row of `subscriptions` each of them leads to. `PayRead`/`PayWrite` are the
claim of `processOrderSuccess` with `createOrExtendSubscription` in the same transaction,
which reads the plan that ends last and writes before it commits: two steps, because the row
it reads is not locked. `RemindRead` … `RemindMark` are `sendRenewalReminders`; `Toggle`,
`Resume`, `Unschedule` are `cancelAutoRenew`, `resumeAutoRenew`, `cancelScheduledSubscription`;
the nightly cron (`expireSubscriptions`) reads a list and writes row after row, in the two
statements of the code; the reminder cron reads, mails and marks. Proration
(`calcUpgradeProration`, rounding up to 1 000 VND) is computed, not abstracted.

### `LiveTryOn`

One quota day. `budget` has the reserved and the charged seconds of each user and of everybody,
`sess` the sessions, `lease` the one session a user may have, `job` what a request keeps
between its transactions: reserve, issue the token at the provider, store it. `Control` is
pause, resume and end; `Cron` the settlement of sessions nobody ended; `SetPolicy` the
administrator's switch. Decart, the provider, is external: it issues, fails or does not
answer. A session stands for the idempotency key that creates it.

### `Services`

The services share no rows, keys or locks. `Services` declares their constants and variables
under their own names, takes each service as an instance, and has a variable `scope`, chosen
at the start: a behaviour is one service's, and the variables of the others stay idle (a name
that several declare, such as `job`, stands for the one in scope). A property of a service is
stated and explained in its own module; `Services` says `scope = ... =>` that property.

* `Checkout`: `quote`, `create` as `FindKey`, `ReadPrice`, `ReadCoupon`, `Place`, with the
  signed token, and the shop's and the customer's edits in between. One product in colors.
* `AddressBook`: checks, the carrier's probe, then `Begin` (takes `lockUser`) and `Commit`.
* `Sales`: `create`, `update` read the campaigns in the way and write later; `resolveSale`
  is computed for the rows in every order.
* `Cart`: `addItem` is find, count, upsert, cap; the other handlers are one statement. A
  request that dies before the cap leaves its line in `uncapped`.
* `OrderChat`: a message is dated when its transaction begins and becomes visible at its
  commit; `markRead` is count, mark, subtract, and what it marked is in `forgotten` when it dies
  before the third.
* `AiStudio`: the handlers of try-on, stylist and the two chats are sequences of the same
  steps (`Flow`): guard, lock, cache, provider, save, consume, release; Redis goes and comes,
  and the process has counters and locks of its own while it is away. A lock expires in the
  store that keeps it, one at a time. An operation of the store in the process, a get and a
  set with no I/O between, is one step.
* `Locations`: a run allocates a generation, its workers fill it, `Publish` reads the
  metadata and stores the next revision; locks expire, workers fail, servers die, and the
  carrier may answer without a ward. Readers name a revision or none.
* `Catalogue`, `Reviews`: pictures and collections; reviews with the statistics their
  transaction reads through another connection. Replies and notification marks are left out.
* `Accounts`: registration, codes, attempts and cooldown, Google login, reset tokens, roles, and
  a stop between the statements of each.
* `Sessions`: `refresh` is mark (the grace key), delete, issue; a revocation is block,
  delete, blacklist; keys expire in the order they were set; Redis may go (`Switch`).
* `Outbox`: the row and the BullMQ job of an event or a mail; the worker's attempts, stalls and
  death; jobs refused as malformed (`Refuse`) or too old (`Discard`), and those with nothing to
  send (`Skipped`: no tracking, no mail key).
* `Notices`: a socket, its timers and renewals; device tokens and pushes with their tickets.

## 3. Runs

| Run | Instance | Question |
|---|---|---|
| `Race` | 1 order, 2 links, 2 requests at once, bank + checkout; 0.9 M states | Is an order paid twice, is recorded money written over? |
| `Coupon` | 2 orders, a coupon with one use, 2 requests at once, bank + void + administrator; 0.9 M states | Is the counter right, is the coupon released, is the outcome single, is the abstract pool implemented? |
| `Progress` | 1 order with coupon, 1 link, 2 requests at once, manual + administrator + checkout, fairness; 0.17 M states | Does an abandoned order return its coupon, does collected gateway money end on record? |
| `RefundIssues` | 1 administrator, cron, a defect and a refund not received, 2 refunds, 1 failure; 5.6 M states | Is an unpaid order shown as refunded, an issue resolved too early? |
| `RefundGateway` | 1 administrator, cron, 2 payments (one PAYMENT_ONLY), 2 refunds, 1 failure, fairness; 0.27 M states | Do records agree with the gateway, is too much paid back, do doubts end? |
| `Fulfilment` | 1 item, 1 administrator, 2 customer requests, 1 webhook handler, 4 carrier events, 1 failure; 0.8 M states | Is the order's status true to the parcel, and does an order given up owe its money? |
| `CarrierSync` | administrator, tracking page and cron, no webhook, 6 carrier events, 1 failure, fairness; 1.8 M states | Is a delivery noticed when every webhook is lost? |
| `Membership` | 3 orders, 2 months in steps of 28 days, nightly cron, reminders, 1 failure, fairness; 0.28 M states | Does a payment ever take a tier or its days away, do due plans start and end? |
| `LiveTryOn` | 1 user, 2 sessions, 1 client request, cron, budgets of 2 and 3 s, 1 failure, 1 policy change, fairness; 0.47 M states | Is a budget exceeded, is a second reserved for nothing? |
| `Services` | 2 requests at once and 1 that dies in each service; 3.0 M states | The sixteen properties of the services |
| `LineTotals`, `Replacement` | 1 order | Two promises the code does not keep (section 5) |

**Why the bounds are enough.** The races of this code are between two requests: one that
read and one that wrote in between, or two that read the same. A third party (customer,
cron, provider, clock) acts between any two of their steps without needing a handler. So
every run has two handlers, or one beside crons and parties that act by themselves. Two
links are what relinking a placeholder needs, the link that loses its row and the one that
takes it; two orders are what a coupon with one use needs. For refunds `Price` 2 is the
smallest amount that can be refunded in part (item 1, shipping 1); two refund rows are one
by hand and one at the gateway, or goods and shipping, or an old and a new one for the
same payment. Four carrier events reach a delivery, a return and a repetition; six a
delivery after one that failed. Three orders for a tier are a running plan, one
scheduled behind it and one that meets both; two months let a plan of 30 days start, end
and be followed. The two exceptions of `PaymentNeverTakesAway` (section 3) need more: a
plan that ended, the lower one that waited for its day and was given up while the cron had it on
its list, a better one bought meanwhile, and the one whose payment meets both. With three orders
the property therefore holds without them; the theorem covers any number, and with four
orders and no reminders, an instance of 4.9 million states that is not among the runs, TLC agrees with
it, and finds the statement without the exceptions violated. Budgets of two and three seconds make the limit of the user and of everybody bind
at different times. In the studio a
try-on has two pieces and the limit is three: after the first try-on the guard, which asks for one
more, lets the next in, and `assertQuota`, which asks for two, refuses it; the same pieces in the
other layers are a request of their own with the same cache key. One failure (`MaxErrors`) is a crash, a failed transaction or a lost answer
at any point. The bounds are parameters or definitions named in the MC modules, or the
numbers `MaxEvents`, `MaxErrors`, `MaxTime`, `LastDay`, `MaxOrders` of a configuration.

`CHECK_DEADLOCK FALSE` everywhere: when all orders are settled, all sessions closed, or a
bound of the instance is reached, the server has nothing left to do. Symmetry is used
where no liveness is checked: links, coupons, requests, handlers, and in `Services` the pair of
rows each service has (two orders, lines of a cart, users, collections, products, provinces: in
a behaviour one service is in scope, so the same two model values serve all).

The passing runs of refunds have one administrator, whose requests follow one another: with
two the bound is broken (section 5). The run of fulfilment has one to stay small; its theorems
(section 4) hold for any number.

**Fairness.**

* `OrderPayment`: an accepted request goes on (`WF Continue`: Node schedules it, `Crash` may
  still end it); the expiry cron runs again and again (`@Cron` in `maintenance.service.ts`,
  `WF ExpireUnpaid`); a gateway repeats its callback until it is answered, and the
  reconciliation cron queries links for seven days (`SF CallbackStart`, because each attempt
  may find the handlers of the instance busy; `WF` for the two reports that need none).
* `Refunds`: the reconcile cron runs every minute, a transaction that holds a refund row ends.
* `Fulfilment`: the shipment sync runs every five minutes (`CarrierSync` only).
* `Membership`: the nightly cron goes on. `LiveTryOn`: the settling cron runs each minute,
  and time passes.

Customers, administrators, the carrier and the providers are under no obligation anywhere.
Where a cron reads a list and works through it, fairness is asked of its steps together,
since it is one loop.

**Properties of the orders.** `PaidOnce`: `payment_status` is PAID exactly when exactly one
payment row is PAID, and money behind that row really arrived. `RecordedMoneyStays`: rows
that record collected money keep status and transaction. `CouponAccounting`,
`ReleasedIfUnpaid`, `OneOutcome`, `ImplementsCouponPool`: section 4. `AbandonedCouponReturns`,
`CollectedMoneyOnRecord`: liveness. `NeverOverRefunded`: what the gateway moved plus the
transfers recorded by hand stay within what was collected, per payment.
`RefundedIsPaidBack`: an order shown as REFUNDED has completed refunds for the whole price
(for an order without PAYMENT_ONLY payments: `finalizeGatewayRefund` adds their refunds to
the order's total, although the plan, G-7, says they must not count). `GatewayTruth`:
COMPLETED exactly if the money moved, FAILED only if not. `IssuesResolvedLast`: no issue
is resolved while a refund by hand is open. `DoubtsSettled`: a refund ZaloPay decided on does
not stay in progress. `OnTheWayIsPickedUp`, `GivenUpOwesRefund`, `CarrierNeverCallsBack`:
section 4; `DeliveryIsNoticed`: an order whose parcel was delivered does not stay
READY_TO_SHIP or SHIPPING, unless the code of the shipment was never stored, or the tracking page
has made the shipment DELIVERED, after which the sync never asks about it (section 5). `PaymentNeverTakesAway`: the payment of an order for a tier brings the end of the tier no
nearer, unless a plan that ends later was started after the payment read the last one
(`Overtaken`), and lowers no tier either, unless that last plan is one the cron started and the
user was not told of (`Behind`); section 5 names both cases. `NightlyWorkIsDone`: a scheduled plan that is due starts, a tier that
ended becomes FREE. `NeverOverLimit`: section 4; `ReservedIsHeld`: what is reserved is at most the sum of
what unsettled sessions hold (at most, because the code may give a reservation back twice, section 5); `ReservationEnds`: no reservation lasts for ever.

**Properties of the services.** `OneOrderPerKey` (a key stands for the order it was
answered with), `DiscountIsClaimed` (an order with a discount has its redemption),
`OneDefault`, `OverlapIsHarmless` (campaigns overlap only when they were checked at one time,
or one was changed by two requests at once, and even then the price does not depend on the order the rows are read in), `CartFitsAnOrder`, `UnreadIsCounted`,
`QuotaFollowsResults`, `BoughtOnce` (of one picture there is one stored result, and one more for each lock that
expired and each outage of Redis), `RevisionIsOneWholeCatalog`, `OneMainPicture`, `NobodyLockedOut`, `AcceptedIsDone`,
`ReachesOnlyItsUser`, `RatingIsOneBehind`, `RetryIsServed`, `RevokedStaysOut`.

Several of these hold only outside a race that the code leaves open and that section 5
names. Such a property is then stated for histories without that race, and the module
remembers in a variable whether it happened (`together` in `Checkout`, `Sales` and `Accounts`, `crowded` in
`Cart`, `blurred` in `OrderChat`, `late` in `Sessions`, `overlapped`, `confused`, `swapped`): the property says how far
the promise reaches, and everything else the requests can do to each other is still
checked. A stop between two statements is counted in the same way where it changes what is true
afterwards: `uncapped` in `Cart`, `forgotten` in `OrderChat`, `spared` in `Accounts`.
`RevokedStaysOut` speaks of histories without an outage, a crash or an expired token (`faults = 0`), and
`AcceptedIsDone` names the mails that are never sent: refused as malformed, too old, or suppressed
because there is no mail key. In the run of `Checkout` the limit per user binds; that two customers
compete for the last use of a coupon is the run `Coupon`.

For every property of a passing run a mutated form of a definition exists, beside the
original, with which TLC finds the property violated in the same instance.

## 4. Proofs

TLAPS proves, for every value of the constants, that is for any number of orders,
coupons, links, requests, administrators, sessions, events and failures:

| Theorem | Module | Statement |
|---|---|---|
| `TypeCorrect` | `OrderPaymentProofs` | `Spec => []TypeOK`, inductive by itself, one lemma per group of actions |
| `CouponsCounted` | " | `used_count` is the number of holders and at most the limit |
| `UnpaidReleased` | " | a cancelled unpaid order holds no coupon |
| `OutcomesExclusive` | " | paid, cancelled by the customer, expired: at most one, ever |
| `PoolRefined` | " | `OrderPayment` implements `CouponPool` |
| `MoneyPaidOnce` | " | `PAID` exactly when one payment row is, with money that arrived |
| `MoneyStays` | " | no row that records money is written over |
| `LiveTypes` | `LiveTryOnProofs` | type correctness of `LiveTryOn` |
| `LimitsKept` | " | reserved and charged seconds stay within the limits of the user and of everybody |
| `ReservedIsHeldHolds` | " | while no request died, what a budget reserves is held by sessions or by ends that give it back |
| `OnTheWayWasPickedUp` | `FulfilmentProofs` | an order is SHIPPING or DELIVERED only if the carrier picked its parcel up |
| `RefundIsOwed` | " | a paid order that was given up owes its refund |
| `CarrierOnlyForward` | " | the carrier never moves a closed order |
| `TypeCorrect` | `RefundProofs` | type correctness of `Refunds` |
| `GatewayTruthHolds` | " | a gateway refund is COMPLETED only if the money moved, FAILED only if it did not |
| `NeverOverRefundedHolds` | " | with one administrator, a payment is never paid back twice |
| `RefundedIsPaidBackHolds` | " | with one administrator and no PAYMENT_ONLY payment, REFUNDED means the whole price is paid back |
| `IssuesResolvedLastHolds` | " | with one administrator, no issue is resolved before the refunds by hand are made |
| `PaymentNeverTakesAwayHolds` | `MembershipProofs` | paying for a plan takes no day and no tier away, but for a plan the cron started meanwhile or did not tell the user of |
| `OneOrderPerKeyHolds` | `CustomerProofs` | an idempotency key has one order, unless two requests carried it at one time |
| `DiscountIsClaimedHolds` | " | an order with a discount redeemed the coupon, which is counted and limited |
| `CartFitsAnOrderHolds` | " | the whole cart fits one order, but for a line about to be capped, or whose request died before it, or two requests that added at once |
| `OneDefaultHolds` | " | an address book with an address in it has one default |
| `UnreadIsCountedHolds` | " | the counter of a side is the number of messages it has not read, and those a reading that died forgot |
| `RatingIsOneBehindHolds` | " | the rating shown is at most one change behind, while changes do not overlap |
| `AcceptedIsDoneHolds` | `PlatformProofs` | a job that was accepted is done, or every way of doing it failed, or it is one that is never sent |
| `ReachesOnlyItsUserHolds` | " | a push reaches its user's devices only, a socket lives as long as its token |
| `OneMainPictureHolds` | " | a product with pictures has one main picture, the garment, while changes do not overlap |
| `NobodyLockedOutHolds` | " | the code mailed last works, an administrator remains, a link works once and once more per request that died, unless such requests meet |
| `RevisionIsOneWholeCatalogHolds` | " | a revision of the locations is one copy, whole but for empty answers, whatever runs, dies or straggles |
| `RevokedStaysOutHolds` | " | no token opens a session again once it was revoked, but for requests already under way and after a fault |
| `RetryIsServedHolds` | " | a refresh sent again within its minute is answered |
| `OverlapIsHarmlessHolds` | " | campaigns overlap only when checked together or changed twice at once, and show one price |
| `BoughtOnceHolds` | `StudioProofs` | with a real provider, of a picture there is one result and one per expired lock and outage |
| `QuotaFollowsResultsHolds` | " | what is given overruns the limit by what the requests in flight explain; nothing more is charged |

Assumptions: `ChannelsAssumption`, `OrdersAssumption` (finitely many orders, for
`Cardinality`), `CouponAssumption` and `LinksAssumption` ("none" is not a coupon or link),
`MembershipAssumption` (the bounds are natural, a step of the clock is at least a day),
`LiveTryOnAssumption` (numbers are natural, every session has its user, sessions and requests
are finitely many, for the sums over them), `FulfilmentAssumption` and `RefundsAssumption`
(numbers are natural, an order has a price). `ServicesAssumption` (limits, the quotas among them, are natural, a product has finitely many
lines, finitely many requests run at one time, no key is no key, no request is called like
the free lock, campaigns and moments are numbers, the shop starts with an administrator). TLC evaluates them in the
runs. `BoughtOnceHolds` has the hypothesis `~Mock`: the mock's result is returned without
`await`, so its lock is released before the result is stored (section 5), and the run has a
real provider too. The three theorems about the money of `Refunds`
(`NeverOverRefundedHolds`, `RefundedIsPaidBackHolds`, `IssuesResolvedLastHolds`) have two
hypotheses of their own. `Alone` says that there is one administrator: two who record
the same transfer at once are not stopped by the code (section 5), so the statement is false
without it; any number of cron rounds and of the administrator's requests, one after the
other, remain. `Extras = {}` says that no payment is PAYMENT_ONLY, because such a payment's
refunds are added to the order's (section 3, `RefundedIsPaidBack`). The runs have the same
instances.

**Outcomes and coupons.** `OneOutcome` is not inductive: it needs to know that an order with
an outcome is no longer `Unpaid` (`OutcomeFacts`), and that in turn needs that no request
moves an order back to CREATED (`JobFacts`: an administrator's target is never CREATED;
what a job read about being paid stays true) and that an order nobody created has no
trace (`NewOrders`). `SafetyInv` is the conjunction of these with `TypeOK`,
`ReleasedIfUnpaid` and `CouponAccounting`. Lemma `Effects` reduces all actions to six
effects on an order (create, close, pay, void, admin, nothing of interest), so each
invariant is proved once per effect. Coupon counting uses the cardinality facts of
`FiniteSetTheorems`. The refinement maps `placed` to the orders with a status and `held`
to the redemptions; every effect is `Place`, `Return` or a stutter.

**Money.** `MoneyInv` adds three parts to `SafetyInv`. `RowFacts`: a row named by a link has that
link or does not exist, the row of a bank payment is PAID or not there, a row to be refunded
belongs to an order that is no longer unpaid. `MoneyFacts`: a request about to claim comes
from money that arrived, a checkout about to write a link is the only one that has it.
`PaidOnce` itself. Seen from the rows of one order, every step is one of five effects
(`RowEffects`: waiting, placing, claiming, voiding, linking), so each part is proved once per
effect; a claim finds the order unpaid and therefore no row that records money.
**Budgets.** The limit of a budget is kept although ends and settlements may meet, because
both reduce what is reserved by what the session reserved and add no more than that
(`SettlesWithinReserve`: what a session is charged never exceeds what it reserved), and a
reservation is made by a conditional UPDATE. `BudgetInv` is `TypeOK`, `NeverOverLimit` and
`SettlesWithinReserve`; releasing twice, which the code allows, only makes `reserved`
smaller. `ReservedIsHeld` compares the budget with two sums that a request moves between: it
takes a session out of the first when it writes the session ended, and itself out of the
second when it settles. `HeldInv` says that what such a request read of the session is still
its reserve, although the cron or another end wrote the session meanwhile, and that an end
which found nothing reserved had nothing to give back (`ReadsRow`); that a session once
created stays (`KeysUnused`); and the balance itself. The sums are folds over finite
sets: `SumsExist` and `FoldIsSum` show by induction on the parts of a set (`PartsInduction`) that the
fold adds every member once, `SumsDiffer` what a step that changes one of them makes of it.

**Fulfilment.** `FulfilmentInv` says what requests hold between their steps (`Jobs`): a
status an administrator is about to write is never one of the carrier's; a refund found
REQUIRED is still REQUIRED when the writer acts on it; an event a handler works on was
recorded before. With `Parcel` (the parcel's history begins with the pick-up when the
shipment has left) and `OrderFacts` (the order's status against refund, dispute and
parcel) each action is one lemma. `CarrierOnlyForward` then needs only the guard of
`EventWrite`: the compare-and-set on the status read.

**Refunds and the gateway.** `GatewayTruth` speaks of what the gateway did and what the shop
recorded, with a request, a query, a cron round or an administrator between. `TruthInv` says
for each row what may be known of it: a row not yet asked for has nothing moved (`Unsent`,
and `SentOnce`: no two requests are about to ask for the same row), a request that heard an
answer heard a true one (`JobTruth`), and rows by hand have no answer. Steps are grouped by
what they write (nothing, the order, the status of a row, a new row, the gateway's decision),
and each group is proved once.

**Refunds and the money.** `NeverOverRefunded` is about sums, which change under a request
that has read one. `MoneyInv` says what a sum read earlier is still worth: the sums of
`updateRefund` are below what the table has now only if nobody else can add to it (`Hand`:
a refund it completes leaves nothing at the gateway, and the row it writes is still open);
the amount a gateway refund reserves fits into what is left (`Asks`); what a finalization
counts includes what it completes (`Claimed`); two transactions never hold one row (`Locks`);
the status written to the order is true of the sums (`StatusTrue`). The sums themselves are
`Total`, a recursive function on the rows of a sequence; `RefundProofs` proves by induction on its
length (a least counterexample among the naturals, `Induction`) that it exists, what a
changed row and an added one make of it, and that it grows with the rows it counts.

**Plans.** What a payment does is decided by a row it read before (`createOrExtendSubscription`
locks nothing), while the customer gives plans up and the cron starts them by id. `DatesInv`
says what that row is still worth. No order is made while a plan waits whose day has passed, so as
long as an order is open or a request makes or pays one, every scheduled plan has its day before it
(`Future`): a plan the cron starts today is one due today, and ends when the copy in a payment's
hands says (`ReadRow`, `PayApart`). Every tier that has not ended ends with a plan that runs
until then at least (`Promised`), and so does the tier the cron is about to grant. With
`TiersInv` (nobody orders FREE, and a row that waits or runs has a tier that was bought) the last plan
read is then the one that carries the tier, unless it is `Overtaken` or `Behind`. Steps are
grouped by what they do to plans (only end them, add one, start one, let time pass).

**Services.** Each has an inductive invariant of its own. `CheckoutInv`: a key that has no
order was used by no order, a request past its look for the key found none (unless another
carries the key), only a request with a coupon has a discount, and `used_count` is the
cardinality of the redemptions. `CartInv`: a line above its limit has a request at `CAP` or one that died there, and
what is in the cart together with what any one request is about to add fits, unless `crowded`.
`AddressInv`: the request that writes holds the customer's row, so the book is still the one
it read; `Book` (own ids, one default) is then kept by each of `Created`, `Updated`, `Removed`
and `MadeDefault`, one lemma each. `ChatInv` (`UnreadCounted`): between the marks
and the subtraction of a reader its side's counter is ahead by exactly what it marked (for good, in `forgotten`, if it dies), and
what is being sent meanwhile comes after what it counted. `ReviewInv`: while changes do not overlap, one request at most has read the statistics,
which are those of the reviews, and nothing but the last change is missing. `OutboxInv`: the
failed attempts are those made, until the mail is asked for again; a job that is done delivered, was too old or had nothing to send. `SocketInv` and `PushInv`:
the timer that runs is that of the installed token; the devices a push holds were its user's
when it read them. `PicturesInv`: while changes of pictures do not overlap, what a request
read of them still holds when it writes (the picture it removes is the main one or not, is
not the last one; the pictures it demotes have the main one among them). `CodesInv`: while a
code is being made nobody else makes or uses one, the guesses counted in Redis are at most
those made at the code mailed last, and who drops or clears a code finds none due. `RolesInv`:
who is about to demote an administrator leaves another one. `ResetsInv`: a link that was
used and can still be found is about to be deleted, or the request that would have deleted it died. `LocationsInv`: a request that copies the
carrier's catalog has a copy of its own, which is not published and which no worker left over
from a failed run writes; what that copy holds, the wards in hand and the provinces still to do
make up the whole (`SyncStands`), so what is published is whole, stays as it is (`CopiesInv`),
and what a reader read of the metadata was published at that revision. `SessionsInv`: what
each request of `refresh`, login or revocation has still to do, and what it knows of the token
it was sent (the key it found, the grace it set, the block it asked for), and that, while
Redis stays up, behind the grace of every revoked token there is the block that keeps its user
out (`Covered`). `SalesInv`: what a request checked still holds of every campaign it was not
checked together with, and of its own campaign what it does not write is as it read it, unless
another request changes it; the price is a fold over the rows, which a scan of any order of
them computes (`ResolveIsScan`, `ScanIsBest`), because `isBetterSale` orders the campaigns.
`StudioInv`:
the requests that have the lock of a picture are no more than the two stores keep of it and
the locks of it that expired; the results of a picture and the requests past the look for
one, which will store one more, are together at most one, plus the expired locks and the
outages. A request that comes past the look found no result, so the second part follows
from the first; a deletion only takes from it.

**The quota.** The count of the day can be set back: a request that loaded the count before
others charged stores it afterwards. `QuotaInv` therefore does not bound what was given by
the counter, but by what can still come. A request is stale while it is about to store what it
loaded; it is in flight from its last check to its charge, and owes between its result and its
charge. While j requests are not stale, a counter that starts again lets through at most
`Width(j)`: the limit, and one use more of each of the other j - 1, which passed together;
`Depth(j)` is the sum of the widths down from j, because each stale request starts the counter
again once, and those after it are fewer. `Books` says that what was delivered, what is in
flight and what is still to come (`ToCome`), less what is owed, fit into `Depth(n)`, once more
for each outage of Redis, and what each request that died did not charge; and that each
counter, with what is owed to it, is at most what was delivered. `Books` is kept by each kind of
step, one lemma each (`BooksKeep`, `BooksPass`, ...); `Ledger` ties them to the actions of the
four kinds of request. The sums over requests are cardinalities of sets of pairs.

Five statements that TLC had found true of a small instance were not true of a larger one,
which the search for the invariants showed: the bound of `QuotaFollowsResults` forgot the requests that
still hold a count of before; `Expire` emptied both stores of a lock and counted as one; and
`BoughtOnce` allowed for deletions, which it need not; `PaymentNeverTakesAway` knew no plan
that the cron starts after it was given up, for which an instance needs four orders; and
`OverlapIsHarmless` forgot two requests
that change one campaign at once, each of which checks its own half (section 5), and the run,
with three requests, was too small to see them. They are corrected, and checked with larger
instances.

**Model-checked only.** The six liveness properties: `AbandonedCouponReturns`, `CollectedMoneyOnRecord`,
`DoubtsSettled`, `DeliveryIsNoticed`, `NightlyWorkIsDone`, `ReservationEnds`. Liveness under fairness and ENABLED
are out of the prover's reach. Every safety and action property of a passing run has a
theorem. Induction over data is out of reach too where a library theorem would have to take an operator: the sums and
folds that proofs need are therefore recursive functions or folds with lemmas of their own, and no module with a
theorem declares a recursive operator.

## 5. Where code and documents disagree

Two disagreements have a run that shows them:

1. `LineTotals`: `buildOrderPricing` keeps prices in a map keyed by `productId`
   (`orders.service.ts:1919`); a product ordered in two colours gets the total of the colour
   priced last on both lines, although the contract says `unitPriceVnd * quantity`
   (`docs/FE_HANDOFF_SPRINT2.md:62`).
2. `Replacement`: the order page offers a replacement shipment after a cancelled one, and
   cancelling asks for a reason such as "the customer changes the time, a shipment has to be
   created again" (`cancel-admin-shipment.dto.ts:5`); `createShipment` (`orders.service.ts:1487`)
   never sets `attemptNumber`, so the unique (order, attempt) refuses every second row.

The following behaviours were met while modelling. Each is in the models, as a behaviour the
property next to it has to live with; they have no run of their own.

*Payments.* A gateway success for an order cancelled meanwhile meets an EXPIRED row;
`markRefundRequiredIfCollected` marks PENDING rows only, although the migration plan (G-6)
asks for REFUND_REQUIRED; a `webhook_failures` entry remains. A bank transfer whose claim
loses against a cancellation is told "already processed", answered 2xx and recorded
nowhere. `markOrderCancelled` checks before its transaction and updates by id: a payment in
between is overwritten with CANCELLED, and the coupon of a paid order released. The
repetition of a callback that failed is answered DUPLICATE whatever the state of its event,
although the plan (G-4) says it is processed again. An administrator's CANCELLED decided on
an unpaid order can land on one paid in between without a refund obligation, and a status
decided before a cancellation can take the order out of CANCELLED.

*Refunds.* Two `updateRefund(COMPLETED)` at once each find nothing refunded and record the
whole amount. Two gateway refunds at once each sum what is reserved before their transactions
(`payments.service.ts:730`), and one started after `updateRefund` looked for them (`orders.service.ts:1089`) is not
counted by it; both need two administrators. When the shipping refund fails after the goods refund was opened, `review`
puts the issue back to PENDING and the goods refund stays; approving again adds the item
twice. `updateRefund` overwrites the status of PAYMENT_ONLY payments too; one that is owed back
becomes REFUNDED, and the refund endpoint then refuses it. `updateRefund(REQUIRED)` writes
back a payment status read before its transaction and can leave an order at REFUND_PENDING
after the cron completed its refund; `reopenRefundNotReceived` leaves gateway refunds out of
`amount_refunded_vnd`; a refund still PENDING when the server stops is never asked about by
the cron.

*Fulfilment.* A second submission of measurements can land after the confirmation.
`confirmDelivery` and `updateStatus` write by id and can overwrite a terminal status decided
meanwhile. The event key of the sync is the status and the time of the carrier's event (`shipment.service.ts:219`). When the compare-and-set of the webhook fails, the shipment is DELIVERED
and the order stays SHIPPING; a tracking page that sees the delivery first writes DELIVERED on the
shipment only (`orders.service.ts:1765`) and so hides it from the sync (`shipment.service.ts:174`): without a
webhook the order stays SHIPPING. An event read before a newer one commits moves the shipment back.
`createShipmentFromOrder` of `shipment.service.ts` is called by nobody; `cancelShipmentById`
only for an event type nobody enqueues.

*Memberships.* "The plan will be activated when the current one ends"
(`payments.service.ts:1610`) and "the difference was collected at checkout"
(`subscription.service.ts:387`) are decided when the order is made and may no longer be true
when it is paid. The cron starts the plans on its list by id (`subscription.service.ts:482`), also one the
customer gave up after the list was read: a better plan bought and paid for in between loses the user's tier
to it, and a payment between the two statements of the cron finds it running and renews the
lower plan. Two payments in one instant both read no current plan. A stop between
activating the row and updating the user leaves the user's tier behind. A customer who
renewed is still reminded. Two open orders pass the check that forbids stacking plans.

*Live try-on.* One session per user (`live-try-on.service.ts:208`) is checked before the
reservation. Ending twice, or ending while the cron settles, decrements twice. A paused
session that was settled can be resumed for free; a late answer of the provider revives a
session that was ended. The cron does nothing while the policy of members is disabled. The
repetition of a key is answered with a session that is still being issued.

*AI studio.* The cache key ignores the order of the layers
(`layer-role.util.ts:74`). The mock result is returned without `await`, so its lock is released
early. `assertQuota` can reset a counter another request raised; counters of an outage are
lost; a lock that expired is released whoever holds it by then.

*Sessions.* After a revocation a retry is refused up to 60 s. Grace and block are two keys: a
request that reads between their expiries sees one of them only. A refresh begun during
`revokeAll` outlives its block, a login under way leaves a live session behind. During an
outage each process has keys of its own. The exchange of a code reads, then deletes.

*Checkout, cart, chat.* The branch `IDEMPOTENCY_CONFLICT` (`orders.service.ts:187`) cannot be
reached. The address is resolved before the key, so a repetition fails when the address was
removed. A coupon rounded to nothing still costs a use. Two requests with one key at once
create two orders. A purchase between the upsert and the cap of `addItem` is undone in the
cart. A stop between the two leaves the line above its limit until it is written again
(`cart.service.ts:73`); a stop after `markRead` marked its messages leaves the counter ahead for good
(`order-chat.service.ts:305`). Two overlapping `markRead` subtract the same messages twice; a message dated before
the cutoff but visible later stays on the badge.

*Catalogue and accounts.* Two uploads leave two main pictures; two removals delete the last
one; names and slugs checked before the insert end in a 500. Two administrators who demote
each other leave none. A verification over the limit deletes the code that was sent after
it began. A reset token stays usable when the server stops between its two statements
(`auth.service.ts:187`). USER sent for an account that is no administrator is written without a count, so
one promoted meanwhile is demoted unchecked (`users.service.ts:174`).

*Sales.* Two requests that change one campaign at once, one its products and the other
`isActive`, each check the campaign with their own change only and write that change only
(`sale-campaigns.service.ts:141`): the campaign they make together may overlap another one,
which nobody changed meanwhile.

*Locations, outbox, notices, reviews.* A catalog revision is read in two statements; the
first publication may be served half filled; a run that lost its lock may publish after a
newer one, or after it was declared FAILED. An answer without wards is accepted in silence
(`ghn-location-sync.service.ts:172`), and who validates an address before the first publication is
served generation 1 as far as it goes (`shipping.service.ts:219`). An outbox row still PENDING when the server stops is never
enqueued; one that failed for good stays FAILED_RETRYABLE; a done one may become
FAILED_RETRYABLE; a mail asked for again within 24 hours of a failed one is dropped. Without `BREVO_API_KEY` a mail job is
done with nothing sent (`mail.service.ts:95`), a malformed one is given up after one attempt
(`mail.processor.ts:17`), and an error the worker cannot write to the row leaves the row as it was. A
renewal after the disconnect arms timers again; renewals that arrive out of order leave the
earlier expiry; a device that changes hands while a push is on its way loses its token; a
demoted administrator stays in the room of administrators. `avgRating` and `reviewCount`
are computed outside the transaction of the review (`reviews.service.ts:256`) and are one
change behind.

*Seen, not modelled.* One order of the expiry batch whose transaction throws ends the batch
(`orders.service.ts:577`). The reconcile cron writes back `paymentData` read before its query
(`payments.service.ts:1743`).

## 6. Not modelled

The user's rack and measurements: single statements on rows of one user. Reports, analytics,
storage, health: reads, and uploads to an outside service. The maintenance ping and the
removal of old try-on pictures. Search, filters and pages of lists; prompts and pictures;
signatures, headers and validation of requests: their result is data no property tells
apart. Where a component is listed as partly modelled, its note in `PROJECT.json` names what
is left out.

## 7. What would come next

In the models: `update` of a campaign and of an address read in two statements, which are one here;
a run of `Services` in which two services meet, such as a removed address in a checkout that
is under way.
