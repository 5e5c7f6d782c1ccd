# A verification project for jamicore

jamicore is a multi-tenant e-commerce platform: a Fastify server over PostgreSQL
(Drizzle, postgres.js) and Redis (BullMQ), with Svelte front ends. Everything the
business depends on is decided in `src/apps/backend/src`; paths below are relative to
it. This directory models the parts of it whose correctness depends on the order in
which things happen, checks them with TLC, and proves what matters most with TLAPS.

## 1. Inventory

| Part | State it keeps | Operations that change it | What is hard | What makes it correct |
|---|---|---|---|---|
| Checkout (`modules/checkout`, `order.service.create`) | orders, order items, the cart's items | POST /checkout: validate the coupon, then one transaction inserts the order, empties the cart, redeems the coupon; three attempts at an order number | checks made before the transaction, a refusal after half of it ran, concurrent requests of one customer | an order, its emptied cart and its redemption exist together or not at all |
| Coupons (`modules/coupon`) | `coupons.usage_count` and limits, `coupon_usages` | create, update, delete, redeem | merchants edit and delete while checkouts run | the counter equals the usages, limits hold, a deleted coupon has no order |
| Point of sale (`modules/pos`) | product and variant quantities, orders | POST /pos/orders: read stock, decrement item by item, number and insert the order | row locks taken in the cashier's order, a second connection inside a transaction | sales are atomic, never oversell, always end |
| Order status (`order.service.updateStatus`) | status, fulfilment; quantities on cancellation | PATCH /orders/:id/status | status read, then written without a condition | a cancelled order stays cancelled, cancelling restores what the order took |
| Payments (`modules/payment`) | payments row, `orders.payment_status`, quantities | intents (Stripe, Razorpay; cash is refused), webhooks, refunds, provider configuration | duplicated, delayed and retried webhooks, intents that race, secrets stored encrypted | one payment per order, paid exactly when the payment is completed, captured money is recorded |
| Database pool (`db/index.ts`) | connections | reserve, release | a transaction that needs two connections | somebody can always proceed |
| Returns (`modules/return`) | returns and their items, stamps | request, status changes | sums and statuses read before they are written, a second connection inside a transaction | never return more than was bought, a refund was received and inspected |
| Carts (`modules/cart`) | carts, items, totals, the cartId cookie | add, update, remove, merge on login | lost updates, a crash between merge and deletion, two logins | totals agree with items, nothing is lost or merged twice, a customer has one cart |
| Abandoned carts (`jobs/abandonedCartCron.ts`) | a Redis lock, queued jobs | cron, processor | a lock with a TTL, job ids | one reminder per abandoned cart |
| Domains (`modules/domain`, `jobs/domainVerificationProcessor.ts`) | verification rows, `stores.custom_domain` | add, verify, retry, remove | 24 hours of retries against removal and certificate delays | a verified domain goes live, a removed one stays removed |
| Outgoing webhooks (`modules/webhook`) | failure counter, active flag | deliver, edit | a counter computed from a row read 30 seconds earlier | five failures in a row deactivate, a success resets |
| Sessions (`modules/auth`) | refresh tokens, one-time tokens, MFA codes | login, rotate, verify, reset | single use under concurrency | a token is used once |
| Plan limits (`modules/planLimits`, `modules/upload`, `modules/staff`) | counts and storage of a store, files, invitations | check, create, upload, invite, accept, reject, remove, edit the plan | check in one transaction, use in another | limits hold, every counted byte is counted once, an invitation is decided once |
| Billing, pricing, tax, shipping, currency, catalogue, content, customers, tickets, analytics | rows of their own | create, read, update, delete | little: single statements | - |
| Queue, cache, mail, image, Caddy, DNS services; plugins; front ends | none of the business | I/O and wiring | retries | - |

The parts meet in the database. Checkout and the coupon pages share the coupons row;
sales, settlements, cancellations and catalogue edits share a product's quantity; status
changes, intents and webhooks share the order. There is no in-process shared state: the
concurrency is that of requests, jobs and several server instances over PostgreSQL at
READ COMMITTED (no transaction asks for another level). `PROJECT.json` lists every
hazard at its line, with the properties that cover it.

## 2. Plan

1. `CouponLedger`, `Checkout`, `CheckoutProofs` - the promise of a coupon, the checkout
   that implements it, the proof. **Done.**
2. `Inventory`, `PosSale`, `PosSaleProofs` - atomic sale from stock, the point of sale
   that implements it, the pool. **Done**; proofs of typing, of stock coverage and of the
   refinement.
3. `OrderLifecycle` - status, payment and webhooks of one order. **Done.**
   `OrderLifecycleProofs` - **Done**; typing, payment and order agree, a payment is kept,
   stock is only put back by a cancellation.
4. `Returns`, `ReturnsProofs` - requests and status changes of the returns of one order.
   **Done**; proofs of typing, of earned refunds, of the table of transitions and of what
   the sum over earlier returns is worth.
5. `Carts`, `CartsProofs` - items, totals, the merge at login, the cron and its worker.
   **Done**; proofs of every property the run checks.
6. `DomainRegistry`, `DomainVerification`, `DomainVerificationProofs` - claims, looks,
   the job and removals. **Done**; proofs of typing, of proof before going live, of how row
   and store may part, and of the refinement.
7. `PlanLimits`, `PlanLimitsProofs` - products, staff and storage under a plan. **Done**;
   proofs of every property the run checks.
8. `Sums`, `SumsProofs` - sums over finite sets, which the point of sale, the returns, the
   carts and the storage add up, and the facts about them that their proofs use. **Done.**
9. Left: the webhook failure counter and the rotation of refresh tokens, which share no
   state with the rest; a proof for every safety property of a run exists.

The number of runs is kept small on purpose: one passing run per module, plus one for
each disagreement between the code and what the repository says of it.

## 3. Modelling conventions

- An action is one SQL statement, or a run of them between which nobody else can see or
  change anything. A statement reads committed rows. An UPDATE, a DELETE or an insert
  under a unique index waits until nobody else's uncommitted write is on the row, then
  holds the row until its transaction ends. What a transaction wrote reaches the
  committed variables in its `Commit` action; a rollback discards it. These are
  PostgreSQL's rules at READ COMMITTED and the only thing assumed of it; foreign keys
  appear as the guards they are.
- A throw anywhere in `db.transaction` is `Rollback`. `Abort` stands for everything that
  can cut a request short: a failed statement, a timeout, a lost connection, a crash of
  the process. Committed variables are the only state that survives it.
- `DeadlockDetected` cancels a transaction on a cycle of row locks, as PostgreSQL does.
  PostgreSQL does not see the pool, so a cycle through it is not resolved.
- What each request asks for is a function fixed in `Init` (`form`, `basket`, `to`,
  `provider`); requests choose from small sets. Prices, addresses and wording are left
  out, and so are notifications sent after the commit.
- Operators whose comment begins with "Broken:" are mutated forms of the operator
  that follows them. They are used by no specification; replacing the operator by them
  makes a named property fail, which shows that the property depends on that line.

## 4. Modules

### Checkout, CouponLedger

`Checkout` models the customer's request from `Submit` to `Commit`, with the merchant's
`UpdateCoupon` and `DeleteCoupon`. One coupon suffices: an order carries at most one and
coupons share no row.

| Code | Action |
|---|---|
| `validateCoupon` up to the usage limit | `ValidateCoupon` |
| `validateCoupon`, `countCustomerUsages` | `CheckUsage` |
| `orderService.create`: `insertOrder`, `insertOrderItems` | `InsertOrder` |
| the catch for 23505 and its retry | `CollideNumber` |
| `deleteCartItems`, `resetCartTotals` | `ClearCart` |
| `incrementCouponUsage`: read, count, guarded UPDATE | `ReadLimit`, `CountUsages`, `IncrementUsage` |
| `coupon_usages` insert and COMMIT | `Commit` |
| `couponService.update`, `delete` | `UpdateCoupon`, `DeleteCoupon` |

`CouponLedger` is what the merchant expects: `Redeem` one order at a time under the limit
of that instant, `ChangeLimit`, `Withdraw` while unused. `ImplementsLedger` maps `redeemed`
to the committed usages and `limit` to the committed limit.

A limit of `Limits` is positive (the schemas ask for it); `NoLimit` is NULL. The
validity dates are folded into `active`. The per-customer limit always has a value (the
column's default is 1 and the schema offers no null).

### PosSale, Inventory

`PosSale` models `createPosOrder`: `Begin` takes a connection from the pool, `CheckStock`
compares every item on its own with one read, `Decrement` takes one item at a time with
its guard, `PickNumber` and `NumberInUse` look a number up **on another connection**,
`Commit` inserts the order and ends. `RefuseOption` is what happens to a list with a variant
option: its id is written to `order_items.variant_id`, whose foreign key refers to variant
combinations, so such a sale is refused after its decrements. `SetStock` stands for
whoever else writes a quantity (catalogue edits, import, cancellations).

`Inventory` is the promise: a sale takes all of its basket in one step or nothing.
`ImplementsInventory` maps the demand of a sale to the sum of its items per row.

### OrderLifecycle

One order, with the merchant's status requests, the customer's intents, the provider's
deliveries of one captured event and other sales on the same stock.

| Code | Action |
|---|---|
| `updateStatus`: read and guards | `CheckStatus` |
| `updateStatus`: UPDATE of any other status | `UpdateStatus` |
| `updateStatus`: cancellation | `RestoreStock`, `UpdateCancelled`, `CommitCancel` |
| `createPaymentIntent`: order, payment and configuration | `ReadOrder`, `ReadPayment` |
| `createRazorpayOrder`, `createStripePaymentIntent` | `CallProvider` |
| `insertPayment`, `updateOrder`, COMMIT | `InsertPayment`, `UpdatePayingOrder`, `CommitIntent` |
| webhook route and handler up to the transaction | `Deliver` |
| the handler's transaction | `UpdatePaymentStatus`, `UpdatePaidOrder`, `Decrement`, `CommitSettlement` |

The Stripe and Razorpay handlers are the same but for one line, which replaces the id
the payment is found by; `byCharge` keeps it. `RouteReadsSecret` and `ServiceReadsSecret`
say how the stored configuration reads: the route decrypts it (`decryptConfig`), the
handler casts it as stored. The form `configureProvider` stores (an encrypted string) makes
the first true and the second false, a plain object the other way round, and no form
makes both true, although the tests of the route, which replace `decryptConfig` by the
identity, have it so. The passing run makes the assumption of the tests, so that the
handlers' own logic can be examined, and checks safety and that requests end; that a
captured payment is settled (`CapturedIsSettled`) would hold by that assumption alone and is
checked only in `orders_sealed`, which uses what is stored, and where it is violated.

An intent for cash on delivery is refused (`ReadPayment`): `configureProvider` stores no
configuration for it and `createPaymentIntent` asks every provider for one, so its branch
for cash, which would complete the payment at once, is never reached.

The order's items are one unit each (quantities matter in `PosSale`). An item's variant
is the id of a combination, which `decrementVariantOptionStock` looks for among the
options: it matches nothing, so that call changes nothing.

### Returns

The returns of one order, with the merchant sessions that change their statuses and the
status of the order as `createReturn` reads it.

| Code | Action |
|---|---|
| `createReturn`: transaction, order (on another connection) | `Begin`, `ReadOrder` |
| its sum over the returns so far, and the comparison | `SumReturned` |
| its inserts and the commit | `InsertReturn` |
| `updateStatus`: read, table of transitions | `CheckTransition` |
| `updateStatus`: UPDATE by id, with the stamp of the stage | `WriteStatus` |

Nothing is locked, so a sum and a status are as old as the read. `OverReturnNeedsOverlap`
says exactly what the comparison is worth: more than was bought comes back only through two
returns that did not see each other, or one that names the item on two lines (each line is
compared on its own). Rejected and cancelled returns go on counting. `StatusWasEarned`
holds however late statuses are written, because stamps are never taken back;
`StepsFollowTable` names the only way past the table.

`pool` is the size of the connection pool, chosen from `PoolSizes` in `Init`. With as many
requests in their transactions as there are connections, each waits for a second one to
look its order up (`Exhausted`); `ReturnsEndUnlessExhausted` says that this, and nothing
short of it, keeps a request that holds a connection from being answered.

### Carts

The carts of one customer and of the browsers around: a request is an add, a change or
removal of a line, a login, or an order, from a browser with or without a cookie; next to
them the cron on several instances, its worker and its mails. A statement is a step, and
only the writes of a merge are one transaction.

| Code | Action |
|---|---|
| `cart.route.public.ts`: cookie, `getOrCreateCart` | `RouteToCart`, `RouteToNewCart`, `RouteNowhere` |
| `addItem`, `updateItem`, `removeItem` | `ReadLine`, `WriteLine`, `InsertLine` |
| `recalculateTotals`: the sub-select, then the row | `SumLines`, `WriteTotals` |
| `scheduleAbandonedCartRecovery`, the reply | `Enqueue`, `Reply` |
| `mergeCartOnLogin`: reads | `ReadGuest`, `ReadOwn`, `AssignCart`, `MatchLines` |
| `mergeCartOnLogin`: transaction, then the deletion | `SumMerged`, `CommitMerge`, `DeleteGuest` |
| `runAbandonedCartCron` | `CronStart`, `CronEnqueue`, `CronEnd`, `LockExpires` |
| `processAbandonedCartJob` | `RunJob`, `SendReminder`, `CompleteJob` |
| `queue.service.ts`: attempts, workers, `removeOnComplete`, `removeOnFail` | `Fail`, `Stall`, `Forget` |

There are two equalities of items in the code. `addItem` compares the JSON of the options,
whose order counts: a `Key` is a product with its options in an order. The merge sorts them
first (`dedupKey`): `DedupKey` maps a `Key` to the one of its sorted options. One cart may
therefore hold several rows that a merge takes for one item. Two of a guest's are
then aimed at one row of the customer's, and the `UPDATE ... FROM (VALUES ...)` of
`incrementCartItemQuantities` applies one of them, which one PostgreSQL does not say:
`MatchLines` chooses it (`from`).

A reminder's job is known by its id until the queue removes it: completed jobs after 1000
later ones or a week, failed ones after 5000 or a month (`Forget`). An attempt that throws
is made again while attempts are left (`Fail`; 5 for a job of a request, 3 for one of the
cron), and one whose worker died is handed on once (`Stall`).

A run starts (`Starts`) from carts as requests that did not overlap leave them: totals that
agree with the rows, cookies that name carts there are (`StartsAgree`).

What the properties exclude is what the code does not do: `OnlyAddsAndLogins` leaves out
requests in flight together (an add to a guest cart that is being merged is lost with it)
and `Again`: the cookie outlives a logout (`auth.route.session.ts:202`), so a customer's
next login may name the customer's own cart, which is then merged into itself and deleted
(`cart.service.ts:203`), although the comment at `cart.service.ts:56` only speaks of adding
to it. `ItemsSurviveLogin` also leaves out the items of which the merge aimed two guest rows
at one (`Twins`): those it loses. `ItemsAddedOnce` excludes a login that died between the
merge's commit and the deletion. `TotalsAgree` and `LineTotalsAgree` exclude overlapping work
on one cart. `ReminderOnce` allows one reminder and one more for each attempt that broke off
and each job removed: the Redis lock is deleted unconditionally and protects nothing, the
queue's job id does as long as it is kept.

### DomainVerification, DomainRegistry

Requests of merchants for custom domains (`Verification`), each with a row, a job and four
tasks: adding, looking by request, looking by job, removing. No two statements are in one
transaction.

| Code | Action |
|---|---|
| `addCustomDomain`; the route's job | `CheckFree`, `CreateRow`, `EnqueueJob` |
| `verifyCustomDomain`: row and DNS | `Look` or `TakeJob`, `ProveDns`, `MissDns` |
| `processDomainVerification`: the last attempt's verdict | `MarkFailed` |
| ... certificate, row and store | `MarkLive`, `MarkProvisioning`, `Give`, `CatchError` |
| `processDomainVerification`: end, throw | `EndLook`, `Throw`, `JobFails` |
| the queue: a worker dies | `Stall` |
| `removeCustomDomain` | `DeleteRow`, `ReadStore`, `ClearStore` |

`DomainRegistry` is the promise: a domain is claimed by one verification at a time and a
verification that released it never has it again. `ImplementsRegistry` maps `holder` to the
row of each domain. That the look before the INSERT decides nothing is what the unique
index is for. `CustomNeedsRow` and `LiveIsServed` state how row and store may part: a
removal during a look leaves the store with a domain without a row; a late removal clears
what the store was given since; a crash separates the two updates.

A look that finds no record ends the job, in any attempt (`MissDns`). Only errors and dead
workers leave another one: an error is tried again up to the last of `Attempts`, and a job
whose worker died is handed on once, because `createWorker` leaves BullMQ's limit of stalls
at one (`Stall`). `PublishedIsNoticed` is what is left of polling: a record that is there
when a job waits is noticed, unless every attempt fails or a second worker dies.
In the last attempt the verdict is a write of its own (`MarkFailed`), by the row's id: a
merchant's verification that comes between the look and it is overwritten, and a domain that
has just gone live is marked as failed, while its store keeps it.

### PlanLimits

One store. Each check is a transaction of its own, under a lock on the store's row, so it is
one step; what follows is not protected by it.

| Code | Action |
|---|---|
| `checkProductLimit`, `checkStaffLimit`, `checkStorageLimit` | `Check` |
| `productRepo.create`, `delete` | `CreateProduct`, `DeleteProduct` |
| `inviteStaff` | `FindUser`, `FindPending`, `InsertInvitation` |
| `acceptInvitation`: SELECT FOR UPDATE; hash, UPDATE, INSERT, COMMIT | `FindInvitation`, `CommitAccept` |
| `rejectInvitation`: read; UPDATE by id | `ReadPending`, `UpdateRejected` |
| `removeStaff`; seven days pass | `RemoveStaff`, `Expire` |
| `uploadImage`; `incrementStorage` | `StoreFile`; `ReadStorage`, `Increment` |
| `deleteImage` | `DeleteFile` |
| `superAdminService.updatePlan` | `EditPlan` |

A row that refers to the store takes a key-share lock on it, so an insert waits for a
check or an `incrementStorage` in progress (`storeLock`). A check's reads are one step
because whatever changes meanwhile (a deletion, an edit of the plan) could as well have
come after it. `seen` and `granted` remember what a check counted and with what it compared
it; with them `OverLimitNeedsOverlap` says what a check is worth. For staff that is little:
an invitation takes no seat until it is accepted, and acceptance checks nothing, so two
invitations made one after the other are enough to pass the limit. A store without a plan
has no limit on products and staff and 1024 MB (`NoPlan`). `DeleteFile` leaves
`used_storage` alone, as the code does: what was uploaded stays charged.

## 5. Runs

| Run | Configuration | Shows |
|---|---|---|
| `checkout` | 3 requests, 1 customer, 1 cart, limit 1 or none, 2 uses per customer, 2 attempts | books balance, limit and deletion safe, cart only emptied by an order, every request answered, the ledger is implemented |
| `checkout_per_customer` | 2 requests of one customer, one use each | violated: the count takes no lock, so both are redeemed |
| `pos_sale` | 3 sales, 3 rows, baskets that cross and one that names a row twice, one with a variant, pool of 4 | stock covered, sales atomic, row deadlocks survived, every sale ends |
| `pos_pool` | 2 sales, pool of 2 | violated: both hold a connection and wait for a second |
| `orders` | 1 status change, 2 intents, 2 deliveries, 1 product, 1 fault | payment and order agree, payment kept, stock comes back only with a cancellation, every request ends |
| `orders_cancelled` | 2 status changes | violated: shipping overwrites a cancellation |
| `orders_restock` | 1 cancellation | violated: stock an unpaid order never took comes back |
| `orders_sealed` | the configuration as stored | violated: a captured payment is never recorded |
| `returns` | 2 requests, 2 merchant sessions, an order of 2 and 1 units, 3 baskets (one names an item twice), pools of 2 and 3 | over-returns need an overlap or a repeated line, refunds are earned, the table is left only by stale editors, every request ends unless the pool is exhausted |
| `carts` | 2 requests of 6 kinds, 2 browsers, 2 products, one of them in two orders of its options, 3 starting positions, cron on 2 instances, up to 2 runs, 2 attempts broken off or jobs removed | what is lost, doubled or stale and only when; one cart; one reminder for each attempt and job |
| `domains` | 3 verifications, 2 stores, 2 domains, 3 requests of merchants, 2 attempts, 2 faults | proof before going live, row and store part only as stated, the registry is implemented, a published record is noticed unless attempts or workers run out |
| `plan_limits` | 3 creations, or 3 invitations (two for one address) with 4 acceptances and a rejection, or 3 uploads, or one of each kind; 2 plans or none, 1 edit, a column that holds less than the larger plan | limits are passed only by what a check had not counted, storage is counted once and stays in the plan, invitations are decided once |

Properties of the passing runs, beside a `TypeOK` each, which the comments above their definitions state in words:

- `checkout` (`MCCheckout.cfg`): `UsageMatchesOrders`, `DeletedCouponUnused`, `CartEmptiedByOrder`, `NoOverRedemption`, `ImplementsLedger`, `EveryCheckoutEnds`.
- `pos_sale` (`MCPosSale.cfg`): `TakenIsCovered`, `ImplementsInventory`, `EverySaleEnds`.
- `orders` (`MCOrderLifecycle.cfg`): `PaidMeansCompleted`, `PaymentIsKept`, `RestockOnlyByCancelling`, `EveryRequestEnds`.
- `returns` (`MCReturns.cfg`): `OverReturnNeedsOverlap`, `StatusWasEarned`, `StepsFollowTable`, `ReturnsEndUnlessExhausted`.
- `carts` (`MCCarts.cfg`): `ItemsSurviveLogin`, `ItemsAddedOnce`, `TotalsAgree`, `LineTotalsAgree`, `OneCart`, `ReminderOnce`.
- `domains` (`MCDomainVerification.cfg`): `OnlyProvedGoesLive`, `CustomNeedsRow`, `LiveIsServed`, `ImplementsRegistry`, `PublishedIsNoticed`.
- `plan_limits` (`MCPlanLimits.cfg`): `OverLimitNeedsOverlap`, `StorageIsCounted`, `StorageWithinPlan`, `InvitationDecidedOnce`.
- `checkout_per_customer` (`MCCheckoutPerCustomer.cfg`), violated: `PerCustomerLimitHeld`.
- `pos_pool` (`MCPosSalePool.cfg`), violated: `EverySaleEnds`.
- `orders_cancelled` (`MCOrderLifecycleCancelled.cfg`), violated: `CancelledIsFinal`.
- `orders_restock` (`MCOrderLifecycleRestock.cfg`), violated: `CancelRestoresWhatWasTaken`.
- `orders_sealed` (`MCOrderLifecycleSealed.cfg`), violated: `CapturedIsSettled`.

**Bounds.** Two actors suffice for every race on one row and three for a cycle of
waiting that is longer than a pair, or for a third party seeing what two do. One fault
(`MaxFaults`) in `orders` reaches a crash in every intermediate state, followed by the
retry; `Checkout` and `PosSale` need no bound, since a failed request is not repeated.
`MaxRetries` is 2 where the code has 3: the loop has a first, a repeated and a last attempt
either way. The pool is given as many connections as sales and as one more; the code's
10 or 20 behave likewise with as many sales. `returns` takes both sizes, since its property
tells them apart. Limits 1, and 2 per customer, are the smallest
at which a third request must be refused. Symmetry is declared
only in `carts`, which checks no liveness and where requests, and instances, are
interchangeable. In `carts` two requests meet every pair of kinds in every order, at once
or one after the other, and three carts are what two browsers and a customer can have. Its
starts are a guest cart with one item in two orders of its options, to be merged into a row of the
same item; two guest carts and no customer's; and an empty guest cart next to the customer's.
The runs of the cron that are left (`runs`) differ between them, 0, 1 and 2, for size: two
instances and two runs meet in the third. `MaxBreaks` is 2, enough for a second reminder and a
third, and a job of a request has 2 attempts and one of the cron 1, a last one either way. In
`domains` three verifications are two stores after one domain and one store with two; two
attempts have a first and a last one; and with two faults (`MaxFaults`) every attempt can
fail, or both workers of a job die. A second verification of one store for one domain
is left to the proofs. In `plan_limits` the
quotas share the store's row and the plan but no other state, so `Loads` checks each
with three or more of its own requests, where a second and a third can overlap a first, and
all of them together with one or two. Its storage is counted in units of a file;
`ColumnMax` stands for 2^31-1 bytes, which both larger plans of the seeds exceed.

**Deadlock** is not checked by TLC: once every request has been answered the models stop, as
the system may. Requests that wait for ever are found by `EveryCheckoutEnds`,
`EverySaleEnds`, `EveryRequestEnds` and `ReturnsEndUnlessExhausted` instead.

**Fairness.** A request that was accepted goes on: Node runs its continuation and
PostgreSQL its statement (`WF` per request, over the disjunction of its steps). Lock
queues and the pool's queue are first come, first served, so in `OrderLifecycle`, where a
waiting row can be re-locked by others before the waiter runs, status changes and intents get `SF`. Deliveries are weakly fair
because a provider delivers until it is answered. `Returns` has `WF` per request;
`DomainVerification` has it for each job and nothing else: BullMQ's worker takes the jobs
that wait and finishes their attempts, the first of a stalled job's again. `Carts` and `PlanLimits`
promise nothing that must happen and state no fairness. Nothing is assumed of customers,
merchants, other sales or `Abort`: they may never act. In `CollideNumber` and
`NumberInUse` a number may be in use every time; it is the bound on attempts that ends the
loop, not luck.

## 6. Proofs

All proofs are for every value of the constants that satisfies the module's assumptions
(finite sets of requests, sentinels that are not members, positive limits).

`CheckoutProofs`. The inductive invariant has five parts: the types; `LockInv`, the
coupons row is locked exactly by the request at "incremented"; `GuardInv`, from the guarded
UPDATE to the commit the guard stays true, because nobody else can update a locked row;
`BooksInv`, orders are the requests that are done and usages those among them with a
coupon, as many as the counter says; `KeyInv`, whoever refers to the coupons row keeps it
from being deleted. Without `LockInv` and `GuardInv` a commit could take the counter past a
limit changed since the UPDATE; without `BooksInv` the counter could not be shown equal to
the number of usages, since the committing request might already be among them. From it
follow `TypeCorrect`, `BooksBalance`, `DeletionSafe`, `LimitRespected` and
`CheckoutImplementsLedger` (initial states to initial states, every step to a ledger step
or a stutter).

`SumsProofs`. A sum (`SumOver`) is a fold: a function defined by recursion over subsets,
picking a member by `CHOOSE`. The library's induction theorems take an operator as a
parameter, which the provers cannot instantiate, so a claim about every finite set is
proved from its set of counterexamples: among the subsets of a finite set for which it fails
there is one of smallest cardinality (`SmallestSet`), and taking a member out of that one
contradicts it. So it is shown that the function exists and is the sum, that any member can
be taken out first (`SumTakesOut`), and from that how a sum grows, changes with one value,
splits into disjoint sets and is kept by renaming. No induction theorem is assumed.

`PosSaleProofs`. `TakenIsCovered` is inductive with the types: a decrement is guarded
by the committed quantity less what the sale took itself, and nobody else can
change a locked row (`NeverOversold`). `TypeCorrect` needs it, since it is what keeps
committed stock natural. For the refinement (`PosSaleImplementsInventory`) a second
invariant follows the loop over the items: `TakenIsCounted`, what a sale has decremented of
a row is the sum of its items for that row before `next`; `NextIsFirst` and `SoldAreDone`.
Without it `Commit` could not be shown to take the whole demand, since `taken` is built one
item at a time and a basket may name a row twice.

`OrderLifecycleProofs`. The inductive invariant is `TypeOK` with four parts: `VisitInv`, an
actor that visits products has one left to visit; `TookInv`, what a settlement has
decremented is locked by it and still there in the committed stock, which keeps that stock
natural when the settlement commits; `PaymentLockInv`, an intent holds the lock on the
payment with the table empty from its insert to its commit, and a settlement holds it
from its conditional UPDATE to the end, so neither can overwrite the other; and
`PaidMeansCompleted` itself, which needs both locks. There is one lemma for the steps of
each kind of actor, and from the invariant follow `TypeCorrect`, `PaidIffCompleted`,
`PaymentKept` and `RestockOnCancel`.

`CheckoutProofs` also has `CartsEmptiedByOrdersOnly`: a committed cart is empty only when
an order of it is committed, since only `Commit` publishes an emptied cart.

`ReturnsProofs`. The invariant adds to `TypeOK` and `StatusWasEarned`: `StagesOfKind`, the
stages of requests and of editors; `NoneBeforeCommit`, a return without a committed request
does not exist; and `EditorSawIt`, what an editor saw was earned when it looked, and the
step it decided on is in the table. The last is what makes a stale write harmless to the
stamps: they only grow, so what was earned at the look is earned at the write. From it
follow `TypeCorrect`, `RefundsAreEarned` and `OnlyStaleEditorsLeaveTheTable`.
`OverReturnsOverlap` rests on `SeenExist`, what a request added up exists and stays, and
`ValidatedWithin`, a request that has validated still fits with what it saw. If no two
returns of an item overlap, the last to be made saw all the others, so their sum with it
is the one it compared.

`CartsProofs` has an invariant for each question.

- `RInv` counts mails against the job that sends them: a job that still has to mail, or one
  that is gone, has mailed only in attempts that broke off or before it was removed
  (`RemindedOnce`); it needs neither the lock nor the carts.
- `CInv` (`FlightsMeet`, `LoginStages`, `FoundNone`) says that a login about to assign a
  cart found none, so that any customer's cart there is now was assigned by a login in
  flight with it (`SecondCartNeedsTwoLogins`).
- `TInv` is the types (`TypeCorrectness`) with what later steps rely on: rows and carts are
  only added, never moved; what a request found is of the cart it works on (`FoundOK`), what
  it matched of the cart it merges into, with the same merge key (`MatchOK`).
- `LInv`: what a merge read of a row it adds to is what the row has, unless the row was
  emptied or somebody else is at the cart (`MatchIsCurrent`); so the total it writes is right
  (`LineTotals`).
- `GoneInv` and `CartCounts`: while the requests at a cart keep apart, only one that has
  written and not yet stored its sums leaves totals that are not those of the rows, and the
  sums it computed are (`TotalsAgreement`).
- `QInv`: while requests come one after the other, what each read is what there is (`SInv`),
  and per merge key there is at most what was added (`Upper`) and, if no login aimed two rows
  at one (`NoTwins`), at least (`Lower`). What a merge adds to a row is at most what the guest
  had of its key, and exactly that without twins (`MatchedGuest`). Both bounds need the intermediate state in which a merge has committed and the
  guest cart is not deleted: its items are there twice, and the deletion takes away exactly
  the guest's (`ItemsSurvival`, `ItemsOnce`). That what a merge inserts, a sequence, adds up
  to what it read, a set, is `SumOfRenamed`.

`DomainVerificationProofs`. With the types: `StagesOfKind`; `MadeByRequest`, a row and a
job exist only once their request made them; `JobIsActive`, a worker is in a job exactly
while it is active, and an attempt is left; `SeenIsPublished`, a task past its look has
seen the record; `OneRowPerDomain`, the unique index. `SeenIsPublished` carries
`OnlyProvedGoesLive` from the look to the writes after it (`ProvedBeforeLive`),
`OneRowPerDomain` makes the refinement mapping a function (`DomainsImplementRegistry`).
`StoreInv` relates rows and stores: a look began with a row, which is gone only if it was
caught by a removal (`LookHasRow`); a removal that clears a store's domain read one that was
proved (`ClearingWasProved`); and a row says live only with its store given the domain, or
about to be, or for a reason `LiveIsServed` grants (`LiveOrGiving`). It gives `DomainHasRow`
and `LiveHasStore`.

`PlanLimitsProofs`. `ProductsWereChecked` and `InvitesWereChecked`: what a check saw left
room for one more, and only rows that were let through are there; with cardinalities of
finite sets that gives `OnlyOverlapExceeds`. `AcceptHoldsRow`, `DoneIsDecided` and
`RejectReadIt`: an acceptance in progress holds a pending row, one that is done has decided
it, and a rejection read something (`AcceptedOnce`). `MostCovers`: what an upload under the
lock compares with is no more than the most there was (`StorageStaysInPlan`).
`CountingHoldsStore`: who counts an upload holds the store's row, so the total it read is the
total there is; `CheckSawRoom`: what its check had counted left room for it. With them
`used_storage` is a sum, and who is refused late was overtaken (`StorageAddsUp`).

Only model-checked: liveness under fairness, which the prover does not treat
(`EveryCheckoutEnds`, `EverySaleEnds`, `EveryRequestEnds`,
`ReturnsEndUnlessExhausted`, `PublishedIsNoticed`). Every invariant, action property and refinement of
the passing runs is stated by a theorem.

## 7. Disagreements found

Five, each shown by a run, with the lines quoted in `PROJECT.json`: the per-customer limit of
a coupon is not atomic; POS sales exhaust the pool and wait for ever; a cancellation can be
overwritten; cancelling an unpaid order adds stock; and the stored configuration keeps
webhooks from ever recording a payment. The handling of duplicates (`PaymentIsKept`,
`PaidMeansCompleted`), of faults inside transactions and of deadlocks is as it should be.

Other places where code and comment part were met while modelling and have no run of their
own: a login may delete the customer's own cart (section 4, Carts), and loses items of guest
rows that differ only in the order of their options, although the comment at
`cart.service.ts:137` says that guest items use the same convention; cash on
delivery "needs no API keys" (`payment.provider.service.ts:44`), and every intent for it is
refused for want of them (`payment.intent.service.ts:55`); a cart is reminded of again once
its first job has been removed (`services/queue.service.ts:26`); the job that should poll
DNS for a day (`services/queue.service.ts:64`) is completed by its first look that finds no
record, because the look returns normally, and its wait for a certificate ends at once,
because the status is no longer `pending_dns` (`jobs/domainVerificationProcessor.ts:18`);
`domain.service.ts:111` counts on the job to repeat a failed Caddy route, which it does
not; and `used_storage` cannot hold the storage that the larger plans sell.

## 8. Not modelled

- Refunds (`refundPayment`): they are bounded by the provider, which is not in the
  repository, and the code keeps only the last one.
- Outgoing webhooks: an endpoint's failure counter, which nothing else reads. Sessions: the
  keys and tokens of one user. Both lose updates in ways the hazard list names.
- Of domains: subdomains, the list of Caddy routes (read and written back as a whole), the
  custom domain set through the store's settings, the super admin's verify and reject.
- Of plan limits: functions nobody calls (`checkAndIncrement...`, `decrementStorage`,
  `modules/plan-limits`), roles and mails of invitations; stores never change their plan,
  since the upgrade route answers 403.
- Pricing, tax, shipping and currency are pure computation that unit tests reach. The
  create-read-update-delete modules have no rule across rows. Front ends, mail, images, DNS
  and Caddy are I/O. They are most of the repository's lines.
- The retry on a collision assumes that the driver's error code reaches the catch in
  `create`; if it is wrapped on the way the request fails at once, which `Abort` includes.
