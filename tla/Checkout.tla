------------------------------ MODULE Checkout ------------------------------
(***************************************************************************)
(* Customer checkout and coupon redemption.                                *)
(*                                                                         *)
(*   modules/checkout/checkout.route.customer.ts   the request handler     *)
(*   modules/coupon/coupon.service.ts              validateCoupon, update, *)
(*                                                 delete                  *)
(*   modules/order/order.service.ts                create                  *)
(*   modules/order/order.repo.ts                   incrementCouponUsage    *)
(*                                                                         *)
(* The database is PostgreSQL at READ COMMITTED: an action is one SQL       *)
(* statement, a statement reads what is committed, an UPDATE waits for the  *)
(* row's lock and keeps it until its transaction ends, and the writes of a  *)
(* transaction reach the committed tables at Commit.  One coupon is         *)
(* modelled: an order carries at most one, and coupons share no row.        *)
(***************************************************************************)
EXTENDS Naturals, FiniteSets

CONSTANTS
  Request,             \* checkout requests, each handled once
  Customer,
  Cart,
  NoCart,              \* cartId is optional in checkoutSchema
  Limits,              \* values a merchant enters for usageLimit
  PerCustomerLimits,   \* values a merchant enters for usageLimitPerCustomer
  NoLimit,             \* usageLimit IS NULL
  NoOne,               \* a row lock nobody holds
  MaxRetries           \* MAX_RETRIES of orderService.create

ASSUME CheckoutAssumption ==
  /\ IsFiniteSet(Request)
  /\ NoOne \notin Request
  /\ NoCart \notin Cart
  /\ Limits \subseteq Nat \ {0}
  /\ PerCustomerLimits \subseteq Nat \ {0}
  /\ NoLimit \notin Nat
  /\ MaxRetries \in Nat \ {0}

VARIABLES
  coupon,      \* the committed coupons row
  orders,      \* requests whose order row is committed
  usages,      \* committed coupon_usages rows, by the request that made them
  cartFull,    \* committed cart_items: whether the cart still has items
  couponLock,  \* who updated the coupons row and has not ended
  cartLock,    \* who emptied the cart and has not ended
  pc,          \* where each request is
  form,        \* what each request will ask for, fixed from the start
  attempt,     \* collisions of the order number so far
  seenLimit    \* usageLimitPerCustomer as the transaction read it

dbVars == <<coupon, orders, usages, cartFull>>
lockVars == <<couponLock, cartLock>>
localVars == <<form, attempt, seenLimit>>
vars == <<dbVars, lockVars, pc, localVars>>

Form == [customer : Customer, cart : Cart \cup {NoCart}, coupon : BOOLEAN]

Coupon == [exists : BOOLEAN, active : BOOLEAN, count : Nat,
           limit : Limits \cup {NoLimit}, perCustomer : PerCustomerLimits]

\* Before the transaction, inside it, and the two ways a request ends.
Before == {"validating", "checkingUsage", "inserting"}
HoldingCart == {"cartCleared", "limitRead", "usageCounted", "incremented"}
InTransaction == {"ordered"} \cup HoldingCart
Ended == {"done", "failed"}
Stage == {"idle"} \cup Before \cup InTransaction \cup Ended

-----------------------------------------------------------------------------
\* Helpers

UsageLeft(c) == c.limit = NoLimit \/ c.count < c.limit

CustomerUsages(who) == {r \in usages : form[r].customer = who}

\* The foreign key of orders.coupon_id holds the coupons row against DELETE
\* from the insert of the order to the end of the transaction.
HoldsCouponKey(r) == form[r].coupon /\ pc[r] \in InTransaction

Goto(r, stage) == pc' = [pc EXCEPT ![r] = stage]

Release(r) ==
  /\ couponLock' = IF couponLock = r THEN NoOne ELSE couponLock
  /\ cartLock' = [c \in Cart |-> IF cartLock[c] = r THEN NoOne ELSE cartLock[c]]

\* Broken: insertOrder called without tx, so that a throw leaves the order.
RollbackKeepsOrder(r) ==
  /\ Goto(r, "failed")
  /\ Release(r)
  /\ orders' = orders \cup {r}
  /\ UNCHANGED <<coupon, usages, cartFull, localVars>>

\* A throw inside db.transaction: nothing it wrote survives, and the locals of
\* the handler go with it.
Rollback(r) ==
  /\ Goto(r, "failed")
  /\ Release(r)
  /\ attempt' = [attempt EXCEPT ![r] = 0]
  /\ seenLimit' = [seenLimit EXCEPT ![r] = 0]
  /\ UNCHANGED <<dbVars, form>>

-----------------------------------------------------------------------------
Init ==
  /\ \E l \in Limits \cup {NoLimit}, k \in PerCustomerLimits :
       coupon = [exists |-> TRUE, active |-> TRUE, count |-> 0,
                 limit |-> l, perCustomer |-> k]
  /\ orders = {}
  /\ usages = {}
  /\ cartFull = [c \in Cart |-> TRUE]
  /\ couponLock = NoOne
  /\ cartLock = [c \in Cart |-> NoOne]
  /\ pc = [r \in Request |-> "idle"]
  /\ form \in [Request -> Form]
  /\ attempt = [r \in Request |-> 0]
  /\ seenLimit = [r \in Request |-> 0]

\* POST /api/v1/customer/checkout arrives.
Submit(r) ==
  /\ pc[r] = "idle"
  /\ Goto(r, IF form[r].coupon THEN "validating" ELSE "inserting")
  /\ UNCHANGED <<dbVars, lockVars, localVars>>

\* validateCoupon: findByCode and the checks on the row it returned.
ValidateCoupon(r) ==
  /\ pc[r] = "validating"
  /\ IF coupon.exists /\ coupon.active /\ UsageLeft(coupon)
       THEN /\ Goto(r, "checkingUsage")
            /\ seenLimit' = [seenLimit EXCEPT ![r] = coupon.perCustomer]
       ELSE Goto(r, "failed") /\ UNCHANGED seenLimit
  /\ UNCHANGED <<dbVars, lockVars, form, attempt>>

\* validateCoupon: countCustomerUsages against the limit of the row it read.
CheckUsage(r) ==
  /\ pc[r] = "checkingUsage"
  /\ Goto(r, IF Cardinality(CustomerUsages(form[r].customer)) >= seenLimit[r]
               THEN "failed" ELSE "inserting")
  /\ seenLimit' = [seenLimit EXCEPT ![r] = 0]
  /\ UNCHANGED <<dbVars, lockVars, form, attempt>>

\* BEGIN; insertOrder, insertOrderItems.  A coupon deleted meanwhile fails
\* the foreign key.  The loop over attempts ends with the transaction: its
\* counter is dropped here.
InsertOrder(r) ==
  /\ pc[r] = "inserting"
  /\ Goto(r, IF form[r].coupon /\ ~coupon.exists THEN "failed" ELSE "ordered")
  /\ attempt' = [attempt EXCEPT ![r] = 0]
  /\ UNCHANGED <<dbVars, lockVars, form, seenLimit>>

\* Broken: the last attempt is not recognised as the last.
CollideNumberOffByOne(r) ==
  /\ pc[r] = "inserting"
  /\ attempt' = [attempt EXCEPT ![r] = @ + 1]
  /\ Goto(r, IF attempt[r] = MaxRetries THEN "failed" ELSE "inserting")
  /\ UNCHANGED <<dbVars, lockVars, form, seenLimit>>

\* Broken: the count of attempts starts over instead of ending the loop.
CollideNumberForEver(r) ==
  /\ pc[r] = "inserting"
  /\ attempt' = [attempt EXCEPT ![r] = (@ + 1) % MaxRetries]
  /\ UNCHANGED <<dbVars, lockVars, pc, form, seenLimit>>

\* The unique index on order_number refuses the insert: the transaction is
\* abandoned and create tries again with another number, MaxRetries in all.
CollideNumber(r) ==
  /\ pc[r] = "inserting"
  /\ IF attempt[r] = MaxRetries - 1
       THEN Goto(r, "failed") /\ attempt' = [attempt EXCEPT ![r] = 0]
       ELSE /\ attempt' = [attempt EXCEPT ![r] = @ + 1]
            /\ UNCHANGED pc
  /\ UNCHANGED <<dbVars, lockVars, form, seenLimit>>

\* Broken: the cart is cleared without tx.
ClearCartNow(r) ==
  /\ pc[r] = "ordered"
  /\ cartFull' = [c \in Cart |-> IF c = form[r].cart THEN FALSE ELSE cartFull[c]]
  /\ Goto(r, "cartCleared")
  /\ UNCHANGED <<coupon, orders, usages, lockVars, localVars>>

\* deleteCartItems and resetCartTotals, when the request names a cart.
ClearCart(r) ==
  /\ pc[r] = "ordered"
  /\ form[r].cart # NoCart => cartLock[form[r].cart] = NoOne
  /\ cartLock' = [c \in Cart |-> IF c = form[r].cart THEN r ELSE cartLock[c]]
  /\ Goto(r, "cartCleared")
  /\ UNCHANGED <<dbVars, couponLock, localVars>>

\* incrementCouponUsage: the transaction reads the coupon ...
ReadLimit(r) ==
  /\ pc[r] = "cartCleared"
  /\ form[r].coupon
  /\ seenLimit' = [seenLimit EXCEPT ![r] = coupon.perCustomer]
  /\ Goto(r, "limitRead")
  /\ UNCHANGED <<dbVars, lockVars, form, attempt>>

\* ... counts the customer's committed usages ...
CountUsages(r) ==
  /\ pc[r] = "limitRead"
  /\ IF Cardinality(CustomerUsages(form[r].customer)) >= seenLimit[r]
       THEN Rollback(r)
       ELSE /\ Goto(r, "usageCounted")
            /\ seenLimit' = [seenLimit EXCEPT ![r] = 0]
            /\ UNCHANGED <<dbVars, lockVars, form, attempt>>

\* Broken: the increment trusts the limit checked by validateCoupon.
IncrementUsageUnguarded(r) ==
  /\ pc[r] = "usageCounted"
  /\ couponLock = NoOne
  /\ couponLock' = r
  /\ Goto(r, "incremented")
  /\ UNCHANGED <<dbVars, cartLock, localVars>>

\* ... and takes the row's lock to increment usage_count under the limit.
\* No row updated means COUPON_USAGE_EXCEEDED.
IncrementUsage(r) ==
  /\ pc[r] = "usageCounted"
  /\ couponLock = NoOne
  /\ IF UsageLeft(coupon)
       THEN /\ couponLock' = r
            /\ Goto(r, "incremented")
            /\ UNCHANGED <<dbVars, cartLock, localVars>>
       ELSE Rollback(r)

\* The coupon_usages row is inserted and the transaction commits: the order,
\* the emptied cart and the coupon's increment become visible together.
Commit(r) ==
  /\ pc[r] = IF form[r].coupon THEN "incremented" ELSE "cartCleared"
  /\ orders' = orders \cup {r}
  /\ usages' = IF form[r].coupon THEN usages \cup {r} ELSE usages
  /\ coupon' = IF form[r].coupon THEN [coupon EXCEPT !.count = @ + 1] ELSE coupon
  /\ cartFull' = [c \in Cart |-> IF c = form[r].cart THEN FALSE ELSE cartFull[c]]
  /\ Goto(r, "done")
  /\ Release(r)
  /\ UNCHANGED localVars

\* A cancelled statement, a lost connection or a crash of the process:
\* PostgreSQL rolls the transaction back.
Abort(r) ==
  /\ pc[r] \in Before \cup InTransaction
  /\ Rollback(r)

\* Broken: an update that overtakes a redemption in flight.
UpdateCouponUnlocked(l, k, a) ==
  /\ coupon.exists
  /\ coupon' = [coupon EXCEPT !.limit = l, !.perCustomer = k, !.active = a]
  /\ UNCHANGED <<orders, usages, cartFull, lockVars, pc, localVars>>

\* couponService.update: an unconditional UPDATE, which waits for the row.
UpdateCoupon(l, k, a) ==
  /\ coupon.exists
  /\ couponLock = NoOne
  /\ coupon' = [coupon EXCEPT !.limit = l, !.perCustomer = k, !.active = a]
  /\ UNCHANGED <<orders, usages, cartFull, lockVars, pc, localVars>>

\* Broken: no foreign key from orders to coupons.
DeleteCouponNoKey ==
  /\ coupon.exists
  /\ usages = {}
  /\ coupon' = [coupon EXCEPT !.exists = FALSE]
  /\ UNCHANGED <<orders, usages, cartFull, lockVars, pc, localVars>>

\* couponService.delete: DELETE waits for every transaction that refers to
\* the row, and coupon_usages refuses it once there is a usage.
DeleteCoupon ==
  /\ coupon.exists
  /\ couponLock = NoOne
  /\ \A r \in Request : ~HoldsCouponKey(r)
  /\ usages = {}
  /\ coupon' = [coupon EXCEPT !.exists = FALSE]
  /\ UNCHANGED <<orders, usages, cartFull, lockVars, pc, localVars>>

-----------------------------------------------------------------------------
Step(r) ==
  \/ ValidateCoupon(r)
  \/ CheckUsage(r)
  \/ InsertOrder(r)
  \/ CollideNumber(r)
  \/ ClearCart(r)
  \/ ReadLimit(r)
  \/ CountUsages(r)
  \/ IncrementUsage(r)
  \/ Commit(r)

Merchant ==
  \/ \E l \in Limits \cup {NoLimit}, k \in PerCustomerLimits, a \in BOOLEAN :
       UpdateCoupon(l, k, a)
  \/ DeleteCoupon

Next ==
  \/ \E r \in Request : Submit(r) \/ Step(r) \/ Abort(r)
  \/ Merchant

Spec == Init /\ [][Next]_vars

\* Node and PostgreSQL keep running a request that has been accepted; a
\* customer may never submit, and nothing need ever abort.
FairSpec == Spec /\ \A r \in Request : WF_vars(Step(r))

-----------------------------------------------------------------------------
\* Correctness

TypeOK ==
  /\ coupon \in Coupon
  /\ orders \subseteq Request
  /\ usages \subseteq Request
  /\ cartFull \in [Cart -> BOOLEAN]
  /\ couponLock \in Request \cup {NoOne}
  /\ cartLock \in [Cart -> Request \cup {NoOne}]
  /\ pc \in [Request -> Stage]
  /\ form \in [Request -> Form]
  /\ attempt \in [Request -> 0 .. MaxRetries - 1]
  /\ seenLimit \in [Request -> {0} \cup PerCustomerLimits]

(* The counter on the coupon, the coupon_usages rows and the orders placed   *)
(* with the coupon tell the same story in every committed state, whatever    *)
(* rolled back, collided or timed out on the way.                            *)
UsageMatchesOrders ==
  /\ coupon.count = Cardinality(usages)
  /\ usages = {r \in orders : form[r].coupon}

(* A redemption never takes the counter past the limit in force when it      *)
(* becomes visible, even if the merchant changes the limit between the       *)
(* guarded UPDATE and the commit.                                            *)
NoOverRedemption ==
  [][coupon'.count > coupon.count =>
       coupon.limit = NoLimit \/ coupon'.count <= coupon.limit]_vars

(* Deleting a coupon races with checkouts that already validated it: no      *)
(* order is ever committed against a coupon that is gone.                    *)
DeletedCouponUnused == ~coupon.exists => usages = {}

(* A checkout that fails leaves the customer's cart as it was: an emptied    *)
(* cart always has a committed order to show for it.                         *)
CartEmptiedByOrder ==
  \A c \in Cart : ~cartFull[c] => \E r \in orders : form[r].cart = c

(* incrementCouponUsage calls its count of the customer's usages the         *)
(* "Per-customer atomic guard".  Violated: the count takes no lock.          *)
PerCustomerLimitHeld ==
  \A x \in Customer : Cardinality(CustomerUsages(x)) <= coupon.perCustomer

(* No pair of checkouts blocks each other for ever: every accepted request   *)
(* is answered.                                                              *)
EveryCheckoutEnds == \A r \in Request : pc[r] # "idle" ~> pc[r] \in Ended

\* The coupon as its merchant understands it.
Ledger == INSTANCE CouponLedger WITH
            Redemption <- Request, issued <- coupon.exists,
            limit <- coupon.limit, redeemed <- usages

(* Every checkout, interleaved with every other and with the merchant, is a  *)
(* step of the coupon ledger or invisible to it.                             *)
ImplementsLedger == Ledger!Spec
=============================================================================
