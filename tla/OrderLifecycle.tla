---------------------------- MODULE OrderLifecycle ----------------------------
(***************************************************************************)
(* One order from 'pending' on: the merchant changes its status, the         *)
(* customer pays for it, the payment provider reports the payment, and other *)
(* sales draw on the same stock.                                             *)
(*                                                                         *)
(*   modules/order/order.service.ts              updateStatus              *)
(*   modules/payment/payment.intent.service.ts   createPaymentIntent       *)
(*   modules/payment/payment.route.public.ts     webhook routes            *)
(*   modules/payment/payment.webhook.service.ts  handleWebhook             *)
(*                                                                         *)
(* As in Checkout, an action is one SQL statement at READ COMMITTED, and what*)
(* a transaction wrote reaches the committed rows when it commits.           *)
(***************************************************************************)
EXTENDS Naturals, FiniteSets, SequencesExt

CONSTANTS
  StatusRequest,    \* PATCH /orders/:id/status, each handled once
  Intent,           \* POST /payments/intent, each handled once
  Delivery,         \* the provider's deliveries of one captured event
  Targets,          \* statuses the merchant asks for
  Providers,        \* providers the customer asks for
  Product,          \* the products the order's items name
  Items,            \* the products of the items, one each, in the order read
  Supplies,         \* initial quantities of the products
  RouteReadsSecret,     \* decryptConfig accepts the stored provider config
  ServiceReadsSecret,   \* webhook_secret is a field of the stored config
  NoOne,
  MaxFaults         \* bound on requests cut short

Actor == StatusRequest \cup Intent \cup Delivery
Status == {"pending", "processing", "shipped", "delivered", "cancelled"}
Resource == {"payment", "order"} \cup Product

ASSUME LifecycleAssumption ==
  /\ IsFiniteSet(Actor)
  /\ StatusRequest \cap Intent = {}
  /\ (StatusRequest \cup Intent) \cap Delivery = {}
  /\ NoOne \notin Actor
  /\ Product # {} /\ Product \cap {"payment", "order"} = {}
  /\ Items \in Seq(Product)
  /\ Product = {Items[n] : n \in DOMAIN Items}
  /\ IsInjective(Items)
  /\ Targets \subseteq Status
  /\ Providers \subseteq {"cod", "stripe", "razorpay"}
  /\ Supplies \subseteq Nat
  /\ {RouteReadsSecret, ServiceReadsSecret} \subseteq BOOLEAN
  /\ MaxFaults \in Nat

VARIABLES
  order,      \* the committed orders row
  payment,    \* the committed payments row, if any
  stock,      \* committed quantities of the products
  captured,   \* the provider holds the customer's money
  lock,       \* the transaction that wrote each row and has not ended
  pc,         \* where each actor is
  to,         \* the status each StatusRequest asks for
  provider,   \* the provider each Intent asks for
  left,       \* products each transaction has yet to visit
  took,       \* products each Delivery has decremented and not committed
  faults      \* requests cut short so far

dbVars == <<order, payment, stock>>
form == <<to, provider>>
itemVars == <<left, took>>
vars == <<dbVars, captured, lock, pc, form, itemVars, faults>>

Order == [status : Status, paymentStatus : {"pending", "paid"},
          fulfillment : {"unfulfilled", "shipped", "fulfilled"}]

\* byCharge: providerPaymentId is the id the provider's events carry.
Payment == [status : {"none", "processing", "completed"},
            provider : Providers \cup {"none"}, byCharge : BOOLEAN]
NoPayment == [status |-> "none", provider |-> "none", byCharge |-> FALSE]

\* The stages in which the next statement writes the payment or the order,
\* and waits for it; in "visiting" it is the next of the products left.
Wanting == [payment |-> {"ready", "paymentSeen"},
            order   |-> {"updatingStatus", "restored", "inserted", "paymentUpdated"}]

Reading == {"orderRead", "paymentRead"}
Writing == Wanting.payment \cup Wanting.order
           \cup {"visiting", "cancelled", "updated", "visited"}
Ended == {"done", "failed"}
Stage == {"idle"} \cup Reading \cup Writing \cup Ended

-----------------------------------------------------------------------------
\* Helpers

Goto(x, stage) == pc' = [pc EXCEPT ![x] = stage]

Free(r) == lock[r] = NoOne

Take(x, r) == lock' = [lock EXCEPT ![r] = x]

ReleaseAll(x) == lock' = [r \in Resource |-> IF lock[r] = x THEN NoOne ELSE lock[r]]

Wants(x, r) == IF r \in Product THEN pc[x] = "visiting" /\ r = Head(left[x])
                            ELSE pc[x] \in Wanting[r]

WaitsFor(x, y) == x # y /\ \E r \in Resource : Wants(x, r) /\ lock[r] = y

Blocked == {x \in Actor : \E y \in Actor : WaitsFor(x, y)}

\* An actor waits for one row at a time, so blocked actors that are all waited
\* for among themselves form cycles.
OnCycle(x) ==
  \E cycle \in SUBSET Blocked :
    x \in cycle /\ \A y \in cycle : \E z \in cycle : WaitsFor(z, y)

\* A handler throws, and its transaction with it.  A webhook answers 500, and
\* the provider delivers the event again.
Rollback(x) ==
  /\ Goto(x, IF x \in Delivery THEN "idle" ELSE "failed")
  /\ ReleaseAll(x)
  /\ left' = [left EXCEPT ![x] = <<>>]
  /\ took' = [d \in Delivery |-> IF d = x THEN {} ELSE took[d]]
  /\ UNCHANGED <<dbVars, captured, form>>

-----------------------------------------------------------------------------
Init ==
  /\ order = [status |-> "pending", paymentStatus |-> "pending",
              fulfillment |-> "unfulfilled"]
  /\ payment = NoPayment
  /\ stock \in [Product -> Supplies]
  /\ captured = FALSE
  /\ lock = [r \in Resource |-> NoOne]
  /\ pc = [x \in Actor |-> "idle"]
  /\ to \in [StatusRequest -> Targets]
  /\ provider \in [Intent -> Providers]
  /\ left = [x \in Actor |-> <<>>]
  /\ took = [d \in Delivery |-> {}]
  /\ faults = 0

-----------------------------------------------------------------------------
\* updateStatus

Cancellable == order.paymentStatus # "paid" /\ order.fulfillment # "fulfilled"

\* findByIdSimple and the checks on the row it returned, which is not locked;
\* a cancellation goes on to read the order's items.
CheckStatus(s) ==
  /\ pc[s] = "idle"
  /\ \/ /\ order.status = "cancelled" \/ (to[s] = "cancelled" /\ ~Cancellable)
        /\ Goto(s, "failed")
        /\ UNCHANGED left
     \/ /\ order.status # "cancelled" /\ to[s] # "cancelled"
        /\ Goto(s, "updatingStatus")
        /\ UNCHANGED left
     \/ /\ order.status # "cancelled" /\ to[s] = "cancelled" /\ Cancellable
        /\ Goto(s, "visiting")
        /\ left' = [left EXCEPT ![s] = Items]
  /\ UNCHANGED <<dbVars, captured, lock, form, took, faults>>

\* A single UPDATE of status and fulfillment.
UpdateStatus(s) ==
  /\ pc[s] = "updatingStatus"
  /\ Free("order")
  /\ order' = [order EXCEPT
       !.status = to[s],
       !.fulfillment = CASE to[s] = "shipped"   -> "shipped"
                         [] to[s] = "delivered" -> "fulfilled"
                         [] OTHER               -> @]
  /\ Goto(s, "done")
  /\ UNCHANGED <<payment, stock, captured, lock, form, itemVars, faults>>

\* Broken: restoreInventory without tx.
RestoreStockNow(s) ==
  /\ pc[s] = "visiting"
  /\ Free(Head(left[s]))
  /\ stock' = [stock EXCEPT ![Head(left[s])] = @ + 1]
  /\ left' = [left EXCEPT ![s] = Tail(@)]
  /\ Goto(s, IF Len(left[s]) = 1 THEN "restored" ELSE "visiting")
  /\ UNCHANGED <<order, payment, captured, lock, form, took, faults>>

\* restoreInventory of the next product, unconditionally.
RestoreStock(s) ==
  /\ pc[s] = "visiting"
  /\ Free(Head(left[s]))
  /\ Take(s, Head(left[s]))
  /\ left' = [left EXCEPT ![s] = Tail(@)]
  /\ Goto(s, IF Len(left[s]) = 1 THEN "restored" ELSE "visiting")
  /\ UNCHANGED <<dbVars, captured, form, took, faults>>

UpdateCancelled(s) ==
  /\ pc[s] = "restored"
  /\ Free("order")
  /\ Take(s, "order")
  /\ Goto(s, "cancelled")
  /\ UNCHANGED <<dbVars, captured, form, itemVars, faults>>

CommitCancel(s) ==
  /\ pc[s] = "cancelled"
  /\ stock' = [r \in Product |-> stock[r] + 1]
  /\ order' = [order EXCEPT !.status = "cancelled"]
  /\ Goto(s, "done")
  /\ ReleaseAll(s)
  /\ UNCHANGED <<payment, captured, form, itemVars, faults>>

-----------------------------------------------------------------------------
\* createPaymentIntent

ReadOrder(i) ==
  /\ pc[i] = "idle"
  /\ Goto(i, IF order.status = "pending" /\ order.paymentStatus # "paid"
               THEN "orderRead" ELSE "failed")
  /\ UNCHANGED <<dbVars, captured, lock, form, itemVars, faults>>

\* findPaymentByOrderId, then the provider's configuration: an intent already
\* processing is returned as it is.  Cash on delivery is refused: configureProvider
\* stores no configuration for it, and an intent asks for one.
ReadPayment(i) ==
  /\ pc[i] = "orderRead"
  /\ Goto(i, IF payment.status = "processing" THEN "done"
             ELSE IF payment.status = "completed" \/ provider[i] = "cod" \/ ~RouteReadsSecret
                  THEN "failed" ELSE "paymentRead")
  /\ UNCHANGED <<dbVars, captured, lock, form, itemVars, faults>>

\* The provider opens a charge for the order.
CallProvider(i) ==
  /\ pc[i] = "paymentRead"
  /\ Goto(i, "ready")
  /\ UNCHANGED <<dbVars, captured, lock, form, itemVars, faults>>

\* Broken: no unique index on payments.order_id.
InsertPaymentAgain(i) ==
  /\ pc[i] = "ready"
  /\ Free("payment")
  /\ Take(i, "payment")
  /\ Goto(i, "inserted")
  /\ UNCHANGED <<dbVars, captured, form, itemVars, faults>>

\* Broken: an insert that fails is tried again.
InsertPaymentRetried(i) ==
  /\ pc[i] = "ready"
  /\ Free("payment")
  /\ IF payment = NoPayment
       THEN /\ Take(i, "payment")
            /\ Goto(i, "inserted")
            /\ UNCHANGED <<dbVars, captured, form, itemVars>>
       ELSE UNCHANGED <<dbVars, captured, lock, pc, form, itemVars>>
  /\ UNCHANGED faults

\* BEGIN; insertPayment.  payments.order_id is unique: an insert waits for
\* one in flight and fails after one that committed.
InsertPayment(i) ==
  /\ pc[i] = "ready"
  /\ Free("payment")
  /\ IF payment = NoPayment
       THEN /\ Take(i, "payment")
            /\ Goto(i, "inserted")
            /\ UNCHANGED <<dbVars, captured, form, itemVars>>
       ELSE Rollback(i)
  /\ UNCHANGED faults

UpdatePayingOrder(i) ==
  /\ pc[i] = "inserted"
  /\ Free("order")
  /\ Take(i, "order")
  /\ Goto(i, "updated")
  /\ UNCHANGED <<dbVars, captured, form, itemVars, faults>>

\* COMMIT.  Of the order only the payment method changed.
CommitIntent(i) ==
  /\ pc[i] = "updated"
  /\ payment' = [status |-> "processing", provider |-> provider[i], byCharge |-> TRUE]
  /\ Goto(i, "done")
  /\ ReleaseAll(i)
  /\ UNCHANGED <<order, stock, captured, form, itemVars, faults>>

\* The customer pays the charge the committed intent handed out.
Capture ==
  /\ payment.status = "processing"
  /\ ~captured
  /\ captured' = TRUE
  /\ UNCHANGED <<dbVars, lock, pc, form, itemVars, faults>>

-----------------------------------------------------------------------------
\* Webhooks

\* The route decrypts the configuration to check the signature, then the
\* service reads it as stored; both look the payment up by the id in the event,
\* and the service's answer stands, being the later one.
Deliver(d) ==
  /\ captured
  /\ pc[d] = "idle"
  /\ Goto(d, IF ~(payment.byCharge /\ RouteReadsSecret /\ ServiceReadsSecret) THEN "failed"
             ELSE IF payment.status = "completed" THEN "done" ELSE "paymentSeen")
  /\ UNCHANGED <<dbVars, captured, lock, form, itemVars, faults>>

UpdatePaymentStatus(d) ==
  /\ pc[d] = "paymentSeen"
  /\ Free("payment")
  /\ Take(d, "payment")
  /\ Goto(d, "paymentUpdated")
  /\ UNCHANGED <<dbVars, captured, form, itemVars, faults>>

\* Broken: updateOrder without tx.
UpdatePaidOrderNow(d) ==
  /\ pc[d] = "paymentUpdated"
  /\ Free("order")
  /\ order' = [order EXCEPT !.paymentStatus = "paid"]
  /\ left' = [left EXCEPT ![d] = Items]
  /\ Goto(d, "visiting")
  /\ UNCHANGED <<payment, stock, captured, lock, form, took, faults>>

\* The order is marked paid, and its items are read.
UpdatePaidOrder(d) ==
  /\ pc[d] = "paymentUpdated"
  /\ Free("order")
  /\ Take(d, "order")
  /\ left' = [left EXCEPT ![d] = Items]
  /\ Goto(d, "visiting")
  /\ UNCHANGED <<dbVars, captured, form, took, faults>>

\* Broken: the UPDATE has no WHERE quantity >= $qty.
DecrementUnguarded(d) ==
  /\ pc[d] = "visiting"
  /\ Free(Head(left[d]))
  /\ Take(d, Head(left[d]))
  /\ took' = [took EXCEPT ![d] = @ \cup {Head(left[d])}]
  /\ left' = [left EXCEPT ![d] = Tail(@)]
  /\ Goto(d, IF Len(left[d]) = 1 THEN "visited" ELSE "visiting")
  /\ UNCHANGED <<dbVars, captured, form, faults>>

\* decrementInventory of the next product: one that holds too little is left
\* alone, and nobody looks at the rows updated.  decrementVariantOptionStock,
\* called before it with the id of a variant combination, matches no option.
Decrement(d) ==
  /\ pc[d] = "visiting"
  /\ Free(Head(left[d]))
  /\ IF stock[Head(left[d])] >= 1
       THEN Take(d, Head(left[d])) /\ took' = [took EXCEPT ![d] = @ \cup {Head(left[d])}]
       ELSE UNCHANGED <<lock, took>>
  /\ left' = [left EXCEPT ![d] = Tail(@)]
  /\ Goto(d, IF Len(left[d]) = 1 THEN "visited" ELSE "visiting")
  /\ UNCHANGED <<dbVars, captured, form, faults>>

\* The Razorpay handler also replaces the id it found the payment by.
CommitSettlement(d) ==
  /\ pc[d] = "visited"
  /\ payment' = [payment EXCEPT !.status = "completed",
                               !.byCharge = @ /\ payment.provider # "razorpay"]
  /\ order' = [order EXCEPT !.paymentStatus = "paid"]
  /\ stock' = [r \in Product |-> IF r \in took[d] THEN stock[r] - 1 ELSE stock[r]]
  /\ took' = [took EXCEPT ![d] = {}]
  /\ Goto(d, "done")
  /\ ReleaseAll(d)
  /\ UNCHANGED <<captured, form, left, faults>>

-----------------------------------------------------------------------------
\* A sale at the counter takes one of the product (PosSale has the detail).
SellElsewhere(r) ==
  /\ Free(r)
  /\ stock[r] >= 1
  /\ stock' = [stock EXCEPT ![r] = @ - 1]
  /\ UNCHANGED <<order, payment, captured, lock, pc, form, itemVars, faults>>

\* PostgreSQL finds a cycle of row locks and cancels one of its transactions.
DeadlockDetected(x) ==
  /\ OnCycle(x)
  /\ Rollback(x)
  /\ UNCHANGED faults

\* A request is cut short: the provider does not answer, the connection is
\* lost or the process dies.
Abort(x) ==
  /\ pc[x] \in Reading \cup Writing
  /\ faults < MaxFaults
  /\ faults' = faults + 1
  /\ Rollback(x)

-----------------------------------------------------------------------------
StatusStep(s) ==
  \/ UpdateStatus(s)
  \/ RestoreStock(s)
  \/ UpdateCancelled(s)
  \/ CommitCancel(s)
  \/ DeadlockDetected(s)

IntentStep(i) ==
  \/ ReadPayment(i)
  \/ CallProvider(i)
  \/ InsertPayment(i)
  \/ UpdatePayingOrder(i)
  \/ CommitIntent(i)
  \/ DeadlockDetected(i)

DeliveryStep(d) ==
  \/ Deliver(d)
  \/ UpdatePaymentStatus(d)
  \/ UpdatePaidOrder(d)
  \/ Decrement(d)
  \/ CommitSettlement(d)
  \/ DeadlockDetected(d)

Next ==
  \/ \E s \in StatusRequest : CheckStatus(s) \/ StatusStep(s)
  \/ \E i \in Intent : ReadOrder(i) \/ IntentStep(i)
  \/ \E d \in Delivery : DeliveryStep(d)
  \/ \E x \in Actor : Abort(x)
  \/ \E r \in Product : SellElsewhere(r)
  \/ Capture

Spec == Init /\ [][Next]_vars

\* A request that started goes on, a lock that is released goes to whoever
\* waits for it (hence SF), PostgreSQL resolves deadlocks, and a provider
\* delivers the event of a captured payment.  Nobody has to cancel, to pay or
\* to buy.
FairSpec ==
  /\ Spec
  /\ \A s \in StatusRequest : SF_vars(StatusStep(s))
  /\ \A i \in Intent : SF_vars(IntentStep(i))
  /\ \A d \in Delivery : WF_vars(DeliveryStep(d))

-----------------------------------------------------------------------------
\* Correctness

TypeOK ==
  /\ order \in Order
  /\ payment \in Payment
  /\ stock \in [Product -> Nat]
  /\ captured \in BOOLEAN
  /\ lock \in [Resource -> Actor \cup {NoOne}]
  /\ pc \in [Actor -> Stage]
  /\ to \in [StatusRequest -> Targets]
  /\ provider \in [Intent -> Providers]
  /\ left \in [Actor -> Seq(Product)]
  /\ took \in [Delivery -> SUBSET Product]
  /\ faults \in 0 .. MaxFaults

(* The orders row says paid exactly when the payments row says completed:    *)
(* no interleaving of intents, deliveries and status changes, and no crash   *)
(* between their statements, leaves one without the other.                   *)
PaidMeansCompleted == order.paymentStatus = "paid" <=> payment.status = "completed"

(* An order has one payment, and it is never demoted or replaced, although   *)
(* every intent decides on a payment row it read before its transaction.     *)
PaymentIsKept ==
  [][payment # NoPayment =>
       /\ payment'.provider = payment.provider
       /\ payment.status = "completed" => payment'.status = "completed"]_vars

(* Stock comes back only in the instant the order becomes cancelled: a       *)
(* cancellation that fails half way has restored nothing.                    *)
RestockOnlyByCancelling ==
  [][\A r \in Product : stock'[r] > stock[r] => order'.status = "cancelled"]_vars

(* Nobody waits for ever, although a cancellation locks the product before   *)
(* the order and a webhook the order before the product.                     *)
EveryRequestEnds ==
  \A x \in StatusRequest \cup Intent : pc[x] # "idle" ~> pc[x] \in Ended

(* A customer's money that the provider holds ends up on the order.          *)
CapturedIsSettled == captured ~> order.paymentStatus = "paid"

(* updateStatus refuses a cancelled order (ORDER_CANCELLED), so cancellation *)
(* should be final.  Violated: the check and the UPDATE are two statements.  *)
CancelledIsFinal == [][order.status = "cancelled" => order'.status = "cancelled"]_vars

(* Cancelling gives back what the order took, so a product never has more in *)
(* stock than was supplied.  Violated: an unpaid order has taken nothing.    *)
CancelRestoresWhatWasTaken == \A r \in Product : \E n \in Supplies : stock[r] <= n
=============================================================================
