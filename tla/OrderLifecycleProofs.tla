------------------------- MODULE OrderLifecycleProofs -------------------------
(***************************************************************************)
(* The order and its payment agree, for every number of status changes,      *)
(* intents, deliveries and faults, every list of items and every reading of  *)
(* the stored configuration.                                                 *)
(***************************************************************************)
EXTENDS OrderLifecycle, SequenceTheorems, TLAPS

-----------------------------------------------------------------------------
\* The inductive invariant

(* Whoever visits the products still has one to visit.                       *)
VisitInv == \A x \in Actor : pc[x] = "visiting" => left[x] # <<>>

(* What a settlement decremented is locked by it and still there.            *)
TookInv ==
  \A d \in Delivery : \A r \in took[d] : lock[r] = d /\ stock[r] >= 1

(* The row lock of the payment: an intent that inserted keeps the table       *)
(* empty for everybody else, and a settlement keeps the row for itself.       *)
PaymentLockInv ==
  /\ \A i \in Intent : pc[i] \in {"inserted", "updated"} =>
       lock["payment"] = i /\ payment = NoPayment
  /\ \A d \in Delivery : pc[d] \in {"paymentUpdated", "visiting", "visited"} =>
       lock["payment"] = d

IInv == TypeOK /\ VisitInv /\ TookInv /\ PaymentLockInv /\ PaidMeansCompleted

-----------------------------------------------------------------------------
\* Lemmas

LEMMA SomeItem == Items \in Seq(Product) /\ Items # <<>>
  BY LifecycleAssumption

\* The next product of a visit is a product, and what is left is a list of them.
LEMMA NextProduct ==
  ASSUME TypeOK, VisitInv, NEW x \in Actor, pc[x] = "visiting"
  PROVE  /\ Head(left[x]) \in Product
         /\ Tail(left[x]) \in Seq(Product)
         /\ Len(left[x]) # 1 => Tail(left[x]) # <<>>
<1>1. left[x] \in Seq(Product) /\ left[x] # <<>>
  BY DEF TypeOK, VisitInv
<1>2. /\ Head(left[x]) \in Product
      /\ Tail(left[x]) \in Seq(Product)
      /\ Len(Tail(left[x])) = Len(left[x]) - 1
  BY <1>1, HeadTailProperties
<1>3. Len(left[x]) \in Nat /\ Len(left[x]) # 0
  BY <1>1, EmptySeq, LenProperties
<1>4. ASSUME Tail(left[x]) = <<>> PROVE Len(left[x]) = 1
  <2>1. Len(Tail(left[x])) = 0
    BY <1>4, EmptySeq
  <2> QED
    BY <2>1, <1>2, <1>3
<1> QED
  BY <1>2, <1>4

\* A throw in any handler, whatever it held.
LEMMA RollbackKeepsInv ==
  ASSUME IInv, NEW x \in Actor, Rollback(x), UNCHANGED faults \/ faults' \in 0 .. MaxFaults
  PROVE  IInv'
<1> USE DEF Rollback, Goto, ReleaseAll, dbVars, form
<1>1. TypeOK'
  BY DEF IInv, TypeOK, Stage, Ended
<1>2. VisitInv'
  BY DEF IInv, TypeOK, VisitInv
<1>3. TookInv'
  BY DEF IInv, TypeOK, TookInv, Actor, Resource
<1>4. PaymentLockInv'
  BY DEF IInv, TypeOK, PaymentLockInv, Actor, Resource
<1>5. PaidMeansCompleted'
  BY DEF IInv, PaidMeansCompleted
<1> QED
  BY <1>1, <1>2, <1>3, <1>4, <1>5 DEF IInv

-----------------------------------------------------------------------------
\* Every step keeps the invariant

\* The merchant's steps touch neither the payment nor whether the order is paid.
LEMMA StatusKeepsInv ==
  ASSUME IInv, NEW s \in StatusRequest, CheckStatus(s) \/ StatusStep(s)
  PROVE  IInv'
<1> USE DEF Goto, Take, Free, dbVars, form, itemVars
<1>0. /\ s \in Actor /\ s \notin Intent /\ s \notin Delivery
      /\ Intent \subseteq Actor /\ Delivery \subseteq Actor
      /\ NoOne \notin Intent /\ NoOne \notin Delivery
  BY LifecycleAssumption DEF Actor
<1>1. CASE CheckStatus(s)
  <2>1. TypeOK'
    BY <1>0, <1>1, SomeItem DEF CheckStatus, IInv, TypeOK, Stage, Ended, Writing, Wanting
  <2>2. VisitInv'
    BY <1>0, <1>1, SomeItem DEF CheckStatus, IInv, TypeOK, VisitInv
  <2>3. TookInv' /\ PaidMeansCompleted'
    BY <1>1 DEF CheckStatus, IInv, TookInv, PaidMeansCompleted
  <2>4. PaymentLockInv'
    BY <1>0, <1>1 DEF CheckStatus, IInv, TypeOK, PaymentLockInv
  <2> QED
    BY <2>1, <2>2, <2>3, <2>4 DEF IInv
<1>2. CASE UpdateStatus(s)
  <2>1. to[s] \in Status
    BY LifecycleAssumption DEF IInv, TypeOK
  <2>2. TypeOK'
    BY <1>0, <1>2, <2>1 DEF UpdateStatus, IInv, TypeOK, Order, Stage, Ended
  <2>3. PaidMeansCompleted'
    BY <1>2 DEF UpdateStatus, IInv, TypeOK, Order, PaidMeansCompleted
  <2>4. VisitInv' /\ TookInv' /\ PaymentLockInv'
    BY <1>0, <1>2 DEF UpdateStatus, IInv, TypeOK, VisitInv, TookInv, PaymentLockInv
  <2> QED
    BY <2>2, <2>3, <2>4 DEF IInv
<1>3. CASE RestoreStock(s)
  <2>1. /\ Head(left[s]) \in Product /\ Tail(left[s]) \in Seq(Product)
        /\ Len(left[s]) # 1 => Tail(left[s]) # <<>>
    BY <1>0, <1>3, NextProduct DEF RestoreStock, IInv
  <2>2. TypeOK'
    BY <1>0, <1>3, <2>1 DEF RestoreStock, IInv, TypeOK, Stage, Writing, Wanting, Resource
  <2>3. VisitInv'
    BY <1>0, <1>3, <2>1 DEF RestoreStock, IInv, TypeOK, VisitInv
  <2>4. TookInv'
    BY <1>0, <1>3 DEF RestoreStock, IInv, TypeOK, TookInv, Resource
  <2>5. PaymentLockInv'
    BY <1>0, <1>3 DEF RestoreStock, IInv, TypeOK, PaymentLockInv, Resource
  <2>6. PaidMeansCompleted'
    BY <1>3 DEF RestoreStock, IInv, PaidMeansCompleted
  <2> QED
    BY <2>2, <2>3, <2>4, <2>5, <2>6 DEF IInv
<1>4. CASE UpdateCancelled(s)
  <2>1. TypeOK'
    BY <1>0, <1>4 DEF UpdateCancelled, IInv, TypeOK, Stage, Writing, Resource
  <2>2. VisitInv' /\ PaidMeansCompleted'
    BY <1>0, <1>4 DEF UpdateCancelled, IInv, TypeOK, VisitInv, PaidMeansCompleted
  <2>3. TookInv'
    BY <1>0, <1>4 DEF UpdateCancelled, IInv, TypeOK, TookInv, Resource
  <2>4. PaymentLockInv'
    BY <1>0, <1>4 DEF UpdateCancelled, IInv, TypeOK, PaymentLockInv
  <2> QED
    BY <2>1, <2>2, <2>3, <2>4 DEF IInv
<1>5. CASE CommitCancel(s)
  <2> USE DEF ReleaseAll
  <2>1. TypeOK'
    <3>1. order' \in Order
      BY <1>5 DEF CommitCancel, IInv, TypeOK, Order, Status
    <3>2. stock' \in [Product -> Nat]
      BY <1>5 DEF CommitCancel, IInv, TypeOK
    <3>3. pc' \in [Actor -> Stage]
      BY <1>5 DEF CommitCancel, IInv, TypeOK, Stage, Ended
    <3>4. lock' \in [Resource -> Actor \cup {NoOne}]
      BY <1>5 DEF CommitCancel, IInv, TypeOK
    <3> QED
      BY <1>5, <3>1, <3>2, <3>3, <3>4 DEF CommitCancel, IInv, TypeOK
  <2>2. VisitInv'
    BY <1>0, <1>5 DEF CommitCancel, IInv, TypeOK, VisitInv
  <2>3. TookInv'
    BY <1>0, <1>5 DEF CommitCancel, IInv, TypeOK, TookInv, Resource
  <2>4. PaymentLockInv'
    BY <1>0, <1>5 DEF CommitCancel, IInv, TypeOK, PaymentLockInv, Resource
  <2>5. PaidMeansCompleted'
    BY <1>5 DEF CommitCancel, IInv, TypeOK, Order, PaidMeansCompleted
  <2> QED
    BY <2>1, <2>2, <2>3, <2>4, <2>5 DEF IInv
<1>6. CASE DeadlockDetected(s)
  BY <1>0, <1>6, RollbackKeepsInv DEF DeadlockDetected
<1> QED
  BY <1>1, <1>2, <1>3, <1>4, <1>5, <1>6 DEF StatusStep

\* An intent holds the payment from its insert to its commit, so what it commits
\* replaces nothing.
LEMMA IntentKeepsInv ==
  ASSUME IInv, NEW i \in Intent, ReadOrder(i) \/ IntentStep(i)
  PROVE  IInv'
<1> USE DEF Goto, Take, Free, dbVars, form, itemVars
<1>0. /\ i \in Actor /\ i \notin Delivery
      /\ Intent \subseteq Actor /\ Delivery \subseteq Actor
      /\ NoOne \notin Intent /\ NoOne \notin Delivery
  BY LifecycleAssumption DEF Actor
<1>1. CASE \/ ReadOrder(i) \/ ReadPayment(i) \/ CallProvider(i)
  <2>1. TypeOK'
    BY <1>1 DEF ReadOrder, ReadPayment, CallProvider, IInv, TypeOK, Stage, Ended,
                Reading, Writing, Wanting
  <2>2. VisitInv'
    BY <1>1 DEF ReadOrder, ReadPayment, CallProvider, IInv, TypeOK, VisitInv
  <2>3. TookInv' /\ PaidMeansCompleted'
    BY <1>1 DEF ReadOrder, ReadPayment, CallProvider, IInv, TookInv, PaidMeansCompleted
  <2>4. PaymentLockInv'
    BY <1>0, <1>1 DEF ReadOrder, ReadPayment, CallProvider, IInv, TypeOK, PaymentLockInv
  <2> QED
    BY <2>1, <2>2, <2>3, <2>4 DEF IInv
<1>2. CASE InsertPayment(i)
  <2>1. CASE Rollback(i) /\ UNCHANGED faults
    BY <1>0, <2>1, RollbackKeepsInv
  <2>2. CASE /\ Free("payment") /\ payment = NoPayment
             /\ Take(i, "payment") /\ Goto(i, "inserted")
             /\ UNCHANGED <<dbVars, captured, form, itemVars, faults>>
    <3>1. TypeOK'
      BY <1>0, <2>2 DEF IInv, TypeOK, Stage, Writing, Wanting
    <3>2. VisitInv' /\ PaidMeansCompleted'
      BY <2>2 DEF IInv, TypeOK, VisitInv, PaidMeansCompleted
    <3>3. TookInv'
      BY <1>0, <2>2 DEF IInv, TypeOK, TookInv, Resource
    <3>4. PaymentLockInv'
      BY <1>0, <2>2 DEF IInv, TypeOK, PaymentLockInv, Resource
    <3> QED
      BY <3>1, <3>2, <3>3, <3>4 DEF IInv
  <2> QED
    BY <1>2, <2>1, <2>2 DEF InsertPayment
<1>3. CASE UpdatePayingOrder(i)
  <2>1. TypeOK'
    BY <1>0, <1>3 DEF UpdatePayingOrder, IInv, TypeOK, Stage, Writing
  <2>2. VisitInv' /\ PaidMeansCompleted'
    BY <1>3 DEF UpdatePayingOrder, IInv, TypeOK, VisitInv, PaidMeansCompleted
  <2>3. TookInv'
    BY <1>0, <1>3 DEF UpdatePayingOrder, IInv, TypeOK, TookInv, Resource
  <2>4. PaymentLockInv'
    BY <1>0, <1>3 DEF UpdatePayingOrder, IInv, TypeOK, PaymentLockInv, Resource
  <2> QED
    BY <2>1, <2>2, <2>3, <2>4 DEF IInv
<1>4. CASE CommitIntent(i)
  <2> USE DEF ReleaseAll
  <2>1. payment = NoPayment /\ lock["payment"] = i
    BY <1>4 DEF CommitIntent, IInv, PaymentLockInv
  <2>2. order.paymentStatus # "paid"
    BY <2>1 DEF IInv, PaidMeansCompleted, NoPayment
  <2>3. TypeOK'
    <3>1. order' \in Order
      BY <1>4 DEF CommitIntent, IInv, TypeOK, Order
    <3>2. payment' \in Payment
      BY <1>4 DEF CommitIntent, IInv, TypeOK, Payment
    <3>3. pc' \in [Actor -> Stage] /\ lock' \in [Resource -> Actor \cup {NoOne}]
      BY <1>4 DEF CommitIntent, IInv, TypeOK, Stage, Ended
    <3> QED
      BY <1>4, <3>1, <3>2, <3>3 DEF CommitIntent, IInv, TypeOK
  <2>4. VisitInv'
    BY <1>4 DEF CommitIntent, IInv, TypeOK, VisitInv
  <2>5. TookInv'
    BY <1>0, <1>4 DEF CommitIntent, IInv, TypeOK, TookInv, Resource
  <2>6. PaymentLockInv'
    BY <1>0, <1>4, <2>1 DEF CommitIntent, IInv, TypeOK, PaymentLockInv, Resource
  <2>7. PaidMeansCompleted'
    BY <1>4, <2>2 DEF CommitIntent, IInv, TypeOK, Order, PaidMeansCompleted
  <2> QED
    BY <2>3, <2>4, <2>5, <2>6, <2>7 DEF IInv
<1>5. CASE DeadlockDetected(i)
  BY <1>0, <1>5, RollbackKeepsInv DEF DeadlockDetected
<1> QED
  BY <1>1, <1>2, <1>3, <1>4, <1>5 DEF IntentStep

\* A settlement holds the payment, and every product it decremented, until it
\* commits them together.
LEMMA DeliveryKeepsInv ==
  ASSUME IInv, NEW d \in Delivery, DeliveryStep(d)
  PROVE  IInv'
<1> USE DEF Goto, Take, Free, dbVars, form, itemVars
<1>0. /\ d \in Actor /\ d \notin Intent
      /\ Intent \subseteq Actor /\ Delivery \subseteq Actor
      /\ NoOne \notin Intent /\ NoOne \notin Delivery
  BY LifecycleAssumption DEF Actor
<1>1. CASE Deliver(d)
  <2>1. TypeOK'
    BY <1>1 DEF Deliver, IInv, TypeOK, Stage, Ended, Writing, Wanting
  <2>2. VisitInv'
    BY <1>1 DEF Deliver, IInv, TypeOK, VisitInv
  <2>3. TookInv' /\ PaidMeansCompleted'
    BY <1>1 DEF Deliver, IInv, TookInv, PaidMeansCompleted
  <2>4. PaymentLockInv'
    BY <1>0, <1>1 DEF Deliver, IInv, TypeOK, PaymentLockInv
  <2> QED
    BY <2>1, <2>2, <2>3, <2>4 DEF IInv
<1>2. CASE UpdatePaymentStatus(d)
  <2>1. TypeOK'
    BY <1>0, <1>2 DEF UpdatePaymentStatus, IInv, TypeOK, Stage, Writing, Wanting
  <2>2. VisitInv' /\ PaidMeansCompleted'
    BY <1>2 DEF UpdatePaymentStatus, IInv, TypeOK, VisitInv, PaidMeansCompleted
  <2>3. TookInv'
    BY <1>0, <1>2 DEF UpdatePaymentStatus, IInv, TypeOK, TookInv, Resource
  <2>4. PaymentLockInv'
    BY <1>0, <1>2 DEF UpdatePaymentStatus, IInv, TypeOK, PaymentLockInv, Resource
  <2> QED
    BY <2>1, <2>2, <2>3, <2>4 DEF IInv
<1>3. CASE UpdatePaidOrder(d)
  <2>1. TypeOK'
    BY <1>0, <1>3, SomeItem DEF UpdatePaidOrder, IInv, TypeOK, Stage, Writing
  <2>2. VisitInv' /\ PaidMeansCompleted'
    BY <1>3, SomeItem DEF UpdatePaidOrder, IInv, TypeOK, VisitInv, PaidMeansCompleted
  <2>3. TookInv'
    BY <1>0, <1>3 DEF UpdatePaidOrder, IInv, TypeOK, TookInv, Resource
  <2>4. PaymentLockInv'
    BY <1>0, <1>3 DEF UpdatePaidOrder, IInv, TypeOK, PaymentLockInv, Resource
  <2> QED
    BY <2>1, <2>2, <2>3, <2>4 DEF IInv
<1>4. CASE Decrement(d)
  <2> DEFINE product == Head(left[d])
  <2>1. /\ product \in Product /\ Tail(left[d]) \in Seq(Product)
        /\ Len(left[d]) # 1 => Tail(left[d]) # <<>>
    BY <1>0, <1>4, NextProduct DEF Decrement, IInv
  <2>2. /\ pc[d] = "visiting" /\ lock[product] = NoOne
        /\ \/ /\ stock[product] >= 1
              /\ lock' = [lock EXCEPT ![product] = d]
              /\ took' = [took EXCEPT ![d] = @ \cup {product}]
           \/ UNCHANGED <<lock, took>>
        /\ left' = [left EXCEPT ![d] = Tail(@)]
        /\ pc' = [pc EXCEPT ![d] = IF Len(left[d]) = 1 THEN "visited" ELSE "visiting"]
        /\ UNCHANGED <<order, payment, stock, captured, to, provider, faults>>
    BY <1>4 DEF Decrement
  <2> HIDE DEF product
  <2>3. TypeOK'
    <3>1. pc' \in [Actor -> Stage]
      BY <2>2 DEF IInv, TypeOK, Stage, Writing
    <3>2. lock' \in [Resource -> Actor \cup {NoOne}]
      BY <1>0, <2>1, <2>2 DEF IInv, TypeOK, Resource
    <3>3. left' \in [Actor -> Seq(Product)]
      BY <2>1, <2>2 DEF IInv, TypeOK
    <3>4. took' \in [Delivery -> SUBSET Product]
      <4>1. took \in [Delivery -> SUBSET Product]
        BY DEF IInv, TypeOK
      <4>2. took[d] \cup {product} \in SUBSET Product
        BY <2>1, <4>1
      <4>3. CASE took' = [took EXCEPT ![d] = @ \cup {product}]
        BY <4>1, <4>2, <4>3
      <4>4. CASE took' = took
        BY <4>1, <4>4
      <4> QED
        BY <2>2, <4>3, <4>4
    <3> QED
      BY <2>2, <3>1, <3>2, <3>3, <3>4 DEF IInv, TypeOK
  <2>4. VisitInv'
    BY <1>0, <2>1, <2>2 DEF IInv, TypeOK, VisitInv
  <2>5. TookInv'
    <3> SUFFICES ASSUME NEW f \in Delivery, NEW r \in took'[f]
                 PROVE  lock'[r] = f /\ stock'[r] >= 1
      BY DEF TookInv
    <3>1. CASE r \in took[f]
      <4>1. lock[r] = f /\ stock[r] >= 1 /\ r \in Resource
        BY <3>1 DEF IInv, TypeOK, TookInv, Resource
      <4> QED
        BY <1>0, <2>2, <4>1 DEF IInv, TypeOK
    <3>2. CASE r \notin took[f]
      <4>1. /\ f = d /\ r = product /\ stock[product] >= 1
            /\ lock' = [lock EXCEPT ![product] = d]
        BY <2>2, <3>2 DEF IInv, TypeOK
      <4> QED
        BY <2>1, <2>2, <4>1 DEF IInv, TypeOK, Resource
    <3> QED
      BY <3>1, <3>2
  <2>6. PaymentLockInv'
    <3>1. product # "payment"
      BY <2>1, LifecycleAssumption
    <3> QED
      BY <1>0, <2>2, <3>1 DEF IInv, TypeOK, PaymentLockInv, Resource
  <2>7. PaidMeansCompleted'
    BY <2>2 DEF IInv, PaidMeansCompleted
  <2> QED
    BY <2>3, <2>4, <2>5, <2>6, <2>7 DEF IInv
<1>5. CASE CommitSettlement(d)
  <2> USE DEF ReleaseAll
  <2>1. lock["payment"] = d
    BY <1>5 DEF CommitSettlement, IInv, PaymentLockInv
  <2>2. TypeOK'
    <3>1. order' \in Order
      BY <1>5 DEF CommitSettlement, IInv, TypeOK, Order
    <3>2. payment' \in Payment
      BY <1>5 DEF CommitSettlement, IInv, TypeOK, Payment
    <3>3. stock' \in [Product -> Nat]
      BY <1>5 DEF CommitSettlement, IInv, TypeOK, TookInv
    <3>4. pc' \in [Actor -> Stage] /\ lock' \in [Resource -> Actor \cup {NoOne}]
      BY <1>5 DEF CommitSettlement, IInv, TypeOK, Stage, Ended
    <3> QED
      BY <1>5, <3>1, <3>2, <3>3, <3>4 DEF CommitSettlement, IInv, TypeOK
  <2>3. VisitInv'
    BY <1>5 DEF CommitSettlement, IInv, TypeOK, VisitInv
  <2>4. TookInv'
    <3> SUFFICES ASSUME NEW f \in Delivery, NEW r \in took'[f]
                 PROVE  lock'[r] = f /\ stock'[r] >= 1
      BY DEF TookInv
    <3>1. f # d /\ r \in took[f] /\ r \in Product
      BY <1>5 DEF CommitSettlement, IInv, TypeOK
    <3>2. lock[r] = f /\ stock[r] >= 1 /\ r \notin took[d]
      BY <3>1 DEF IInv, TookInv
    <3> QED
      BY <1>5, <3>1, <3>2 DEF CommitSettlement, IInv, TypeOK, Resource
  <2>5. PaymentLockInv'
    BY <1>0, <1>5, <2>1 DEF CommitSettlement, IInv, TypeOK, PaymentLockInv, Resource
  <2>6. PaidMeansCompleted'
    BY <1>5 DEF CommitSettlement, IInv, TypeOK, Order, Payment, PaidMeansCompleted
  <2> QED
    BY <2>2, <2>3, <2>4, <2>5, <2>6 DEF IInv
<1>6. CASE DeadlockDetected(d)
  BY <1>0, <1>6, RollbackKeepsInv DEF DeadlockDetected
<1> QED
  BY <1>1, <1>2, <1>3, <1>4, <1>5, <1>6 DEF DeliveryStep

-----------------------------------------------------------------------------
LEMMA NextKeepsInv == IInv /\ [Next]_vars => IInv'
<1> SUFFICES ASSUME IInv, [Next]_vars PROVE IInv'
  OBVIOUS
<1>1. ASSUME NEW s \in StatusRequest, CheckStatus(s) \/ StatusStep(s) PROVE IInv'
  BY <1>1, StatusKeepsInv
<1>2. ASSUME NEW i \in Intent, ReadOrder(i) \/ IntentStep(i) PROVE IInv'
  BY <1>2, IntentKeepsInv
<1>3. ASSUME NEW d \in Delivery, DeliveryStep(d) PROVE IInv'
  BY <1>3, DeliveryKeepsInv
<1>4. ASSUME NEW x \in Actor, Abort(x) PROVE IInv'
  <2>1. faults' \in 0 .. MaxFaults
    BY <1>4, LifecycleAssumption DEF Abort, IInv, TypeOK
  <2> QED
    BY <1>4, <2>1, RollbackKeepsInv DEF Abort
<1>5. ASSUME NEW r \in Product, SellElsewhere(r) PROVE IInv'
  <2> USE DEF SellElsewhere, Free, form, itemVars
  <2>1. TypeOK'
    BY <1>5 DEF IInv, TypeOK
  <2>2. TookInv'
    <3>1. NoOne \notin Delivery
      BY LifecycleAssumption DEF Actor
    <3> QED
      BY <1>5, <3>1 DEF IInv, TypeOK, TookInv
  <2>3. VisitInv' /\ PaymentLockInv' /\ PaidMeansCompleted'
    BY <1>5 DEF IInv, VisitInv, PaymentLockInv, PaidMeansCompleted
  <2> QED
    BY <2>1, <2>2, <2>3 DEF IInv
<1>6. CASE Capture
  BY <1>6 DEF Capture, dbVars, form, itemVars, IInv, TypeOK, VisitInv, TookInv,
              PaymentLockInv, PaidMeansCompleted
<1>7. CASE UNCHANGED vars
  BY <1>7 DEF vars, dbVars, form, itemVars, IInv, TypeOK, VisitInv, TookInv,
              PaymentLockInv, PaidMeansCompleted
<1> QED
  BY <1>1, <1>2, <1>3, <1>4, <1>5, <1>6, <1>7 DEF Next

(* The inductive invariant holds in every reachable state, whatever crashes, *)
(* deadlocks and duplicates the handlers meet.                               *)
THEOREM Invariance == Spec => []IInv
<1>1. Init => IInv
  <2> SUFFICES ASSUME Init PROVE IInv
    OBVIOUS
  <2>1. TypeOK
    <3>1. order \in Order /\ payment \in Payment
      BY DEF Init, Order, Status, Payment, NoPayment
    <3>2. stock \in [Product -> Nat]
      BY LifecycleAssumption DEF Init
    <3>3. faults \in 0 .. MaxFaults
      BY LifecycleAssumption DEF Init
    <3>4. pc \in [Actor -> Stage] /\ lock \in [Resource -> Actor \cup {NoOne}]
      BY DEF Init, Stage
    <3>5. left \in [Actor -> Seq(Product)] /\ took \in [Delivery -> SUBSET Product]
      BY EmptySeq DEF Init
    <3> QED
      BY <3>1, <3>2, <3>3, <3>4, <3>5 DEF Init, TypeOK
  <2>2. VisitInv /\ TookInv /\ PaymentLockInv
    BY LifecycleAssumption DEF Init, VisitInv, TookInv, PaymentLockInv, Actor
  <2>3. PaidMeansCompleted
    BY DEF Init, PaidMeansCompleted, NoPayment
  <2> QED
    BY <2>1, <2>2, <2>3 DEF IInv
<1>2. IInv /\ [Next]_vars => IInv'
  BY NextKeepsInv
<1> QED
  BY <1>1, <1>2, PTL DEF Spec

-----------------------------------------------------------------------------
(* Type correctness; in particular no settlement takes committed stock below *)
(* zero, although it decrements and commits in different steps.              *)
THEOREM TypeCorrect == Spec => []TypeOK
<1>1. IInv => TypeOK
  BY DEF IInv
<1> QED
  BY <1>1, Invariance, PTL

(* The order says paid exactly when the payment says completed: the handlers *)
(* of intents and webhooks keep the two rows together.                       *)
THEOREM PaidIffCompleted == Spec => []PaidMeansCompleted
<1>1. IInv => PaidMeansCompleted
  BY DEF IInv
<1> QED
  BY <1>1, Invariance, PTL

(* The payment an intent committed is never replaced by another intent's and *)
(* never leaves completed.                                                   *)
THEOREM PaymentKept == Spec => PaymentIsKept
<1> DEFINE Kept == payment # NoPayment =>
             /\ payment'.provider = payment.provider
             /\ payment.status = "completed" => payment'.status = "completed"
<1>1. IInv /\ [Next]_vars => [Kept]_vars
  <2> SUFFICES ASSUME IInv, Next PROVE Kept
    BY DEF Kept, vars, dbVars
  <2>1. ASSUME UNCHANGED payment PROVE Kept
    BY <2>1
  <2>2. ASSUME NEW i \in Intent, CommitIntent(i) PROVE Kept
    BY <2>2 DEF CommitIntent, IInv, PaymentLockInv
  <2>3. ASSUME NEW d \in Delivery, CommitSettlement(d) PROVE Kept
    BY <2>3 DEF CommitSettlement, IInv, TypeOK, Payment
  <2> HIDE DEF Kept
  <2>4. ASSUME NEW s \in StatusRequest, CheckStatus(s) \/ StatusStep(s) PROVE Kept
    BY <2>1, <2>4 DEF CheckStatus, StatusStep, UpdateStatus, RestoreStock, UpdateCancelled,
                      CommitCancel, DeadlockDetected, Rollback, dbVars
  <2>5. ASSUME NEW i \in Intent, ReadOrder(i) \/ IntentStep(i) PROVE Kept
    BY <2>1, <2>2, <2>5 DEF ReadOrder, IntentStep, ReadPayment, CallProvider, InsertPayment,
                            UpdatePayingOrder, DeadlockDetected, Rollback, dbVars
  <2>6. ASSUME NEW d \in Delivery, DeliveryStep(d) PROVE Kept
    BY <2>1, <2>3, <2>6 DEF DeliveryStep, Deliver, UpdatePaymentStatus, UpdatePaidOrder,
                            Decrement, DeadlockDetected, Rollback, dbVars
  <2>7. ASSUME NEW x \in Actor, Abort(x) PROVE Kept
    BY <2>1, <2>7 DEF Abort, Rollback, dbVars
  <2>8. ASSUME NEW r \in Product, SellElsewhere(r) PROVE Kept
    BY <2>1, <2>8 DEF SellElsewhere
  <2>9. CASE Capture
    BY <2>1, <2>9 DEF Capture, dbVars
  <2> QED
    BY <2>4, <2>5, <2>6, <2>7, <2>8, <2>9 DEF Next
<1> QED
  BY <1>1, Invariance, PTL DEF Spec, PaymentIsKept

(* Stock comes back only in the step that commits a cancellation.            *)
THEOREM RestockOnCancel == Spec => RestockOnlyByCancelling
<1> DEFINE Cancelling ==
             \A r \in Product : stock'[r] > stock[r] => order'.status = "cancelled"
<1>1. IInv /\ [Next]_vars => [Cancelling]_vars
  <2> SUFFICES ASSUME IInv, Next PROVE Cancelling
    BY DEF IInv, TypeOK, Cancelling, vars, dbVars
  <2>1. ASSUME UNCHANGED stock PROVE Cancelling
    BY <2>1 DEF IInv, TypeOK
  <2>2. ASSUME NEW s \in StatusRequest, CommitCancel(s) PROVE Cancelling
    BY <2>2 DEF CommitCancel, IInv, TypeOK, Order
  <2>3. ASSUME NEW d \in Delivery, CommitSettlement(d) PROVE Cancelling
    BY <2>3 DEF CommitSettlement, IInv, TypeOK
  <2>4. ASSUME NEW r \in Product, SellElsewhere(r) PROVE Cancelling
    BY <2>4 DEF SellElsewhere, IInv, TypeOK
  <2> HIDE DEF Cancelling
  <2>5. ASSUME NEW s \in StatusRequest, CheckStatus(s) \/ StatusStep(s) PROVE Cancelling
    BY <2>1, <2>2, <2>5 DEF CheckStatus, StatusStep, UpdateStatus, RestoreStock,
                            UpdateCancelled, DeadlockDetected, Rollback, dbVars
  <2>6. ASSUME NEW i \in Intent, ReadOrder(i) \/ IntentStep(i) PROVE Cancelling
    BY <2>1, <2>6 DEF ReadOrder, IntentStep, ReadPayment, CallProvider, InsertPayment,
                      UpdatePayingOrder, CommitIntent, DeadlockDetected, Rollback, dbVars
  <2>7. ASSUME NEW d \in Delivery, DeliveryStep(d) PROVE Cancelling
    BY <2>1, <2>3, <2>7 DEF DeliveryStep, Deliver, UpdatePaymentStatus, UpdatePaidOrder,
                            Decrement, DeadlockDetected, Rollback, dbVars
  <2>8. ASSUME NEW x \in Actor, Abort(x) PROVE Cancelling
    BY <2>1, <2>8 DEF Abort, Rollback, dbVars
  <2>9. CASE Capture
    BY <2>1, <2>9 DEF Capture, dbVars
  <2> QED
    BY <2>4, <2>5, <2>6, <2>7, <2>8, <2>9 DEF Next
<1> QED
  BY <1>1, Invariance, PTL DEF Spec, RestockOnlyByCancelling

=============================================================================
