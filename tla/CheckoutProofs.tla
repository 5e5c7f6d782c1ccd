--------------------------- MODULE CheckoutProofs ---------------------------
(***************************************************************************)
(* Proofs about Checkout for every number of requests, customers and carts  *)
(* and every set of limits: the coupon's books balance, no redemption goes  *)
(* past the limit, and checkout implements the coupon ledger.               *)
(***************************************************************************)
EXTENDS Checkout, FiniteSetTheorems, TLAPS

-----------------------------------------------------------------------------
\* The inductive invariant

(* The coupons row is locked exactly by the request that incremented it.     *)
LockInv == \A r \in Request : couponLock = r <=> pc[r] = "incremented"

(* Only requests with a coupon reach the stages of incrementCouponUsage, and *)
(* between the guarded UPDATE and the commit the guard stays true, because   *)
(* nobody else can update the row.                                           *)
GuardInv ==
  \A r \in Request :
    /\ pc[r] \in {"limitRead", "usageCounted", "incremented"} => form[r].coupon
    /\ pc[r] = "incremented" => UsageLeft(coupon)

(* An order exists for the requests that are done, a usage for those among   *)
(* them that carry a coupon, and the counter counts the usages.              *)
BooksInv ==
  /\ orders = {r \in Request : pc[r] = "done"}
  /\ usages = {r \in orders : form[r].coupon}
  /\ coupon.count = Cardinality(usages)

(* Whoever refers to the coupons row keeps it from being deleted.            *)
KeyInv ==
  /\ \A r \in Request : HoldsCouponKey(r) => coupon.exists
  /\ DeletedCouponUnused

IInv == TypeOK /\ LockInv /\ GuardInv /\ BooksInv /\ KeyInv

-----------------------------------------------------------------------------
(* Type correctness: no interleaving of checkouts and merchant edits leaves  *)
(* the tables and locals of the code in an ill-formed state.                 *)
THEOREM TypeCorrect == Spec => []TypeOK
<1> USE CheckoutAssumption DEF Stage, Before, InTransaction, HoldingCart, Ended
<1>1. Init => TypeOK
  BY DEF Init, TypeOK, Coupon
<1>2. TypeOK /\ [Next]_vars => TypeOK'
  <2> SUFFICES ASSUME TypeOK, [Next]_vars PROVE TypeOK'
    OBVIOUS
  <2> USE DEF TypeOK, dbVars, lockVars, localVars, Goto
  <2>1. ASSUME NEW r \in Request, Submit(r) PROVE TypeOK'
    BY <2>1 DEF Submit
  <2>2. ASSUME NEW r \in Request, ValidateCoupon(r) PROVE TypeOK'
    BY <2>2 DEF ValidateCoupon, Coupon
  <2>3. ASSUME NEW r \in Request, CheckUsage(r) PROVE TypeOK'
    BY <2>3 DEF CheckUsage
  <2>4. ASSUME NEW r \in Request, InsertOrder(r) PROVE TypeOK'
    BY <2>4 DEF InsertOrder
  <2>5. ASSUME NEW r \in Request, CollideNumber(r) PROVE TypeOK'
    BY <2>5 DEF CollideNumber
  <2>6. ASSUME NEW r \in Request, ClearCart(r) PROVE TypeOK'
    BY <2>6 DEF ClearCart
  <2>7. ASSUME NEW r \in Request, ReadLimit(r) PROVE TypeOK'
    BY <2>7 DEF ReadLimit, Coupon
  <2>8. ASSUME NEW r \in Request, CountUsages(r) PROVE TypeOK'
    BY <2>8 DEF CountUsages, Rollback, Release
  <2>9. ASSUME NEW r \in Request, IncrementUsage(r) PROVE TypeOK'
    BY <2>9 DEF IncrementUsage, Rollback, Release
  <2>10. ASSUME NEW r \in Request, Commit(r) PROVE TypeOK'
    <3>1. coupon' \in Coupon
      BY <2>10 DEF Commit, Coupon
    <3>2. cartFull' \in [Cart -> BOOLEAN] /\ cartLock' \in [Cart -> Request \cup {NoOne}]
      BY <2>10, Zenon DEF Commit, Release
    <3> QED
      BY <2>10, <3>1, <3>2 DEF Commit, Release
  <2>11. ASSUME NEW r \in Request, Abort(r) PROVE TypeOK'
    BY <2>11 DEF Abort, Rollback, Release
  <2>12. ASSUME NEW l \in Limits \cup {NoLimit}, NEW k \in PerCustomerLimits,
                NEW a \in BOOLEAN, UpdateCoupon(l, k, a)
         PROVE TypeOK'
    BY <2>12 DEF UpdateCoupon, Coupon
  <2>13. ASSUME DeleteCoupon PROVE TypeOK'
    BY <2>13 DEF DeleteCoupon, Coupon
  <2>14. CASE UNCHANGED vars
    BY <2>14 DEF vars
  <2> QED
    BY <2>1, <2>2, <2>3, <2>4, <2>5, <2>6, <2>7, <2>8, <2>9, <2>10, <2>11,
       <2>12, <2>13, <2>14 DEF Next, Step, Merchant
<1> QED
  BY <1>1, <1>2, PTL DEF Spec

-----------------------------------------------------------------------------
(* The stages of a request other than r are untouched by a step of r.        *)
LEMMA GotoOther ==
  ASSUME TypeOK, NEW r \in Request, NEW stage \in Stage, Goto(r, stage)
  PROVE  /\ pc'[r] = stage
         /\ \A q \in Request : q # r => pc'[q] = pc[q]
  BY DEF TypeOK, Goto

(* A step that moves a request between stages outside "done" and             *)
(* "incremented", and writes nothing, keeps the books.                       *)
LEMMA BooksKept ==
  ASSUME TypeOK, BooksInv, NEW r \in Request, NEW stage \in Stage,
         pc[r] # "done", stage # "done", Goto(r, stage),
         UNCHANGED <<coupon, orders, usages, form>>
  PROVE  BooksInv'
  BY GotoOther DEF BooksInv

\* The inductive invariant holds in every reachable state: locks, counters and rows
\* fit together whatever checkouts and the merchant do at once.
THEOREM Invariance == Spec => []IInv
<1> USE CheckoutAssumption
<1>1. Init => IInv
  <2> SUFFICES ASSUME Init PROVE LockInv /\ GuardInv /\ BooksInv /\ KeyInv /\ TypeOK
    BY DEF IInv
  <2>1. TypeOK
    BY DEF Init, TypeOK, Coupon, Stage
  <2>2. LockInv /\ GuardInv /\ KeyInv
    BY DEF Init, LockInv, GuardInv, KeyInv, HoldsCouponKey, DeletedCouponUnused
  <2>3. BooksInv
    BY FS_EmptySet DEF Init, BooksInv
  <2> QED
    BY <2>1, <2>2, <2>3
<1>2. IInv /\ TypeOK' /\ [Next]_vars => IInv'
  <2> SUFFICES ASSUME TypeOK, LockInv, GuardInv, BooksInv, KeyInv, TypeOK', [Next]_vars
               PROVE  LockInv' /\ GuardInv' /\ BooksInv' /\ KeyInv'
    BY DEF IInv
  <2> USE DEF Stage, Before, InTransaction, HoldingCart, Ended
  <2>1. ASSUME NEW r \in Request, NEW stage \in Stage \ {"done", "incremented"},
               pc[r] \notin {"done", "incremented"},
               Goto(r, stage), UNCHANGED <<coupon, orders, usages, form, couponLock>>,
               stage \in {"limitRead", "usageCounted"} => form[r].coupon,
               stage \in InTransaction /\ form[r].coupon => coupon.exists
        PROVE  LockInv' /\ GuardInv' /\ BooksInv' /\ KeyInv'
    <3>1. pc'[r] = stage /\ \A q \in Request : q # r => pc'[q] = pc[q]
      BY <2>1, GotoOther
    <3>2. BooksInv'
      BY <2>1, BooksKept
    <3>3. LockInv'
      BY <2>1, <3>1 DEF LockInv
    <3>4. GuardInv'
      BY <2>1, <3>1 DEF GuardInv, UsageLeft
    <3>5. KeyInv'
      BY <2>1, <3>1 DEF KeyInv, HoldsCouponKey, DeletedCouponUnused
    <3> QED
      BY <3>2, <3>3, <3>4, <3>5
  <2>2. ASSUME NEW r \in Request, Rollback(r), pc[r] \in Before \cup InTransaction
        PROVE  LockInv' /\ GuardInv' /\ BooksInv' /\ KeyInv'
    <3> USE DEF Rollback, dbVars, localVars
    <3>1. pc'[r] = "failed" /\ \A q \in Request : q # r => pc'[q] = pc[q]
      BY <2>2, GotoOther
    <3>2. BooksInv'
      BY <2>2, BooksKept
    <3>3. LockInv'
      BY <2>2, <3>1 DEF LockInv, Release, TypeOK
    <3>4. GuardInv'
      BY <2>2, <3>1 DEF GuardInv, UsageLeft
    <3>5. KeyInv'
      BY <2>2, <3>1 DEF KeyInv, HoldsCouponKey, DeletedCouponUnused
    <3> QED
      BY <3>2, <3>3, <3>4, <3>5
  <2> USE DEF dbVars, lockVars, localVars
  <2>3. ASSUME NEW r \in Request, Submit(r) PROVE LockInv' /\ GuardInv' /\ BooksInv' /\ KeyInv'
    BY <2>3, <2>1 DEF Submit
  <2>4. ASSUME NEW r \in Request, ValidateCoupon(r)
        PROVE LockInv' /\ GuardInv' /\ BooksInv' /\ KeyInv'
    BY <2>4, <2>1 DEF ValidateCoupon
  <2>5. ASSUME NEW r \in Request, CheckUsage(r)
        PROVE LockInv' /\ GuardInv' /\ BooksInv' /\ KeyInv'
    BY <2>5, <2>1 DEF CheckUsage
  <2>6. ASSUME NEW r \in Request, InsertOrder(r)
        PROVE LockInv' /\ GuardInv' /\ BooksInv' /\ KeyInv'
    BY <2>6, <2>1 DEF InsertOrder
  <2>7. ASSUME NEW r \in Request, CollideNumber(r)
        PROVE LockInv' /\ GuardInv' /\ BooksInv' /\ KeyInv'
    <3>1. CASE attempt[r] = MaxRetries - 1
      BY <2>7, <3>1, <2>1 DEF CollideNumber
    <3>2. CASE attempt[r] # MaxRetries - 1
      BY <2>7, <3>2 DEF CollideNumber, LockInv, GuardInv, UsageLeft, BooksInv, KeyInv,
         HoldsCouponKey, DeletedCouponUnused
    <3> QED
      BY <3>1, <3>2
  <2>8. ASSUME NEW r \in Request, ClearCart(r)
        PROVE LockInv' /\ GuardInv' /\ BooksInv' /\ KeyInv'
    BY <2>8, <2>1 DEF ClearCart, KeyInv, HoldsCouponKey
  <2>9. ASSUME NEW r \in Request, ReadLimit(r)
        PROVE LockInv' /\ GuardInv' /\ BooksInv' /\ KeyInv'
    BY <2>9, <2>1 DEF ReadLimit, KeyInv, HoldsCouponKey
  <2>10. ASSUME NEW r \in Request, CountUsages(r)
         PROVE LockInv' /\ GuardInv' /\ BooksInv' /\ KeyInv'
    BY <2>10, <2>1, <2>2 DEF CountUsages, GuardInv, KeyInv, HoldsCouponKey
  <2>11. ASSUME NEW r \in Request, IncrementUsage(r)
         PROVE LockInv' /\ GuardInv' /\ BooksInv' /\ KeyInv'
    <3>1. CASE ~UsageLeft(coupon)
      BY <2>11, <3>1, <2>2 DEF IncrementUsage
    <3>2. CASE UsageLeft(coupon)
      <4> USE <2>11, <3>2 DEF IncrementUsage
      <4>1. pc'[r] = "incremented" /\ \A q \in Request : q # r => pc'[q] = pc[q]
        BY GotoOther
      <4>2. BooksInv'
        BY BooksKept
      <4>3. LockInv'
        BY <4>1 DEF LockInv
      <4>4. GuardInv'
        BY <4>1 DEF GuardInv, UsageLeft
      <4>5. KeyInv'
        BY <4>1 DEF KeyInv, HoldsCouponKey, GuardInv, DeletedCouponUnused
      <4> QED
        BY <4>2, <4>3, <4>4, <4>5
    <3> QED
      BY <3>1, <3>2
  <2>12. ASSUME NEW r \in Request, Commit(r)
         PROVE LockInv' /\ GuardInv' /\ BooksInv' /\ KeyInv'
    <3> USE <2>12 DEF Commit
    <3>1. pc'[r] = "done" /\ \A q \in Request : q # r => pc'[q] = pc[q]
      BY GotoOther
    <3>2. pc[r] \in {"incremented", "cartCleared"} /\ pc[r] # "done"
      OBVIOUS
    <3>3. BooksInv'
      <4>1. orders' = {q \in Request : pc'[q] = "done"}
        BY <3>1 DEF BooksInv
      <4>2. usages' = {q \in orders' : form'[q].coupon}
        BY DEF BooksInv
      <4>3. IsFiniteSet(usages) /\ r \notin usages
        BY <3>2, FS_Subset DEF BooksInv, TypeOK
      <4>4. coupon'.count = Cardinality(usages')
        <5>1. CASE form[r].coupon
          <6>1. coupon'.count = coupon.count + 1
            BY <5>1 DEF TypeOK, Coupon
          <6>2. Cardinality(usages \cup {r}) = Cardinality(usages) + 1
            BY <4>3, FS_AddElement
          <6> QED
            BY <5>1, <6>1, <6>2 DEF BooksInv
        <5>2. CASE ~form[r].coupon
          BY <5>2 DEF BooksInv
        <5> QED
          BY <5>1, <5>2
      <4> QED
        BY <4>1, <4>2, <4>4 DEF BooksInv
    <3>4. LockInv'
      BY <3>1, <3>2 DEF LockInv, Release, TypeOK
    <3>5. GuardInv'
      <4>1. CASE form[r].coupon
        BY <4>1, <3>1 DEF GuardInv, LockInv
      <4>2. CASE ~form[r].coupon
        BY <4>2, <3>1 DEF GuardInv, UsageLeft
      <4> QED
        BY <4>1, <4>2
    <3>6. KeyInv'
      BY <3>1, <3>2 DEF KeyInv, HoldsCouponKey, DeletedCouponUnused, TypeOK, Coupon
    <3> QED
      BY <3>3, <3>4, <3>5, <3>6
  <2>13. ASSUME NEW r \in Request, Abort(r)
         PROVE LockInv' /\ GuardInv' /\ BooksInv' /\ KeyInv'
    BY <2>13, <2>2 DEF Abort
  <2>14. ASSUME NEW l \in Limits \cup {NoLimit}, NEW k \in PerCustomerLimits,
                NEW a \in BOOLEAN, UpdateCoupon(l, k, a)
         PROVE LockInv' /\ GuardInv' /\ BooksInv' /\ KeyInv'
    <3> USE <2>14 DEF UpdateCoupon
    <3>1. coupon'.exists = coupon.exists /\ coupon'.count = coupon.count
      BY DEF TypeOK, Coupon
    <3>2. \A r \in Request : pc[r] # "incremented"
      BY DEF LockInv
    <3> QED
      BY <3>1, <3>2 DEF LockInv, GuardInv, BooksInv, KeyInv, HoldsCouponKey,
         DeletedCouponUnused
  <2>15. ASSUME DeleteCoupon PROVE LockInv' /\ GuardInv' /\ BooksInv' /\ KeyInv'
    <3> USE <2>15 DEF DeleteCoupon
    <3>1. coupon'.count = coupon.count /\ coupon'.limit = coupon.limit
      BY DEF TypeOK, Coupon
    <3> QED
      BY <3>1 DEF LockInv, GuardInv, UsageLeft, BooksInv, KeyInv, HoldsCouponKey,
         DeletedCouponUnused
  <2>16. CASE UNCHANGED vars
    BY <2>16 DEF vars, LockInv, GuardInv, UsageLeft, BooksInv, KeyInv, HoldsCouponKey,
       DeletedCouponUnused
  <2> QED
    BY <2>3, <2>4, <2>5, <2>6, <2>7, <2>8, <2>9, <2>10, <2>11, <2>12, <2>13, <2>14,
       <2>15, <2>16 DEF Next, Step, Merchant
<1> QED
  BY <1>1, <1>2, TypeCorrect, PTL DEF Spec

-----------------------------------------------------------------------------
\* What follows from the invariant

(* The counter, the coupon_usages rows and the orders agree in every         *)
(* committed state of orderService.create and its rollbacks.                 *)
THEOREM BooksBalance == Spec => []UsageMatchesOrders
<1>1. IInv => UsageMatchesOrders
  BY DEF IInv, BooksInv, UsageMatchesOrders
<1> QED
  BY <1>1, Invariance, PTL

(* couponService.delete never removes a coupon an order was placed with.     *)
THEOREM DeletionSafe == Spec => []DeletedCouponUnused
<1>1. IInv => DeletedCouponUnused
  BY DEF IInv, KeyInv
<1> QED
  BY <1>1, Invariance, PTL

(* The only step that raises the counter is the commit of the request that   *)
(* holds the row, and it keeps the counter within the limit.                 *)
LEMMA CounterRaised ==
  ASSUME IInv, [Next]_vars, coupon'.count > coupon.count
  PROVE  UsageLeft(coupon) /\ coupon'.count = coupon.count + 1
<1> USE DEF dbVars, lockVars, localVars
<1>1. coupon.count \in Nat
  BY DEF IInv, TypeOK, Coupon
<1>2. CASE UNCHANGED coupon
  BY <1>1, <1>2
<1>3. ASSUME NEW r \in Request, Commit(r), coupon' # coupon
      PROVE UsageLeft(coupon) /\ coupon'.count = coupon.count + 1
  BY <1>3 DEF Commit, IInv, GuardInv, TypeOK, Coupon
<1>4. ASSUME NEW l, NEW k, NEW a, UpdateCoupon(l, k, a) PROVE coupon'.count = coupon.count
  BY <1>4 DEF UpdateCoupon, IInv, TypeOK, Coupon
<1>5. ASSUME DeleteCoupon PROVE coupon'.count = coupon.count
  BY <1>5 DEF DeleteCoupon, IInv, TypeOK, Coupon
<1>6. ASSUME NEW r \in Request,
             \/ Submit(r) \/ ValidateCoupon(r) \/ CheckUsage(r) \/ InsertOrder(r)
             \/ CollideNumber(r) \/ ClearCart(r) \/ ReadLimit(r) \/ CountUsages(r)
             \/ IncrementUsage(r) \/ Abort(r)
      PROVE UNCHANGED coupon
  BY <1>6 DEF Submit, ValidateCoupon, CheckUsage, InsertOrder, CollideNumber, ClearCart,
     ReadLimit, CountUsages, IncrementUsage, Abort, Rollback
<1> QED
  BY <1>1, <1>2, <1>3, <1>4, <1>5, <1>6 DEF Next, Step, Merchant, vars

(* No redemption takes the counter past the limit in force when it commits,  *)
(* whatever the merchant changes while checkouts are in flight.              *)
THEOREM LimitRespected == Spec => NoOverRedemption
<1>1. IInv /\ [Next]_vars =>
        [coupon'.count > coupon.count =>
           coupon.limit = NoLimit \/ coupon'.count <= coupon.limit]_vars
  <2> SUFFICES ASSUME IInv, [Next]_vars, coupon'.count > coupon.count,
                      coupon.limit # NoLimit
               PROVE  coupon'.count <= coupon.limit
    OBVIOUS
  <2>1. coupon'.count = coupon.count + 1 /\ coupon.count < coupon.limit
    BY CounterRaised DEF UsageLeft
  <2>2. coupon.count \in Nat /\ coupon.limit \in Nat
    BY CheckoutAssumption DEF IInv, TypeOK, Coupon
  <2> QED
    BY <2>1, <2>2
<1> QED
  BY <1>1, Invariance, PTL DEF Spec, NoOverRedemption

-----------------------------------------------------------------------------
(* A cart that is empty was emptied by an order that committed: a checkout   *)
(* that fails, is refused a coupon or dies leaves the cart as it was.        *)
THEOREM CartsEmptiedByOrdersOnly == Spec => []CartEmptiedByOrder
<1> USE DEF dbVars, lockVars, localVars
<1>1. Init => CartEmptiedByOrder
  BY DEF Init, CartEmptiedByOrder
<1>2. TypeOK /\ CartEmptiedByOrder /\ [Next]_vars => CartEmptiedByOrder'
  <2> SUFFICES ASSUME TypeOK, CartEmptiedByOrder, [Next]_vars,
                      NEW c \in Cart, ~cartFull'[c]
               PROVE  \E r \in orders' : form'[r].cart = c
    BY DEF CartEmptiedByOrder
  <2>1. ASSUME NEW r \in Request, Commit(r)
        PROVE  \E q \in orders' : form'[q].cart = c
    <3>1. orders' = orders \cup {r} /\ form' = form
      BY <2>1 DEF Commit
    <3>2. CASE c = form[r].cart
      BY <3>1, <3>2
    <3>3. CASE c # form[r].cart
      <4>1. ~cartFull[c]
        BY <2>1, <3>3 DEF Commit
      <4> QED
        BY <3>1, <4>1 DEF CartEmptiedByOrder
    <3> QED
      BY <3>2, <3>3
  <2>2. ASSUME UNCHANGED <<orders, cartFull, form>>
        PROVE  \E q \in orders' : form'[q].cart = c
    BY <2>2 DEF CartEmptiedByOrder
  <2>3. UNCHANGED <<orders, cartFull, form>> \/ \E r \in Request : Commit(r)
    BY DEF Next, Step, Merchant, Submit, ValidateCoupon, CheckUsage, InsertOrder, CollideNumber,
       ClearCart, ReadLimit, CountUsages, IncrementUsage, Abort, Rollback, UpdateCoupon,
       DeleteCoupon, vars
  <2> QED
    BY <2>1, <2>2, <2>3
<1> QED
  BY <1>1, <1>2, TypeCorrect, PTL DEF Spec

-----------------------------------------------------------------------------
(* Checkout implements the coupon ledger: with the orders' usages as the     *)
(* redemptions, a commit is a redemption within the limit, the merchant's    *)
(* edits are the ledger's, and every other step is invisible.                *)
THEOREM CheckoutImplementsLedger == Spec => ImplementsLedger
<1> USE DEF dbVars, lockVars, localVars
<1>1. Init => Ledger!Init
  BY DEF Init, Ledger!Init
<1>2. IInv /\ [Next]_vars => [Ledger!Next]_<<coupon.exists, coupon.limit, usages>>
  <2> SUFFICES ASSUME IInv, [Next]_vars
               PROVE  Ledger!Next \/ UNCHANGED <<coupon.exists, coupon.limit, usages>>
    OBVIOUS
  <2>1. ASSUME NEW r \in Request, Commit(r)
        PROVE  Ledger!Next \/ UNCHANGED <<coupon.exists, coupon.limit, usages>>
    <3>1. CASE form[r].coupon
      <4> USE <2>1, <3>1 DEF Commit
      <4>1. coupon'.exists = coupon.exists /\ coupon'.limit = coupon.limit
        BY DEF IInv, TypeOK, Coupon
      <4>2. coupon.exists
        BY DEF IInv, KeyInv, HoldsCouponKey, InTransaction, HoldingCart
      <4>3. r \notin usages
        BY DEF IInv, BooksInv
      <4>4. coupon.limit = NoLimit \/ Cardinality(usages) < coupon.limit
        BY DEF IInv, GuardInv, BooksInv, UsageLeft
      <4>5. usages' = usages \cup {r}
        OBVIOUS
      <4> HIDE <2>1, <3>1 DEF Commit
      <4>6. Ledger!Cardinality(usages) = Cardinality(usages)
        BY Zenon DEF Ledger!Cardinality, Cardinality
      <4>7. Ledger!Redeem(r)
        BY <4>1, <4>2, <4>3, <4>4, <4>5, <4>6, Zenon DEF Ledger!Redeem
      <4> QED
        BY <4>7 DEF Ledger!Next
    <3>2. CASE ~form[r].coupon
      BY <2>1, <3>2 DEF Commit
    <3> QED
      BY <3>1, <3>2
  <2>2. ASSUME NEW l \in Limits \cup {NoLimit}, NEW k \in PerCustomerLimits,
               NEW a \in BOOLEAN, UpdateCoupon(l, k, a)
        PROVE  Ledger!Next
    <3>1. coupon'.exists = coupon.exists /\ coupon'.limit = l
      BY <2>2 DEF UpdateCoupon, IInv, TypeOK, Coupon
    <3>2. Ledger!ChangeLimit
      BY <2>2, <3>1 DEF UpdateCoupon, Ledger!ChangeLimit
    <3> QED
      BY <3>2 DEF Ledger!Next
  <2>3. ASSUME DeleteCoupon PROVE Ledger!Next
    <3>1. coupon'.exists = FALSE /\ coupon'.limit = coupon.limit
      BY <2>3 DEF DeleteCoupon, IInv, TypeOK, Coupon
    <3>2. Ledger!Withdraw
      BY <2>3, <3>1 DEF DeleteCoupon, Ledger!Withdraw
    <3> QED
      BY <3>2 DEF Ledger!Next
  <2>4. ASSUME NEW r \in Request,
               \/ Submit(r) \/ ValidateCoupon(r) \/ CheckUsage(r) \/ InsertOrder(r)
               \/ CollideNumber(r) \/ ClearCart(r) \/ ReadLimit(r) \/ CountUsages(r)
               \/ IncrementUsage(r) \/ Abort(r)
        PROVE UNCHANGED <<coupon, usages>>
    BY <2>4 DEF Submit, ValidateCoupon, CheckUsage, InsertOrder, CollideNumber, ClearCart,
       ReadLimit, CountUsages, IncrementUsage, Abort, Rollback
  <2> QED
    BY <2>1, <2>2, <2>3, <2>4 DEF Next, Step, Merchant, vars
<1> QED
  BY <1>1, <1>2, Invariance, PTL DEF Spec, ImplementsLedger, Ledger!Spec, Ledger!ledgerVars
=============================================================================
