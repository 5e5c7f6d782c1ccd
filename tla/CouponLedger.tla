---------------------------- MODULE CouponLedger ----------------------------
(***************************************************************************)
(* What a coupon promises a merchant, with no transaction, no lock and no   *)
(* stale read in sight: a coupon is redeemed by whole orders, one at a      *)
(* time, never past the limit in force at that instant, and it can be       *)
(* withdrawn only while nobody has redeemed it.  Checkout implements this   *)
(* (apps/backend/src/modules/order/order.repo.ts, incrementCouponUsage).    *)
(***************************************************************************)
EXTENDS Naturals, FiniteSets

CONSTANTS Redemption,   \* whoever may redeem the coupon: one id per order
          Limits,       \* the limits a merchant may set
          NoLimit       \* the null usage limit

VARIABLES issued,       \* the coupon can be redeemed at all
          limit,        \* Limits or NoLimit
          redeemed      \* the orders that redeemed it

ledgerVars == <<issued, limit, redeemed>>

Init ==
  /\ issued = TRUE
  /\ limit \in Limits \cup {NoLimit}
  /\ redeemed = {}

Redeem(r) ==
  /\ issued
  /\ r \notin redeemed
  /\ limit = NoLimit \/ Cardinality(redeemed) < limit
  /\ redeemed' = redeemed \cup {r}
  /\ UNCHANGED <<issued, limit>>

ChangeLimit ==
  /\ issued
  /\ limit' \in Limits \cup {NoLimit}
  /\ UNCHANGED <<issued, redeemed>>

Withdraw ==
  /\ issued
  /\ redeemed = {}
  /\ issued' = FALSE
  /\ UNCHANGED <<limit, redeemed>>

Next ==
  \/ \E r \in Redemption : Redeem(r)
  \/ ChangeLimit
  \/ Withdraw

Spec == Init /\ [][Next]_ledgerVars
=============================================================================
