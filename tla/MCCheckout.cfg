\* Three checkouts of one customer and one cart against one coupon, with the
\* merchant editing and deleting it.
SPECIFICATION FairSpec
CONSTANTS
  Request = {r1, r2, r3}
  Customer = {alice}
  Cart = {cart}
  NoCart = NoCart
  Limits = {1}
  PerCustomerLimits = {2}
  NoLimit = NoLimit
  NoOne = NoOne
  MaxRetries = 2
CHECK_DEADLOCK FALSE
INVARIANTS
  TypeOK
  UsageMatchesOrders
  DeletedCouponUnused
  CartEmptiedByOrder
PROPERTIES
  NoOverRedemption
  ImplementsLedger
  EveryCheckoutEnds
