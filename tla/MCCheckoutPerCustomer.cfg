\* Two checkouts of one customer with a coupon each customer may use once.
SPECIFICATION Spec
CONSTANTS
  Request = {r1, r2}
  Customer = {alice}
  Cart = {cart}
  NoCart = NoCart
  Limits = {1}
  PerCustomerLimits = {1}
  NoLimit = NoLimit
  NoOne = NoOne
  MaxRetries = 3
CHECK_DEADLOCK FALSE
INVARIANTS
  PerCustomerLimitHeld
