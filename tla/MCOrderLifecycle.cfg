\* A status change, two intents and two deliveries of one event, with a
\* configuration both readers understand, as the route's tests assume.
SPECIFICATION FairSpec
CONSTANTS
  StatusRequest = {s1}
  Intent = {i1, i2}
  Delivery = {d1, d2}
  Targets = {"shipped", "cancelled"}
  Providers = {"cod", "stripe", "razorpay"}
  Product = {p1}
  Items <- OneItem
  p1 = p1
  Supplies = {1}
  RouteReadsSecret = TRUE
  ServiceReadsSecret = TRUE
  NoOne = NoOne
  MaxFaults = 1
CHECK_DEADLOCK FALSE
INVARIANTS
  TypeOK
  PaidMeansCompleted
PROPERTIES
  PaymentIsKept
  RestockOnlyByCancelling
  EveryRequestEnds
