\* An order with a cancellation, an intent and a delivery, in any order.
SPECIFICATION Spec
CONSTANTS
  StatusRequest = {s1}
  Intent = {i1}
  Delivery = {d1}
  Targets = {"shipped", "cancelled"}
  Providers = {"cod", "stripe", "razorpay"}
  Product = {p1}
  Items <- OneItem
  p1 = p1
  Supplies = {1}
  RouteReadsSecret = TRUE
  ServiceReadsSecret = TRUE
  NoOne = NoOne
  MaxFaults = 0
CHECK_DEADLOCK FALSE
INVARIANTS
  CancelRestoresWhatWasTaken
