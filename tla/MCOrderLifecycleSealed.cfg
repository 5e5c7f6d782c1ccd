\* The configuration as configureProvider stores it: an encrypted string.
SPECIFICATION FairSpec
CONSTANTS
  StatusRequest = {s1}
  Intent = {i1}
  Delivery = {d1, d2}
  Targets = {"shipped"}
  Providers = {"cod", "stripe", "razorpay"}
  Product = {p1}
  Items <- OneItem
  p1 = p1
  Supplies = {1}
  RouteReadsSecret = TRUE
  ServiceReadsSecret = FALSE
  NoOne = NoOne
  MaxFaults = 0
CHECK_DEADLOCK FALSE
PROPERTIES
  CapturedIsSettled
