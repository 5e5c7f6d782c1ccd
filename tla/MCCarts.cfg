\* Two requests of two browsers, at once or one after the other, and the
\* reminders of two instances meanwhile.
SPECIFICATION Spec
CONSTANTS
  Request = {q1, q2}
  Browser = {b1, b2}
  Key = {k1, k1r, k2}
  DedupKey <- Sorted
  b1 = b1
  b2 = b2
  k1 = k1
  k1r = k1r
  k2 = k2
  Ops <- FewOps
  Starts <- ThreeStarts
  Instance = {s1, s2}
  MaxCarts = 3
  MaxRuns = 2
  RequestAttempts = 2
  CronAttempts = 1
  MaxBreaks = 2
SYMMETRY Symmetric
CHECK_DEADLOCK FALSE
INVARIANTS
  TypeOK
  ItemsSurviveLogin
  ItemsAddedOnce
  TotalsAgree
  
  OneCart
  ReminderOnce
