SPECIFICATION Spec
CONSTANTS
  c1 = c1
  c2 = c2
  c3 = c3
  i1 = i1
  i2 = i2
  i3 = i3
  a1 = a1
  a2 = a2
  a3 = a3
  a4 = a4
  r1 = r1
  u1 = u1
  u2 = u2
  u3 = u3
  Creation = {c1, c2, c3}
  Invite = {i1, i2, i3}
  Accept = {a1, a2, a3, a4}
  Reject = {r1}
  Upload = {u1, u2, u3}
  Target <- Holders
  Emails <- Addresses
  Size <- Bytes
  Plans <- TwoPlans
  NoLimit = NoLimit
  DefaultMax = 2
  ColumnMax = 3
  MaxEdits = 1
  Loads <- FourLoads
  Nobody = Nobody
INVARIANTS
  TypeOK
  OverLimitNeedsOverlap
  StorageIsCounted
  StorageWithinPlan
  InvitationDecidedOnce
CHECK_DEADLOCK FALSE
