SPECIFICATION MCSpec
CONSTANTS
  IPs = {ip1}
  Users = {u1}
  NoUser = NoUser
  Requests = {r1, r2}
  BucketIds = {b1, b2, b3, b4}
  NoBucket = NoBucket
  Tiers <- MCTiers
  Unit = 2
  TopRate = 3
  TopBurst = 4
  MaxIdle = 2
  NoPromise = NoPromise
  MaxTime = 4
INVARIANTS LimiterTypeOK WithinBudget RetryAfterHonoured
SYMMETRY MCSymmetry
VIEW MCView
CHECK_DEADLOCK FALSE
