SPECIFICATION DetectionSpec
CONSTANTS
  Learners = {l1, l2}
  Login = login
  Items = items
  Numbers = {0, 1, 2, 3}
  Minute = 2
  Second = 1
  PauseGap = 1
  BurstHigh = 1
  RateHigh = 2
  LoginHigh = 1
  MinSequence = 3
  PauseCount = 1
  Nothing = Nothing
  MaxTime = 4
  MaxRequests = 4
PROPERTY BurstsAreCurrent
SYMMETRY MCSymmetry
CHECK_DEADLOCK FALSE
