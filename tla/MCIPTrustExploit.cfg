SPECIFICATION MCSpec
CONSTANTS
  LoginBlock = 1
  LoginBan = 2
  SensBlock = 2
  SensBan = 3
  MaxCountries = 1
  BurstChallenge = 0
  BurstBan = 1
  UserFailBan = 2
  MaxRASPHits = 1
  IPs = {ip1}
  Learners = {l1, l2}
  ProfileIds = {p1, p2, p3}
  MaxEvents = 3
  MaxHits = 1
  MaxInterventions = 1
  NoProfile = NoProfile
  Countries = {TN}
  JA4s = {j1}
  Users = {u1}
  NoUser = NoUser
  NoJob = NoJob
  Events <- MCEvents
  CorrectionDelta = 60
SYMMETRY MCSymmetry
CHECK_DEADLOCK FALSE
INVARIANT ExploitBansNextRequest
