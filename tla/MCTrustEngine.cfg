SPECIFICATION MCSpec
CONSTANTS
  LoginBlock = 1
  LoginBan = 2
  SensBlock = 2
  SensBan = 3
  MaxCountries = 1
  BurstChallenge = 0
  BurstBan = 1
  UserFailBan = 2
  MaxRASPHits = 1
  IPs = {ip1}
  Learners = {l1, l2}
  ProfileIds = {p1, p2, p3}
  UserIds = {v1, v2}
  Writers = {w1}
  MaxEvents = 2
  MaxWrites = 1
  NoProfile = NoProfile
  NoTail = NoTail
  NoJA4 = NoJA4
  Countries = {TN}
  JA4s = {NoJA4}
  Users = {u1}
  NoUser = NoUser
  NoJob = NoJob
  Events <- MCEvents
  Behaviours <- MCBehaviours
  CorrectionDelta = 60
INVARIANTS EngineTypeOK ExploitContainedForAll SettledUserIsFlagged
PROPERTIES SingleEventInertia
SYMMETRY MCSymmetry
CHECK_DEADLOCK FALSE
