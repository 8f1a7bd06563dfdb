SPECIFICATION MCSpec
CONSTANTS
  Tunings = {default, strict}
  Default = default
  Thresholds = {builtin, tuned}
  BuiltIn = builtin
  JWTSecrets = {j1, j2}
  Editors = {e1, e2}
  NoFile = NoFile
  NoConfig = NoConfig
  EnvCorazaOff = FALSE
  People = {owner, guest}
  Names = {n1, n2}
  Keys = {k1, k2}
  Calls = {c1, c2}
  Nobody = Nobody
  Torn = Torn
  NoCall = NoCall
  MaxCalls = 2
  MaxChanges = 2
  MaxCrashes = 1
INVARIANTS ConfigTypeOK SettledConfigAgrees AckedConfigIsStored OnlyAdmittedHoldSessions AckedAccountsAreStored
PROPERTY NoTakeover
SYMMETRY MCSymmetry
CHECK_DEADLOCK FALSE
