SPECIFICATION MCSpec
CONSTANTS
  Lax = lax
  Strict = strict
  Tunings <- MCTunings
  Default = lax
  Thresholds = {builtin}
  BuiltIn = builtin
  JWTSecrets = {j1, j2}
  Editors = {e1}
  NoFile = NoFile
  NoConfig = NoConfig
  EnvCorazaOff = FALSE
  Requests = {r1}
  First = a0
  Inside = a1
  Addresses <- MCAddresses
  MaskOf <- MCMaskOf
  Probs <- MCProbs
  Unit <- MCUnit
  BlockAt <- MCBlockAt
  Margin <- MCMargin
  MaxDay = 2
  NoToken = NoToken
  NoAddress = NoAddress
  MaxChanges = 1
  MaxCrashes = 1
  MaxSolutions = 1
INVARIANTS ProxyTypeOK CalmRequestsFollowThePolicy OverlappedRequestsKeepTheCore PanicsNeedASwitch ClearanceIsEarned
SYMMETRY MCSymmetry
CHECK_DEADLOCK FALSE
