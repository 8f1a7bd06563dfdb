SPECIFICATION Spec
CONSTANTS
  j1 = j1
  j2 = j2
  Jobs = {j1, j2}
  Workers = {w1, w2}
  MaxRetries = 2
  Tier0Of <- MCTier0Of
  NoCopy = NoCopy
  NoRow = NoRow
  MaxFaults = 2
  MaxCrashes = 1
INVARIANTS PipeTypeOK Accounted AuditSound MarkedAfterApplied
PROPERTIES RefinesReview
SYMMETRY MCSymmetry
CHECK_DEADLOCK FALSE
