SPECIFICATION MCSpec
CONSTANTS
  Backend = backend
  t1 = t1
  t2 = t2
  r1 = r1
  r2 = r2
  Threads = {t1, t2}
  Children = {c1}
  Requests = {r1, r2}
  Garbling = {r2}
  NoRequest = NoRequest
  NoJob = NoJob
  Free = Free
  Effects = {"exec", "tautology"}
  Enforce = TRUE
  DBEnforce = FALSE
  Capacity = 1
  MaxVerdicts = 2
  MaxDeaths = 1
INVARIANTS RaspTypeOK VerdictsAccounted RetryReachesIngest
PROPERTY EmitReturns
CHECK_DEADLOCK FALSE
