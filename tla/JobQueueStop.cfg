SPECIFICATION Spec
CONSTANTS
  j1 = j1
  j2 = j2
  w1 = w1
  w2 = w2
  w3 = w3
  a = a
  b = b
  Jobs = {j1}
  Workers = {w1, w2}
  Instances = {a, b}
  NoWorker = NoWorker
  Host <- TwoOnOne
  Replacements = {w2}
  TenantJobs = {}
  MaxRetries = 0
  MaxConcurrent = 1
  MaxClaims = 2
  Cancellable = {}
  Silent = {}
  Stallable = {w2}
  Fragile = {w1}
  Crashable = {}
  Stoppable = {a}
  DBMayFail = FALSE
INVARIANTS RobbedOnlyAfterRecovery
PROPERTIES RefinesLifecycle
CHECK_DEADLOCK FALSE
