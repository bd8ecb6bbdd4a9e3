SPECIFICATION FairSpec
CONSTANTS
  j1 = j1
  j2 = j2
  w1 = w1
  w2 = w2
  w3 = w3
  a = a
  b = b
  Jobs = {j1}
  Workers = {w1, w2}
  Instances = {a, b}
  NoWorker = NoWorker
  Host <- OnePerInstance
  Replacements = {}
  TenantJobs = {}
  MaxRetries = 1
  MaxConcurrent = 1
  MaxClaims = 4
  Cancellable = {}
  Silent = {j1}
  Stallable = {}
  Fragile = {}
  Crashable = {a}
  Stoppable = {}
  DBMayFail = TRUE
PROPERTIES EveryJobSettles
CHECK_DEADLOCK FALSE
