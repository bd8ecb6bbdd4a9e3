SPECIFICATION Spec
CONSTANTS
  j1 = j1
  j2 = j2
  w1 = w1
  w2 = w2
  w3 = w3
  a = a
  b = b
  Jobs = {j1}
  Workers = {w1, w2}
  Instances = {a, b}
  NoWorker = NoWorker
  Host <- OnePerInstance
  Replacements = {}
  TenantJobs = {}
  MaxRetries = 1
  MaxConcurrent = 1
  MaxClaims = 3
  Cancellable = {}
  Silent = {}
  Stallable = {}
  Fragile = {}
  Crashable = {}
  Stoppable = {a}
  DBMayFail = FALSE
PROPERTIES LiveWorkersUndisturbed
CHECK_DEADLOCK FALSE
