SPECIFICATION Spec
CONSTANTS
  j1 = j1
  j2 = j2
  w1 = w1
  w2 = w2
  w3 = w3
  a = a
  b = b
  Jobs = {j1}
  Workers = {w1, w2, w3}
  Instances = {a, b}
  NoWorker = NoWorker
  Host <- TwoAndOne
  Replacements = {}
  TenantJobs = {}
  MaxRetries = 2
  MaxConcurrent = 1
  MaxClaims = 5
  Cancellable = {j1}
  Silent = {}
  Stallable = {}
  Fragile = {}
  Crashable = {a, b}
  Stoppable = {}
  DBMayFail = TRUE
INVARIANTS TypeOK ClaimsArePaid ExclusiveExecution
PROPERTIES TerminalIsFinal
CHECK_DEADLOCK FALSE
