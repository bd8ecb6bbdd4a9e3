SPECIFICATION MCSpec
CONSTANTS
  w1 = w1
  w2 = w2
  s1 = s1
  s2 = s2
  h1 = h1
  c1 = c1
  c2 = c2
  Events = {1}
  Hooks = {h1}
  HookOf <- OneHook
  Services = {s1, s2}
  Deliverers = {w1, w2}
  ServiceOf <- OneServiceEach
  MaxAttempts = 2
  BatchLimit = 1
  BacklogLimit = 1
  ChanCap = 1
  MaxFaults = 1
  MaxEdits = 0
  Mortal = {s2}
  Deaf = {s1}
  Conns = {c1, c2}
  Owners = {"owner", "other"}
  OwnerOf <- OneOwner
  MaxConnections = 2
  MaxPerOwner = 1
  Entries = {e1, e2, e3}
  Flushes = {f1}
  BufferSize = 2
  BatchSize = 2
  MaxWriteErrors = 1
  Lookups = {w1, w2}
  Nobody = none
  RoutedBranches = {c1, c2}
  BranchSlugOf <- SameSlug
  ClosedBy = {"idle"}
  PoolConns = 1
  MaxConns = 1
  MaxPools = 2
INVARIANTS
  
  NothingLostSilently
PROPERTIES
  EveryEventSettles SlowClientsLeave EntriesSettle RefinesRegistry LookupsReturn
CHECK_DEADLOCK FALSE
