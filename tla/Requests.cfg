SPECIFICATION MCSpec
CONSTANTS
  a1 = a1
  a2 = a2
  a3 = a3
  b1 = b1
  b2 = b2
  Events = {1}
  Hooks = {b1}
  HookOf <- OneHook
  Services = {b1, b2}
  Deliverers = {a1, a2}
  ServiceOf <- OneServiceEach
  MaxAttempts = 2
  BatchLimit = 1
  BacklogLimit = 1
  ChanCap = 1
  MaxFaults = 1
  MaxEdits = 1
  Mortal = {b2}
  Deaf = {b1}
  Webhooks = {a1, a2}
  Tables = {b1}
  Admins = {b1, b2}
  NoWebhook = none
  MaxEntries = 2
  MaxCalls = 3
  Members = {a1, a2}
  NoMember = none
  Channels = {b1}
  Keys = {k1, k2}
  NoKey = none
  Subscriptions = {a1, a2, a3}
  TopicOf <- TwoOnSchema
  Topics = {"schema", "logs"}
  ListenedTo = {"schema"}
  MaxMessages = 2
  SubBuffer = 1
  MaxBreaks = 1
  Requests = {a1, a2, a3}
  Content <- SameButLast
  NoRequest = none
  MaxErrors = 1
  MaxLapses = 1
  Clients = {a1, a2}
  MaxGrants = 3
  MaxBroken = 1
  Auths = {a1, a2}
  Checks = {b1, b2}
  Revokers = {v1}
  Tokens = {k1}
  CacheTTL = 2
  Second = 2
  Patience = 1
  MaxClock = 4
  Logins = {a1, a2}
  Threshold = 2
  MaxWrong = 4
  MaxLocks = 1
  MaxUnwritten = 1
  Ops = {b1, b2}
  Names = {a1, a2, a3, b1}
  Tenants = {"t"}
  Instance = "i"
  TenantOf <- BranchTenant
  SlugOf <- BranchSlug
  DatabaseOf <- BranchDatabase
  MaxRows = 3
  MaxBranches = 1
  NoBranch = none
  MaxDbErrors = 1
  MaxBegun = 4
  TenantCalls = {a1, a2, a3}
  Slugs = {b1}
  NoSlug = none
  MaxIds = 2
  MaxTenants = 2
  MaxSlips = 1
  MaxTenantCalls = 4
  Puts = {a1, a2, a3}
  ChunkOf <- TwoOnOneChunk
  Completions = {b1, b2}
  MaxRowErrors = 1
  Executors = {b1, b2}
  Texts = {a1, a2}
  NoExecutor = none
  MaxMigrations = 2
  MaxUps = 2
  MaxUnanswered = 1
  Servers = {b1, b2}
  Readers = {a1, a2}
  ReadAt <- AllOnFirst
  Alterers = {a1, a2}
  AlteredAt <- OneOnEach
  Lookups = {a1, a2}
  Nobody = none
  RoutedBranches = {a1, b1}
  BranchSlugOf <- BranchSlug
  ClosedBy = {"delete", "reset", "idle"}
  PoolConns = 1
  MaxConns = 1
  MaxPools = 2
INVARIANTS
  NotGivenUpEarly DuplicatesBounded
  TablesWatched
  PresenceTruthful
  DeliveryUndisturbed
  RepeatsExcused 
  SignOutEnds
  
  GuessesBounded LockHolds
  RowsTellDatabases OvershootBounded
   PoolsOfTheSeen
  AnsweredIsStored 
  StatusTruthful
  
  
PROPERTIES
  RefinesGrants
CHECK_DEADLOCK FALSE
