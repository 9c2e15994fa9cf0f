SPECIFICATION PlatformSpec
CONSTANTS
  Consumers = {w1, w2}
  MaxRetries = 3
  MaxCrashes = 1
  Callers = {s1}
  RetryLimit = 3
  Askers = {r1, r2, r3}
  MaxKeyRows = 3
  Coroutines = {c1, c2, c3}
  FailureThreshold = 2
  SuccessThreshold = 2
  OpenFor = 2
  Writers = {t1, t2}
  EntryTypes = {a, b}
  MaxRecords = 3
  login = login
  register = register
  Routes = {login, register}
  WindowOf <- Windows
  MostOf <- Mosts
  CleanEvery = 1
  KeptAge = 3
  Quoters = {q1, q2}
  Providers = 2
  PriceTTL = 1
  RateTTL = 2
  MaxAge = 4
  MaxFetches = 1
  Relays = {p1, p2}
  MaxSends = 3
  ChainsOf <- ChainsTaken
  MaxCrashed = 1
  Items = {i1}
  Viewers = {v1}
  Span = 1
  BoardTime = 1
  LastTick = 2
  MaxMoves = 2
  Months <- MonthsAsked
CHECK_DEADLOCK FALSE
INVARIANTS PlatformTypeOK QueueSafe GuardsHold RecordsHold RelayersHold
PROPERTIES PlatformSettles
