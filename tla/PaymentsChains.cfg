SPECIFICATION Spec
CONSTANTS
  MaxSessions = 1
  MaxTransfers = 1
  Routes = {"stellar", "tron", "evm"}
  Chain <- Mixed
  Amounts = {1}
  Requests = {q1, q2, q3}
  Listeners = {"poller", "stream"}
  SeenCap = 5
  CouponLimit = 1
  MaxRestarts = 1
CHECK_DEADLOCK FALSE
SYMMETRY Symmetry
INVARIANTS TypeOK SettledWasPaid CreditsAreBacked UsageIsBacked
PROPERTY KeepsPromise
