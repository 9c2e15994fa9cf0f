SPECIFICATION FairSpec
CONSTANTS
  MaxSessions = 2
  MaxTransfers = 2
  Routes = {r1}
  Chain <- Stellar
  Amounts = {1}
  Requests = {q1, q2}
  Listeners = {"poller"}
  SeenCap = 2
  CouponLimit = 1
  MaxRestarts = 1
CHECK_DEADLOCK FALSE
INVARIANT SpentOncePerLife
PROPERTY StellarIsExamined
