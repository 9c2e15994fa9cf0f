SPECIFICATION FairSpec
CONSTANTS
  MaxSessions = 2
  MaxTransfers = 1
  Routes = {r1}
  Chain <- Tron
  Amounts = {1}
  Requests = {q1, q2, q3}
  Listeners = {"poller"}
  SeenCap = 5
  CouponLimit = 1
  MaxRestarts = 0
CHECK_DEADLOCK FALSE
PROPERTY PaymentsSettle
