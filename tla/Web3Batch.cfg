SPECIFICATION RunningSpec
CONSTANTS
  Interval = 1
  MaxTime = 2
  Requests = {q1, q2}
  running = q1
  Cancels = {}
  Workers = {w1}
  Retry = 1
  Grace = 2
  BatchSize = 1
  MaxLate = 0
  MaxCrashes = 1
CHECK_DEADLOCK FALSE
PROPERTY DueIsHandled
