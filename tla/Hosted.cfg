SPECIFICATION HostedFairSpec
CONSTANTS
  Subs = {s1}
  MaxRequests = 3
  TrialDays = 1
  Period = 1
  Fee = TRUE
  MaxCycles = 1
  Grace = 1
  MaxRetries = 1
  SessionDays = 1
  MaxDay = 2
  MaxSessions = 5
  MaxPayments = 6
CHECK_DEADLOCK FALSE
INVARIANTS HostedTypeOK CyclesWereCollected
PROPERTIES TrialIsGrantedOnce UnwantedEnds
