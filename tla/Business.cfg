SPECIFICATION BusinessSpec
CONSTANTS
  p1 = p1
  p2 = p2
  h1 = h1
  h2 = h2
  o1 = o1
  o2 = o2
  Cashiers = {p1, p2}
  Amounts = {1, 2}
  Flat = 1
  Limits <- TierLimits
  MaxBalance = 3
  MaxAsked = 5
  DayLength = 1
  MaxMinute = 1
  Clerks = {p1, p2}
  PaidSessions = {ps1}
  Taxes = {0, 1}
  MaxInvoices = 2
  MaxEdits = 3
  Openers = {o1, o2}
  Processes = {h1, h2}
  HomeOf <- Homes
  Prices = {1}
  MaxOpened = 2
  TokenTTL = 1
  MaxTick = 2
  Doors = {p1, p2}
  Locks <- LockTimes
  SessionLife = 1
  KeptFor = 0
  MaxCalls = 4
  MaxSeats = 3
  MaxHour = 2
  Managers = {p1, p2}
  Emails = {e1}
  MaxAsks = 5
  Workers = {p1, p2}
  Chains = {x, y}
  MaxOrders = 4
SYMMETRY Alike
CHECK_DEADLOCK FALSE
INVARIANTS BusinessTypeOK WithdrawalsHold InvoicesHold LinksHold SeatsHold MembersHold AccountsHold
