SPECIFICATION FairSpec
CONSTANTS
    Payments = {p1}
    MaxRefunds = 2
    PaymentAmount = 1
    InitialBalance = 2
    CreditAmount = 1
    MaxCredits = 0
    Withheld = {0}
    Requests = {q1, q2}
    Workers = {w1}
    MaxCrashes = 1
PROPERTIES
    PendingIsPickedUp
CHECK_DEADLOCK FALSE
