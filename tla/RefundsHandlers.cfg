SPECIFICATION Spec
CONSTANTS
    Payments = {p1}
    MaxRefunds = 2
    PaymentAmount = 2
    InitialBalance = 1
    CreditAmount = 1
    MaxCredits = 1
    Withheld = {0}
    Requests = {q1, q2, q3}
    Workers = {w1}
    MaxCrashes = 0
INVARIANTS
    RefundedIsAsked
    BalanceNeverOverdrawn
    UnfundedOnlyByUpdateAddress
PROPERTIES
    QueuedIsLeftForGood
SYMMETRY Symmetry
CHECK_DEADLOCK FALSE
