SPECIFICATION Spec
CONSTANTS
    Payments = {p1}
    MaxRefunds = 1
    PaymentAmount = 1
    InitialBalance = 1
    CreditAmount = 1
    MaxCredits = 0
    Withheld = {0, 1}
    Requests = {q1, q2, q3}
    Workers = {w1, w2}
    MaxCrashes = 0
INVARIANTS
    IInv
    QueuedIsUntouched
    CompletedWasSent
PROPERTIES
    KeepsPromise
SYMMETRY Symmetry
CHECK_DEADLOCK FALSE
