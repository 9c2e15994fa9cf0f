SPECIFICATION Spec
CONSTANTS
    Payments = {p1}
    MaxRefunds = 1
    PaymentAmount = 1
    InitialBalance = 1
    CreditAmount = 1
    MaxCredits = 0
    Withheld = {0}
    Requests = {q1, q2, q3}
    Workers = {w1}
    MaxCrashes = 0
PROPERTIES
    CancelledIsNotSent
SYMMETRY Symmetry
CHECK_DEADLOCK FALSE
