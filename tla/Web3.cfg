SPECIFICATION Spec
CONSTANTS
  Interval = 2
  MaxTime = 2
  Requests = {q1}
  Cancels = {c1}
  Workers = {w1, w2}
  Retry = 1
  Grace = 2
  BatchSize = 1
  MaxLate = 1
  MaxCrashes = 0
CHECK_DEADLOCK FALSE
SYMMETRY Symmetry
INVARIANTS TypeOK BooksAreBacked MandateHasOwner
PROPERTIES NoEarlyPause KeepsPromise
