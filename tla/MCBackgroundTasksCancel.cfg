\* No faults: a committed cancel is overwritten by the worker's verdict.
CONSTANTS
  MaxTasks = 2
  Requests = {r1, r2}
  Workers = {w1}
  Keys = {k1}
  NoKey = NoKey
  MaxRetries = 0
  Faulty = FALSE
SPECIFICATION Spec
INVARIANTS
  CancelledNeverSucceeds
CHECK_DEADLOCK FALSE
