\* No faults: the worker may still take a message before its rows are committed.
CONSTANTS
  MaxTasks = 2
  Requests = {r1, r2}
  Workers = {w1}
  Keys = {k1}
  NoKey = NoKey
  MaxRetries = 0
  Faulty = FALSE
SPECIFICATION Spec
INVARIANTS
  WorkerFindsRows
CHECK_DEADLOCK FALSE
