\* Liveness: two tasks, two requests, one worker and one retry, no aborts, no
\* lost workers.
CONSTANTS
  MaxTasks = 2
  Requests = {r1, r2}
  Workers = {w1}
  Keys = {}
  NoKey = NoKey
  MaxRetries = 1
  Faulty = FALSE
SPECIFICATION FairSpec
PROPERTIES
  DeliveredTasksSettle
CHECK_DEADLOCK FALSE
