\* Two tasks, two requests and two workers, one key, one retry, with aborts
\* and lost workers; two calls in two processes to two providers, with one
\* loss of Redis.
CONSTANTS
  MaxTasks = 2
  Requests = {r1, r2}
  Workers = {w1, w2}
  Keys = {k1}
  NoKey = NoKey
  MaxRetries = 1
  Faulty = TRUE
  Calls = {r1, r2}
  Processes = {w1, w2}
  Providers = {p1, p2}
  p1 = p1
  p2 = p2
  Configs <- MCConfigs
  Default = p1
  Threshold = 2
  Recovery = 1
  Quota = 1
  NoProvider = NoProvider
  MaxTime = 2
  MaxFailures <- MCFailures
  MaxFaults = 1
SPECIFICATION SceneSpec
SYMMETRY SceneSymmetry
INVARIANTS
  OneRunPerTask
  UnfinishedWhileCarried
  VerdictMatchesAnalysis
  OpenCanRecover
  OvershootIsBounded
PROPERTIES
  CancelSticks
  VerdictsAreFinal
CHECK_DEADLOCK FALSE
