\* Answers of at most two chunks, two questions.  A page may be left idle.
CONSTANTS
  MaxChunks = 2
  MaxRuns = 2
SPECIFICATION ClientSpec
INVARIANTS
  CompletedIsPersisted
  SavedIsWhole
  ShownAnswersPersisted
PROPERTIES
  NoCommitAfterwards
  ClientsAreTold
  RunsEnd
CHECK_DEADLOCK FALSE
