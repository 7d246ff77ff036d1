SPECIFICATION Spec
CONSTANTS
  MaxMoves = 2
  Forms = {"organization", "rule", "usage", "profile"}
  FormTexts = {"t1", "t2"}
  MoreTexts = {"t1"}
  MaxEdits = 2
  Lists = {"tasks", "audit", "conversations", "organizations", "packs", "members"}
  Filters = {"all", "f"}
  NoFilter = "all"
  MaxRows = 2
  MaxTurns = 3
  Searches = {"", "s"}
  NoSearch = ""
  Pages = {1, 2}
  MaxActs = 4
  Tools = {"dockerfile", "kubernetes", "pipeline", "command", "review"}
  ToolOrgs = {"o1", "o2"}
  MaxSteps = 5
  LogOrgs = {"o1", "o2"}
  MaxSubmissions = 2
  MaxSwitches = 2
  Purposes = {"reset", "verification", "change"}
  Clerks = {1, 2}
  Handlers = {1, 2}
  LinkPages = {"tab"}
  MaxLinks = 2
  MaxTries = 2
INVARIANTS
  WebTypeOK OwnWritesShown SentOnce AcceptedIsShown ListIsAddress EmptyMeansNone
  GeneratedAsAsked AnalysisIsCurrent AnswerRead LinksWorkOnce PagesTellTheTruth
PROPERTIES
  RefusalsAreNews OwnEditKept
CHECK_DEADLOCK FALSE
