SPECIFICATION Spec
CONSTANTS
  MaxMoves = 0
  Forms = {}
  FormTexts = {"t1", "t2"}
  MoreTexts = {"t1"}
  MaxEdits = 2
  Lists = {}
  Filters = {"all", "f"}
  NoFilter = "all"
  MaxRows = 2
  MaxTurns = 3
  Searches = {""}
  NoSearch = ""
  Pages = {1, 2}
  MaxActs = 0
  Tools = {"dockerfile", "kubernetes", "pipeline", "command", "review"}
  ToolOrgs = {"o1", "o2"}
  MaxSteps = 5
  LogOrgs = {"o1", "o2"}
  MaxSubmissions = 0
  MaxSwitches = 0
  Purposes = {}
  Clerks = {1, 2}
  Handlers = {1, 2}
  LinkPages = {"tab"}
  MaxLinks = 2
  MaxTries = 2
INVARIANT
  EmptyMeansAll
CHECK_DEADLOCK FALSE
