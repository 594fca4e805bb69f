SPECIFICATION Spec

CONSTANTS
  None = none
  Procs = {i1, i2}
  video1 = video1
  Videos = {video1, video2}
  Requests = {"captured", "replaced", "include", "clear"}
  MaxSaves = 2
  MaxFaults = 1
  Importers = {i1, i2}
  Creators = {"creator"}
  MaxAge = 0
  MaxEvents = 2
  MaxDecisionEvents = 1
  MaxDay = 1
  Weeks = {1, 2}
  Outside = 0
  Instants = {1, 2}
  MaxLog = 2
  Included = {1}
  Flagged = {2}
  MaxTyped = 2
  MaxLoads = 1
  MaxOthers = 1
  KeySets = {"creators", "fewer"}
  Start = 5
  WindowEnd = 7
  PageSize = 2
  MaxUnits = 5
  NewVideos = {11}
  Today = 9
  MaxGone = 2
  MaxDecisions = 2

SYMMETRY Symmetry
CHECK_DEADLOCK FALSE
INVARIANTS
  SavesKept
  ImportsTrue
  ReportAgrees
  DraftsKept
  DiscoveryTrue
PROPERTIES
  NothingOverwritten
  ShownNeverOlder
