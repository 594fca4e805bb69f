SPECIFICATION Spec

CONSTANTS
  None = none
  Props = {a, b}
  Windows = {c, d}
  MAX_TICKS = 2
  MaxStreams = 2
  MaxSessions = 2
  Calls = {a, b}
  Instances = {a, b}
  Markets = {c, d}
  CACHE_TTL = 2
  FORCE_REFRESH_COOLDOWN = 1
  Kickoff = 1
  MaxTime = 2
  MaxFetches = 2
  nextWeeksGame = later
  Games = {c, d, later}
  PropMarkets = {a}
  MaxWeek = 2
  MaxSlateLoads = 3
  MaxDiscoveries = 2
  MaxMounts = 2
  Uids = {a, b}
  Devices = {c, d}
  WatchToggle = toggle
  MaxGenerations = 3
  veteran = veteran
  rookie = rookie
  other = other
  week1 = week1
  week2 = week2
  Releases = {1, 2}
  Names = {n1}
  Syncs = {a, b}
  Resolvers = {c, d}
  Reads = {a, b}
  Connections = {c, d}
  Runners = {a, b}
  MaxDrifts = 1
  Observations = {a, b}
  Bookmakers = {"b1", "b2"}
  RawNames = {1, 2}
  Lines = {1, 2}
  PlayerIds = {p}
  EventStart = 2
  Change = 504
  Summer = 16
  Winter = 20
  WeekOne = 0
  EveningHours = {0, 1, 2, 3, 5, 12, 20, 23}
  Activations = {1, 3, 7, 24, 25, 30, 100, 600}
  FarInterval = 4
  ActiveInterval = 1
  MaxCheckpoints = 2000

SYMMETRY Symmetry
CHECK_DEADLOCK FALSE
INVARIANTS
  ScreenTrue
  AnswersTrue
  ShownIsSelected
  DataIsOwn
  SuccessMeansDeleted
  PlayersTrue
  ReadsClean
  LedgerTrue
  EvidenceTrue
  ScheduleSound
