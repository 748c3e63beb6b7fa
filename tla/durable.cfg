SPECIFICATION MCSpec
CONSTANTS
  Bridges = {b1}
  Threads = {t1, t2}
  Sessions = {s1, s2, s3}
  None = None
  Forks = TRUE
  Rollbacks = TRUE
  MaxPipe = 2
  Unused = Unused
  NameThreads = {"t1", "t2"}
  NameTexts = {"a", "b"}
  NoText = "none"
  MaxRenames = 3
  ScanBytes = {"x", "y"}
  ScanTarget = "x"
  ScanLength = 6
  ScanChunks = {1, 2, 4}
  ScanAppends = 1
  HistThreads = {"t1", "t2"}
  MaxDay = 1
  MaxRollbacks = 2
  MaxRestarts = 1
  MaxFile = 3
  MaxTime = 1
  ScanCap = 5
  PageSizes = {1, 2}
  SortKeys = {"created_at", "updatedAt"}
  Layouts = {"nested", "flat"}
  Writers = {"bridge", "other"}
  HeadLimit = 2
  UserLimit = 1
  HeadLines = 4
  MaxSaid = 1
SYMMETRY Symmetry
INVARIANT TasksKnown
INVARIANT NamesRead
INVARIANT RolloutsFound
PROPERTY RoutesSurvive
PROPERTY TaskKeepsSession
PROPERTY RolloutsGrow
CHECK_DEADLOCK FALSE
