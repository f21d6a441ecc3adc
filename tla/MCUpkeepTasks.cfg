SPECIFICATION Spec
CONSTANTS
  None = None
  Procs = {1, 2}
  Jobs = {j1, j2}
  Checked = {1}
  Legacy = {0}
  Ttl = 3
  Rooms = {"r", "q"}
  Turns = {t1, t2}
  Syncs = {s1, s2}
  Batch = 2
  Saves = {v1, v2}
  TotalsTtl = 1
  TempGrace = 2
  MediaAge = 2
  Askers = {a1}
  Keep = 2
  Lookahead = 4
  MinBatch = 2
  Calls = {k1, k2}
  Members = {u1}
  Libraries = {r1}
  Topics = {d1, d2}
  Models = {"m1", "m2"}
  Target = 4
  Overlap = 1
  RequestMax = 2
  CacheMax = 2
  CacheTtl = 0
  Recent = 1
  Policy <- SweepPolicy
  SweepBatch = 2
  Browsers = {b1, b2}
  SessionTtl = 2
  MaxSessions = 2
  LoginLimit = 2
  LoginWindow = 1
  Levels <- PermissionLevels
  MaxReloads = 2
  Lookups = {l1, l2}
  Settings = {e1, e2}
  PrivRoles = {"user", "premium"}
  PrivTtl = 1
  Services = {"web", "bin"}
  WindowSize = 3
  Quantiles = {50, 95, 99}
  SendsKept = 1
  DayLimit = 3
  Latencies = {1, 2, 3}
  Sends = {1, 2}
  Owners = {"ann", "bob"}
  TaskRooms = {"r", "q"}
  Horizon = 1
  Capacity <- Permits2
  MaxSize = 1
  Months <- Lengths12
  Hours = 4
  Spring = 9
  Autumn = 24
  Turn = 2
  CatchUp = 3
  Lower <- LowerCase
  Integers = {"0", "5"}
  Numbers = {"0", "5", "1.5"}
  Booleans = {"yes"}
  Characters <- Letters
  MaxLine = 2
  Scenes <- CastTasks
CHECK_DEADLOCK FALSE
INVARIANTS
  TasksRun
