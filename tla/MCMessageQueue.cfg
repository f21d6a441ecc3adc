\* Three rooms contend for two running slots; time 0 and 1 tell fresh tasks from stale ones.
CONSTANTS
  Rooms = {r1, r2, r3}
  Concurrency = 1
  PerRoomLimit = 2
  GlobalLimit = 2
  MaxRunning = 2
  MaxAge = 0
  IdleTimeout = 0
  Grace = 1
  MaxCalls = 4
  MaxTime = 1
SPECIFICATION FairSpec
INVARIANTS
  RunningCaps
  Accounted
PROPERTIES
  StartDiscipline
  QueuedLeaves
CHECK_DEADLOCK FALSE
