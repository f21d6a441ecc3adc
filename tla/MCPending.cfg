\* Three or four messages, one job, restart or fault, three ticks, over eleven scenes of
\* flows; a recurring, a one-shot and a mismatched reminder while sends fail and users cancel.
CONSTANTS
  None = None
  Garbage = Garbage
  Rooms = {"dm", "group"}
  AnyRoom = "any"
  Groups = {"group"}
  Ttl <- Lives
  MaxFiles = 2
  MaxTicks = 3
  Scenes <- Cast
  Reminders = {daily, once, stray}
  Recurring = {daily}
  Mismatched = {stray}
  Platforms = {tg}
  PlatformOf <- OnePlatform
  Interval = 2
  Delays = {1}
  Stale = 1
  SendTimeout = 1
  Backoff = 1
  MaxAttempts = 2
  MaxBatch = 2
  MaxTime = 4
  MaxCrashes = 1
SPECIFICATION PendingSpec
INVARIANTS
  FlowsContinued
  FlowsTrue
PROPERTIES
  CancelIsFinal
  FailuresArePaced
  ScheduleFollowed
CHECK_DEADLOCK FALSE
