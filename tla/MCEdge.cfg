\* Two requests at a time over six scenes: three sends of one event with a
\* fault of each kind, four ticks for the limits, five hours of two-hour days.
CONSTANTS
  None = None
  W = "whatsapp"
  D = "discord"
  group = "group"
  number = "number"
  topic = "topic"
  other = "other"
  alice = "alice"
  bob = "bob"
  Platforms = {"whatsapp", "discord"}
  Remotes = {"group", "number", "topic", "other"}
  Shape <- ShapeOf
  Legacy <- Old
  Users <- TwoUsers
  Accounts <- Linked
  Admins <- JustBob
  Owners <- TwoUsers
  Members <- Seen
  MaxSub = 3
  Conns = {1, 2}
  Keys = {"src", "src2", "src3", "ip"}
  MaxRequests = 2
  Window = 2
  MaxSources = 3
  ReplayTtl = 1
  ReplayMax = 2
  MaxDestinations = 2
  DigestRooms <- Configured
  DefaultPlatform = "whatsapp"
  Hours = 2
  DigestHour = 1
  Days = 2
  MaxItems = 1
  Scenes <- Cast
SPECIFICATION Spec
INVARIANTS
  NoticesRight
  TimersBounded
CHECK_DEADLOCK FALSE
