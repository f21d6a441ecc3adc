\* Pairs of a streaming, a direct, a toolless turn and a command of one sender, two providers, three tools.
CONSTANTS
  able = able
  plain = plain
  s = s
  d = d
  mute = mute
  c = c
  find = find
  write = write
  banned = banned
  Providers = {able, plain}
  Order <- InOrder
  Tier <- Tiers
  ToolCapable = {able}
  Threshold = 2
  Turns = {s, d, mute, c}
  Scenes <- Cast
  Commands = {c}
  CommandOf <- Slash
  Streaming = {s}
  MaxIterations = 2
  MaxChunks = 2
  Names <- Called
  Allowed <- May
  Known = {find, write, banned}
  Mutating = {write}
  Finder = find
  Found = {banned}
  Powerful = {write}
  CostLimit = 1
  MaxToolCalls = 2
  MaxResultSize = 1
  MaxTotalSize = 1
SPECIFICATION FairSpec
INVARIANTS
  OneProbe
  MutationsSerialized
  AnswersWhole
PROPERTIES
  TurnsEnd
CHECK_DEADLOCK FALSE
