\* Each provider with a message and several together; a download as announced, one
\* longer than announced, one of unknown length, one beyond its limit.
CONSTANTS
  MaxGen = 3
  Msgs = {m1}
  None = None
  Scenes <- Cast
  honest = honest
  longer = longer
  silent = silent
  over = over
  Downloads = {honest, longer, silent, over}
  Slots = 3
  Budget = 3
  Limit <- Limits
  Announced <- Headers
  Length <- Lengths
  Signalled = {longer, over}
SPECIFICATION RuntimeSpec
INVARIANTS
  ConnectionsKept
  BudgetKept
PROPERTIES
  ShutdownEnds
  DownloadsSettle
CHECK_DEADLOCK FALSE
