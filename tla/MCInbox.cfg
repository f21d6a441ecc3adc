\* A command and a chat message in one room; turns that may outlast their lease.
CONSTANTS
  Events = {cmd, chat}
  Rooms = {here}
  RoomOf <- OneRoom
  Chat = {chat}
  QueueLimit = 1
  MaxAge = 0
  Retries = 1
  Lease = 1
  Backoff = 1
  MaxAttempts = 2
  StrandAge = 0
  MaxCopies = 2
  MaxFaults = 1
SPECIFICATION FairSpec
INVARIANTS
  ActsOnce
  CommandsAnswered
PROPERTIES
  OutcomeIsFinal
  RowsReleased
