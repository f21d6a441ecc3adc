\* Two replies under one key, one of which may be streamed, and a message of no text; a crash or an outage, sends that stray.
CONSTANTS
  Messages = {reply, other, empty}
  Keys = {reply, empty}
  KeyOf <- RepliesShareKey
  Platforms = {wa}
  PlatformOf <- OnePlatform
  Direct = {reply, other}
  Streamed = {other}
  Blank = {empty}
  Cancellable = FALSE
  Batch = 2
  Grace = 2
  SendTimeout = 1
  Lease = 2
  Backoff = 1
  MaxAttempts = 2
  PruneAge = 0
  MaxFaults = 1
SPECIFICATION FairSpec
INVARIANTS
  AcceptedIsKept
  NoUncausedDuplicate
PROPERTIES
  ImplementsDelivery
  RowsSettle
