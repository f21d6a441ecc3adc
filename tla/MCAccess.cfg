\* Two messages at once of four in all, over four scenes; five ticks of the limiter.
CONSTANTS
  None = None
  t1 = t1
  t2 = t2
  Turns = {t1, t2}
  Contacts <- People
  Person <- PersonOf
  Lids <- LidSet
  Owners <- OwnerSet
  Rooms <- RoomSet
  Limits <- Privileges
  Scenes <- Cast
  NumIds = 3
  MaxTime = 5
  Units = 2
SYMMETRY Symmetry
SPECIFICATION Spec
INVARIANTS
  SenderKnown
PROPERTIES
  WithinAuthority
CHECK_DEADLOCK FALSE
