CONSTANTS
  MaxChanges = 3
  MaxTroubles = 3
  MaxIds = 9
  None = None
  StaleLists = FALSE
SPECIFICATION FairSpec
INVARIANT
  UnseenEventsAreKept
PROPERTIES
  ImplementsMirroredList
  ChangesArrive
CHECK_DEADLOCK FALSE
