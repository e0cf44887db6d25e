CONSTANTS
  Values = {v1, v2}
  Gone = Gone
  Stale = Stale
  None = None
  Wrap = 8
  OldWithin = 5
  High = 6
  Low = 1
  Races = {"overtaken"}
  MaxMessages = 2
  MaxFaults = 3
SPECIFICATION FairSpec
INVARIANTS
  TypeOK
  IgnoresExactlyTheOld
  KnownIsStored
PROPERTIES
  LoadArrives
