CONSTANTS
  h1 = h1
  h2 = h2
  h3 = h3
  Hosts = {h1, h2, h3}
  Shadows = {h2, h3}
  First = h1
  None = None
  Wrap = 3
  CheckEvery = 2
  Kinds = {"crash", "hang", "slow", "manual", "shadow", "shutdown"}
  MaxTroubles = 1
SPECIFICATION FairSpec
INVARIANTS
  TypeOK
  LockIsExclusive
  AtMostOneMaster
PROPERTIES
  ShutdownIsFinal
  MasterComesBack
  ReplacedStops
