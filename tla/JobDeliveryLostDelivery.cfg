CONSTANTS
  j1 = j1
  h1 = h1
  None = None
  Jobs = {j1}
  Hosts = {h1}
  Slots = 1
  MaxRuns = 1
  MaxToExecd = 2
  MaxToMaster = 1
  Faults = {"lose"}
  MaxFaults = 1
SPECIFICATION FairSpec
PROPERTIES
  NothingLeft
