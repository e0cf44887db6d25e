CONSTANTS
  j1 = j1
  h1 = h1
  None = None
  Jobs = {j1}
  Hosts = {h1}
  Slots = 1
  MaxRuns = 2
  MaxToExecd = 2
  MaxToMaster = 1
  Faults = {"crash", "lose", "unheard", "rerun"}
  MaxFaults = 2
SPECIFICATION FairSpec
PROPERTIES
  
  DeletedEnds
  EntriesSettle
