CONSTANTS
  j1 = j1
  j2 = j2
  h1 = h1
  None = None
  Jobs = {j1, j2}
  Hosts = {h1}
  Slots = 1
  MaxRuns = 2
  MaxToExecd = 1
  MaxToMaster = 1
  Faults = {"crash", "crash_starting", "start_fails", "rerun", "lose", "unheard", "manual", "partial"}
  MaxFaults = 1
SPECIFICATION Spec
SYMMETRY Symmetry
INVARIANTS
  TypeOK
  SlotsMatch
  TransferHasTimer
  AccountedOnce
PROPERTIES
  DeletedStaysDeleted
  ImplementsTaskLife
