CONSTANTS
  license = license
  PE = pe
  NoSeek = NoSeek
  Queues = {q1}
  Globals <- MCGlobals
  Total <- MCTotal
  Requests <- MCRequests
  Starts = {1, 3}
  Calendars <- MCCalendars
  Now = 3
  Interval = 2
  CalendarEnd = 19
  Infinity = 20
  Overlaps = FALSE
  MaxReserve = 3
  MaxRunning = 3
  MaxPending = 4
SPECIFICATION Spec
INVARIANTS
  
  NotOverbooked

  
CHECK_DEADLOCK FALSE
