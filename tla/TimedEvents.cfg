CONSTANTS
  periodic = periodic
  resend = resend
  limit = limit
  Nothing = Nothing
  Events = {periodic, resend, limit}
  Recurring <- MCRecurring
  Interval <- MCInterval
  Selections <- MCSelections
  Delays = {0, 2}
  Steps = {1}
  MaxLate = 1
  Horizon = 2
  MaxSetBacks = 1
SPECIFICATION FairSpec
INVARIANTS
  TypeOK
  NeverOversleeps
PROPERTIES
  ImplementsAlarms
  EventsAreDelivered
  ThreadEnds
