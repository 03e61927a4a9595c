SPECIFICATION FairSpec
CONSTANTS
  Cancellers = {}
  MaxTasks = 5
  Modes = {"ptt"}
  Budget <- BudgetHolds
CHECK_DEADLOCK FALSE
INVARIANTS
  NoOrphanCapture
  PillComesDown
PROPERTIES
  ReleaseStopsCapture
