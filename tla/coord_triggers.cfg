SPECIFICATION FairSpec
CONSTANTS
  Cancellers = {}
  MaxTasks = 4
  Modes = {"ptt", "toggle"}
  Budget <- BudgetTriggers
CHECK_DEADLOCK FALSE
INVARIANTS
  BusyIsCancellable
PROPERTIES
  StaleTriggerNeverStops
  ProcessingEnds
