SPECIFICATION Spec
CONSTANTS
  Cancellers = {c1}
  MaxTasks = 2
  Modes = {"ptt", "toggle"}
  Budget <- BudgetFaults
CHECK_DEADLOCK FALSE
INVARIANTS
  ProcessingHasOwner
PROPERTY
  KeepsTakeLife
