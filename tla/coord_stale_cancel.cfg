SPECIFICATION Spec
CONSTANTS
  Cancellers = {c1}
  MaxTasks = 2
  Modes = {"ptt", "toggle"}
  Budget <- BudgetOverlap
CHECK_DEADLOCK FALSE
INVARIANTS
  NoOrphanCapture
