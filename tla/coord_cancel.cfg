SPECIFICATION Spec
CONSTANTS
  Cancellers = {c1, c2}
  MaxTasks = 2
  Modes = {"ptt", "toggle"}
  Budget <- BudgetCancel
CHECK_DEADLOCK FALSE
SYMMETRY SymmetricCancellers
INVARIANTS
  TypeOK
  NoOutputAfterCancel
  CancelNeverLost
  TrayComesHome
PROPERTY
  KeepsPromise
