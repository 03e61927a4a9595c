SPECIFICATION Spec
CONSTANTS
  t1 = t1 t2 = t2 t3 = t3 a = a b = b c = c
  Threads <- EngineThreads
  Models = {a, c}
  Cloud = {c}
  Budgets <- SessionBudgets
  Watcher = Watcher
  NoEngine = NoEngine
  Nobody = Nobody
CHECK_DEADLOCK FALSE
INVARIANT OneLiveSession
