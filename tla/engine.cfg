SPECIFICATION FairSpec
CONSTANTS
  t1 = t1 t2 = t2 t3 = t3 a = a b = b c = c
  Threads <- EngineThreads
  Models = {a, b, c}
  Cloud = {c}
  Budgets <- EngineBudgets
  Watcher = Watcher
  NoEngine = NoEngine
  Nobody = Nobody
CHECK_DEADLOCK FALSE
INVARIANTS
  TypeOK
  LabelNamesEngine
  IdleTeardownIsAlone
PROPERTIES
  RequestsReturn
