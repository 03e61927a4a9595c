SPECIFICATION Spec
CONSTANTS
  Closers = {k1, k2}
  Policies = {"always", "immediate", "delayed"}
  Saves = {"policy", "wake", "device"}
  MaxTakes = 2
  MaxCancels = 1
  MaxSaves = 1
  MaxFaults = 1
  Nobody = Nobody
CHECK_DEADLOCK FALSE
INVARIANTS
  MuteIsRemembered
  UndisturbedTakeRecords
  MicComesHome
  NoDeadlock
PROPERTY
  KeepsTakeLife
