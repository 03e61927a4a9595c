SPECIFICATION Spec
CONSTANTS
  Closers = {k1, k2}
  Policies = {"delayed"}
  Saves = {"device"}
  MaxTakes = 1
  MaxCancels = 0
  MaxSaves = 1
  MaxFaults = 0
  Nobody = Nobody
CHECK_DEADLOCK FALSE
INVARIANTS
  MicIsReleased
