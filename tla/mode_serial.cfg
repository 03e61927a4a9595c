SPECIFICATION FairSpec
CONSTANTS
  Modes = {"ptt", "toggle", "listen", "wakeword"}
  Savers = {s1}
  Starters = {a1}
  MaxGen = 2
  MaxStops = 1
INVARIANTS
  TypeOK
  CurrentSessionKeepsEngine
PROPERTIES
  PhaseSettles
  SettledStaysSettled
CHECK_DEADLOCK FALSE
