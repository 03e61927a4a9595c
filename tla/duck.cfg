SPECIFICATION FairSpec
CONSTANTS
  Sessions = {s1}
  App <- OwnApp
  UserLevels = {4, 8}
  Cuts = {50}
  MaxAsks = 2
  MaxTrouble = 3
CHECK_DEADLOCK FALSE
INVARIANTS
  TypeOK
  NothingForgotten
  LiveTakeKeepsItsDuck
PROPERTIES
  OnlyUndoesItsOwn
  MixerComesHome
