SPECIFICATION Spec
CONSTANTS
  Sounds = {"silence", "quiet", "loud"}
  OnsetFrames = 2
  Hangover = 1
  Prefill = 1
  RingFrames = 2
  Budgets <- MCBudgets
CHECK_DEADLOCK FALSE
INVARIANTS
  TypeOK
  NothingTwice
  CleanTakeIsWhole
  AnswersItsOwnTake
  MaskIsHonest
  SpeechIsSeen
  MirrorFollows
