SPECIFICATION FairSpec
CONSTANTS
  Tests <- ManyTests
  Size = 2
  MaxRuns = 2
  MaxBoots = 4
CHECK_DEADLOCK FALSE
INVARIANTS
  TypeOK
  LimitKept
  SummaryExact
  FinishedKept
  MovedOnIsFixed
  NoFreeTime
PROPERTIES
  BuzzerSounds
