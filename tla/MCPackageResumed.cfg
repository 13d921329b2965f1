SPECIFICATION Spec
CONSTANTS
  Tests <- IntroTest
  Size = 2
  MaxRuns = 2
  MaxBoots = 2
CHECK_DEADLOCK FALSE
INVARIANTS
  OwnCheckpoint
