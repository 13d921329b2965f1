SPECIFICATION Spec
CONSTANTS
  Topics = {"t1", "t2"}
  Ids = {1, 2, 3, 4}
  TagSets = {{}, {"a"}}
  Tests <- AuthorsTests
  Banks <- StartBanks
  author1 = author1
  Slots = {author1}
  MaxWrites = 1
  MaxFreezes = 1
  MaxStarts = 2
CHECK_DEADLOCK FALSE
INVARIANTS
  CheckedSnapshot
  DrawnAsAsked
  OrderAsAuthored
  RotationHolds
PROPERTIES
  TopicStaysDrawable
  GuardHolds
