SPECIFICATION FairSpec
CONSTANTS
  Topics = 2
  Levels <- TwoLadders
  Size <- TwoSizes
  Required <- TwoNeeds
  Requests = {r1}
  Null = Null
CHECK_DEADLOCK FALSE
PROPERTIES
  KeepsPromise
