SPECIFICATION Spec
CONSTANTS
  Topics = 2
  Levels <- TwoLadders
  Size <- TwoSizes
  Required <- TwoNeeds
  Requests = {r1, r2}
  Null = Null
SYMMETRY Alike
CHECK_DEADLOCK FALSE
INVARIANTS
  LevelIsDeserved
  VerdictsAreEarned
  OnePlaceAtATime
