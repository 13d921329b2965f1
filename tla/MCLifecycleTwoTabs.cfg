SPECIFICATION Spec
CONSTANTS
  Null = Null
  l1 = l1
  l2 = l2
  r1 = r1
  r2 = r2
  d1 = d1
  d2 = d2
  right = right
  wrong = wrong
  HoursPerDay = 2
  Publishers = {p1}
  MaxEdition = 2
  MaxSnapshots = 2
  Learners = {l1}
  Requests = {r1, r2}
  Client <- TwoTabs
  Draws = {d1}
  Answers = {right}
  RightAnswers = {right}
  Policy <- NoBarriers
  Limit <- NoLimit
  MaxRows = 2
  MaxAssignments = 1
  MaxClock = 2
SYMMETRY Alike
CONSTRAINT OneChange
CHECK_DEADLOCK FALSE
INVARIANTS
  GradedAsDelivered
PROPERTIES
  FinishedIsFinal
