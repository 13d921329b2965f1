SPECIFICATION HistorySpec
CONSTANTS
  Null = Null
  l1 = l1
  l2 = l2
  r1 = r1
  r2 = r2
  d1 = d1
  d2 = d2
  right = right
  wrong = wrong
  HoursPerDay = 1
  Publishers = {p1}
  MaxEdition = 1
  MaxSnapshots = 2
  Learners = {l1}
  Requests = {r1}
  Client <- OneTab
  Draws = {d1, d2}
  Answers = {right, wrong}
  RightAnswers = {right}
  Policy <- BothBarriers
  Limit = 1
  MaxRows = 2
  MaxAssignments = 1
  MaxClock = 2
CHECK_DEADLOCK FALSE
INVARIANTS
  AtMostOneOpen
  OneDrawUntilFinished
  QuotaHolds
  ResultOfSavedAnswers
PROPERTIES
  ActiveSnapshotKept
  OpenedUnderGate
