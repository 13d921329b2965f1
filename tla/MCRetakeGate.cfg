SPECIFICATION RetakeSpec
CONSTANTS
  Null = Null
  HoursPerDay = 2
  MaxHour = 5
  MaxAssignment = 1
  MaxFacts = 2
  Periods = {1, 2}
INVARIANTS
  RefusalIsExact
