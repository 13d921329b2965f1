SPECIFICATION Spec
CONSTANTS
  s1 = s1
  s2 = s2
  s3 = s3
  Sections = {s1, s2, s3}
  Limits <- AuthorsLimits
  Grace = 2
  Pings = {p1}
  Nowhere = Nowhere
  Null = Null
  MaxClock = 4
  MaxActive = 6
INVARIANTS
  ChargedOnce
PROPERTIES
  NoTimeBack
  SilenceCostsGrace
