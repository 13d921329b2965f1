SPECIFICATION FairSpec
CONSTANTS
  MAX_RETRIES = 1
  MAX_BUFFER = 1
  MaxItems = 3
  MaxRuns = 2
  MaxSessions = 2
  MaxLate = 1
  keepalive = FALSE
INVARIANTS
  BufferSound
  CopiesBounded
  AckMeansStored
PROPERTIES
  NoDeliveryAfterRefusal
  Settles
