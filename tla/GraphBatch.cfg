\* Three groups for two places, under the application's keys, submitted three times.
CONSTANTS
  n1 = n1
  n2 = n2
  n3 = n3
  Ids <- MCIds
  Size = 4
  id <- MCid
  CONCURRENT_REQUESTS = 2
  CallerKeys = TRUE
  RequestTimeout = TRUE
  MaxRuns = 3
SPECIFICATION FairSpec
CHECK_DEADLOCK FALSE
INVARIANTS
  LastItemWins
PROPERTIES
  ImplementsWriteContract
  InOrder
  BatchEnds
