\* A document and its node, under a key of the application's or without one, retried
\* and issued again.
CONSTANTS
  HasBinding = TRUE
  AuthEnabled = TRUE
  RequestTimeout = TRUE
  RetryUnavailable = TRUE
  MaxAttempts = 2
  MaxCalls = 2
SPECIFICATION FairSpec
CHECK_DEADLOCK FALSE
INVARIANTS
  OkMeansApplied
  NodeNeedsDocument
  WireBound
PROPERTIES
  ImplementsWriteContract
  CallEnds
