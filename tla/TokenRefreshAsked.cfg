\* What the doc of refresh_auth_token says of a call that is coalesced.
CONSTANTS
  Callers = {c1, c2}
  Task = task
  Nobody = nobody
  MaxCalls = 1
  MaxTicks = 0
  MaxRequests = 0
SPECIFICATION AskedSpec
CHECK_DEADLOCK FALSE
INVARIANTS
  OkTokenWasIssuedAfterTheCall
