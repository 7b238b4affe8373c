\* One task and the background task, which ticks once and is woken twice: the
\* second request may find it busy with the first, and either may be stopped while
\* it holds the lock the other waits for.
CONSTANTS
  Callers = {c1}
  Task = task
  Nobody = nobody
  MaxCalls = 1
  MaxTicks = 1
  MaxRequests = 2
SPECIFICATION FairSpec
CHECK_DEADLOCK FALSE
PROPERTIES
  CallsReturn
  GuardStopsTask
  RequestsAreHonoured
