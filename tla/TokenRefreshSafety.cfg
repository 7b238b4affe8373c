\* Two tasks making two calls each, beside a background task that can be woken
\* once: a call may follow an attempt of its own, and two may be queued.
CONSTANTS
  Callers = {c1, c2}
  Task = task
  Nobody = nobody
  MaxCalls = 2
  MaxTicks = 0
  MaxRequests = 1
SYMMETRY Symmetry
SPECIFICATION Spec
CHECK_DEADLOCK FALSE
INVARIANTS
  LifetimeDescribesHeaderOutsideInstall
  WaitsForOneAttempt
PROPERTIES
  HeaderNeverGoesBack
  ImplementsContract
