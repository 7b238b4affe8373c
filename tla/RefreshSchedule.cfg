\* Alone, lifetimes as short as the floors and ceilings of refresh_interval make a
\* difference; with RPCs, two of which one's interval is longer than the other lasts.
CONSTANTS
  Alone = {2, 7}
  Shared = {7, 12}
  Lifetimes <- MCLifetimes
  Second = 3
  MaxLatency = 1
  FetchTimeout = 2
  MaxCallers = 2
  MaxDisturbances = 2
  IdpCanFail = TRUE
SPECIFICATION MCSpec
INVARIANTS NextRefreshBeforeExpiry ValidOnceHealed EnoughLeftIsValid
