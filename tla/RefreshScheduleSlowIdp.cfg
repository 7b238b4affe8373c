\* An IdP that takes six of the thirty seconds it is given.
CONSTANTS
  Second = 1
  Lifetimes = {20}
  MaxLatency = 6
  FetchTimeout = 30
  MaxCallers = 0
  IdpCanFail = FALSE
SPECIFICATION Spec
INVARIANTS
  EnoughLeftIsValid
