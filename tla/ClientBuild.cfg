\* Two builds of one configuration, whichever of its parts are wrong.
CONSTANTS
  Builds = {b1, b2}
  Parts = 2
  Reported <- MCReported
  MaxClones = 2
SPECIFICATION FairSpec
CHECK_DEADLOCK FALSE
INVARIANTS HeldClientsAreRefreshed
PROPERTIES BuildEnds
