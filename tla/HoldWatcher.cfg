CONSTANTS
  MaxSession = 2
  MaxArms = 2
  MaxStops = 3
  Overlap = FALSE
SPECIFICATION FairSpec
INVARIANTS
  GateHasOwner
  HoldingMeansWatch
  GuardFollowsSession
PROPERTIES
  WatchOwnsItsSession
  QuickStopsOnRelease
CHECK_DEADLOCK FALSE
