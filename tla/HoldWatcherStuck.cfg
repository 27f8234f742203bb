CONSTANTS
  MaxSession = 1
  MaxArms = 1
  MaxStops = 3
  Overlap = TRUE
SPECIFICATION Spec
INVARIANT HoldingMeansWatch
CHECK_DEADLOCK FALSE
