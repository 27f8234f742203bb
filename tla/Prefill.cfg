CONSTANTS
  MaxSlotId = 1
  MaxResponse = 6
  MaxDelta = 2
  WireBound = 2
  EvalBound = 5
SPECIFICATION Spec
INVARIANTS
  ScannersAgree
  NothingLost
  WireKeepsTheText
  VerdictOfTheStream
PROPERTIES
  NoFlash
CHECK_DEADLOCK FALSE
