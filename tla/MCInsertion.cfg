SPECIFICATION FairSpec
CONSTANTS
  Apps = {"a", "b"}
  Elevated = {"b"}
  Text <- TheText
  Tries <- TheTries
  MaxMoves = 2
INVARIANTS LandsWhereTheUserIs SentOnce
PROPERTY InsertEnds
CHECK_DEADLOCK FALSE
