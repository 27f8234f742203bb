CONSTANTS
  MaxSession = 1
  MaxPlan = 3
  MaxWords = 1
  Configs <- MCConfigs
  MultiThread = TRUE
SPECIFICATION FairSpec
INVARIANTS
  ShownIsPreview
  TokenIsLive
PROPERTIES
  SessionMovesOn
  MicReleased
CHECK_DEADLOCK FALSE
