CONSTANTS
  Calibration = 1
  Hangover = 1
  Pad = 2
  Providers = {"mic", "tencent", "volcengine"}
  MaxReconnects = 2
  BufferFrames = 2
  MaxVoiced = 1
  MaxMessages = 2
SPECIFICATION FairSpec
INVARIANTS
  AudioAccounted
  EachSettledOnce
PROPERTIES
  OfflineEnds
  MicLetGo
CHECK_DEADLOCK FALSE
