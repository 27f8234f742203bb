CONSTANTS
  MaxSession = 1
  MaxPlan = 2
  MaxWords = 1
  Configs <- MCQuickRaw
  MultiThread = TRUE
SPECIFICATION Spec
INVARIANTS
  ConfirmUndisturbed
CHECK_DEADLOCK FALSE
