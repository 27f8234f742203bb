CONSTANTS
  MaxSession = 2
  MaxPlan = 2
  MaxWords = 1
  Configs <- MCQuickRaw
  MultiThread = FALSE
SPECIFICATION Spec
INVARIANTS
  ConfirmUndisturbed
  BooksBalance
  NoOrphanAttempt
PROPERTIES
  ImplementsContract
CHECK_DEADLOCK FALSE
