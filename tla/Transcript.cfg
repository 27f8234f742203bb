CONSTANTS
  ParagraphSilence = 3
  SessionEndSilence = 3
  Hangover = 1
  MaxQuiet = 5
  MaxWords = 2
  MaxPins = 2
  MaxText = 1
SPECIFICATION Spec
INVARIANTS
  EachWordOnce
PROPERTIES
  ScreenIsKept
  PromptPressBuysAWindow
CHECK_DEADLOCK FALSE
