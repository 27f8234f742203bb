SPECIFICATION Spec
CONSTANTS
  StartFiles <- MCStartFiles
  Env <- MCEnv
  Chips = {"deepseek", "openai", "anthropic", "gemini", "custom"}
  NewKey = "new"
  Asked <- MCAsked
  Dictionaries <- MCDictionaries
  MaxSaves = 2
  MaxFaults = 1
INVARIANTS
  SavedIsLoaded
  KeysSurvive
  
  RealNeverMeetsDemo
  RequestsAsSaved
CHECK_DEADLOCK FALSE
