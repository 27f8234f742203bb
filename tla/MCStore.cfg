SPECIFICATION Spec
CONSTANTS
  OldFiles <- TheOldFiles
  Names = {"x", "y"}
  Words = {"u", "v"}
  Retentions = {1, 2}
  MaxNow = 2
  MaxRecords = 1
  MaxSettings = 1
  MaxEdits = 1
  MaxCrashes = 1
INVARIANTS PolicyHolds ReferencesFollow LegacySettled LibrariesHold
CHECK_DEADLOCK FALSE
