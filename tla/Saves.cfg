CONSTANTS
  Nothing = Nothing
  Torn = Torn
  Faults = {"Crash", "Error"}
  MaxSaves = 5
SPECIFICATION SavesSpec
INVARIANTS NamesHoldWholeSaves NewestFirst LastSaveKept PlayersSaveKept
PROPERTY KindsApart
CHECK_DEADLOCK FALSE
