SPECIFICATION Spec
CONSTANTS
  Files = {"f", "g"}
  MaxEdits = 2
  MaxDay = 2
INVARIANT OldVersionStarts
CHECK_DEADLOCK FALSE
