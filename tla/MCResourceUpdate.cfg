SPECIFICATION Spec
CONSTANTS
  Files = {f, g}
  MaxEdits = 2
  MaxDay = 2
INVARIANTS
  TypeOK
  NeverPublishedBeforeItsFiles
  EqualVersionsSameRelease
  UndisturbedUpdateInstalls
PROPERTY LauncherEnds
CHECK_DEADLOCK FALSE
