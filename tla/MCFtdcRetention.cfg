SPECIFICATION Spec
CONSTANTS
  File = {1, 2, 3}
  Size = {1, 2}
  ModTime = {0, 1}
  MaxDirBytes = {0, 2, 3}
  MaxChanges = 1
INVARIANTS
  TypeOK
  RemovesOnlyTheOldest
  TrimsEnough
  FitsOrNothingLeft
CHECK_DEADLOCK FALSE
