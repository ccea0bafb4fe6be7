SPECIFICATION DirectorySpec
CONSTANTS
  File = {0, 1, 2, 3, 4, 5}
  Size = {1}
  ModTime = {0}
  MaxDirBytes = {0, 2, 4}
  MaxChanges = 0
  MaxStamp = 2
  MaxFileSize = 2
INVARIANTS
  NoGapInHistory
  SidecarsGoInTurn
CHECK_DEADLOCK FALSE
