SPECIFICATION Spec
CONSTANTS
  Path = {p}
  DeltaMetrics = {TRUE, FALSE}
  MaxFileBytes = {7}
  RotationInterval = {2}
  TicksPerSecond = 2
  Faults = {}
  NoFile = NoFile
  MaxTime = 3
  MaxSamples = 3
  MaxDisturbances = 1
INVARIANT
  FormatMatchesHeader
