SPECIFICATION Spec
CONSTANTS
  Path = {p}
  DeltaMetrics = {FALSE}
  MaxFileBytes = {7}
  RotationInterval = {2}
  TicksPerSecond = 2
  Faults = {}
  NoFile = NoFile
  MaxTime = 3
  MaxSamples = 3
  MaxDisturbances = 0
PROPERTY
  CountedIsRecorded
