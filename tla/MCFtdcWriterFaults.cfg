SPECIFICATION Spec
CONSTANTS
  Path = {p, q}
  DeltaMetrics = {TRUE, FALSE}
  MaxFileBytes = {7}
  RotationInterval = {2}
  TicksPerSecond = 2
  Faults <- MCAllFaults
  NoFile = NoFile
  MaxTime = 3
  MaxSamples = 3
  MaxDisturbances = 2
INVARIANTS
  LostFileIsReported
  Chronological
PROPERTIES
  LossIsReported
  StatusImplemented
