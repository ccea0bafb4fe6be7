SPECIFICATION Spec
CONSTANTS
  Path = {p, q}
  DeltaMetrics = {TRUE}
  MaxFileBytes = {7}
  RotationInterval = {2}
  TicksPerSecond = 2
  Faults <- MCHandledFaults
  NoFile = NoFile
  MaxTime = 4
  MaxSamples = 4
  MaxDisturbances = 2
INVARIANTS
  TypeOK
  HandleCoherent
  FirstRecordIsCheckpoint
  DeltaAfterItsBase
  RestartWithinLife
  NoOverfullAppend
  StartsWithHeader
PROPERTY
  CountedIsRecorded
