SPECIFICATION Spec
CONSTANTS
  Metric = {m1, m2}
  Value = {0, 1}
  Time = {0, 1, 2}
  Interval = {0, 2}
  Identity <- MCIdentity
INVARIANTS
  TypeOK
  BaseIsRecorded
  ReaderInSync
PROPERTIES
  DeltaWithinSegment
  DeltaWithinInterval
  ImplementsSnapshotLog
