SPECIFICATION FtdcSpec
CONSTANTS
  Interval = {0, 1, 2, 7, 8}
  TimerId = {t1, t2}
  NoTimer = NoTimer
  Counts = 2
  NumberKey = {"max-file-mb", "max-dir-mb"}
  FlagKey = {"slowlog-redact"}
  Text <- MCText
  LoadArguments <- MCLoadArguments
  NotANumber = NotANumber
  MB = 4
  Width = 6
  MinInterval = 1
  MinCheckpoint = 2
INVARIANTS
  TypeOK
  OneTimer
  NextSampleWithinInterval
  AcceptedIsReported
PROPERTIES
  SamplingGoesOn
  RecordingResumes
