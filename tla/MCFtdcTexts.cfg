SPECIFICATION TextsSpec
CONSTANTS
  Control <- MCControl
  KeyCap = 10
  PathCap = 10
  TextCap = 10
  SlaveKey = {"slave0", "slave1"}
  Alphabets <- MCAlphabets
  MaxValue = 6
  NoFile = NoFile
  LineCap = 8
  BlobLimit = 6
  Number = {"0", "7", "9"}
  Server <- MCServer
  LatencyRows <- MCLatencyRows
  SlowlogRows <- MCSlowlogRows
  Proc <- MCProc
  MayRefuse = {"server", "stats", "replication"}
  Symbol <- MCSymbol
  Secret = {s3cret}
  RunId <- MCRunId
  Role <- MCRole
  Process = {"7"}
  Counter = {"0", "7"}
  Now = {"9"}
  Leaf <- MCLeaf
  MaxItems = 4
  MaxDepth = 2
  CollectorFirst = 4
  EncoderFirst = 1
  Size = {0, 1, 2, 5, 9}
  MaxLength = 20
  MemoryFails = TRUE
  Platform = {"linux", "other"}
INVARIANTS
  ValuesReadBack
  EncoderReadsEverySample
  FlatIsReported
  RedactedArgsStayOut
  SampleIsWhole
  TextsAreJson
  RecordsReadBack
  ConfigIsReadBack
  WritesFit
PROPERTY
  EveryAppendEnds
CHECK_DEADLOCK FALSE
