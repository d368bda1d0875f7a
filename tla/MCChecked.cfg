SPECIFICATION CSpec
CONSTANTS
  Versions = 8
  Transactions = 8
  StaleGuard = 1
  DIIInterval = 1
  NeverAgain = 1000
  LongDuration = 2
  ShortDuration = 1
  PlayoutLimit = 2
  Ring = 4
  RetainedSegments = 2
  MaxSegmentParts = 2
  LossRing = 2
  Capacity = 2
  MaxObjectModules = 2
  ForwardJump = 6
  BackwardJump = 2
  SegmentInterval = 1
  ObjectInterval = 1
  CommitInterval = 1
  NoSegment = 999
  LongAgo <- MCLongAgo
  FirstNTP = 10
  Blocks = 2
  Steps = {2}
  RecordInputs <- None
  Skews = {}
  Scrambles = FALSE
  CodecInputs <- None
  ObjectInputs <- MCObjects
  MaxRecords = 2
  MaxEntries = 0
  MaxChanges = 2
  MaxBatch = 1
  MaxNow = 2
  TsPIDs <- MCPIDs
  CcRange = 3
  PayloadSize = 2
  PCRSize = 1
  MaxDeclared = 6
  SIPIDs = {}
  PATPID = "pat"
  MaxPCRInterval = 2
  PMTPID = "pmt"
  RealtimePID = "realtime"
  ObjectPID = "object"
  Streams <- MCStreams
  PCRPID = "video"
  UnitInputs <- MCUnits
  PSICells = 2
  DsmccCells = 3
  PSIInterval = 2
  MaxUnits = 3
  MaxLost = 3
INVARIANTS EverythingIsVerified LossIsSeen NoFalseAlarm
CONSTRAINT OneKindOfInput
CHECK_DEADLOCK FALSE
