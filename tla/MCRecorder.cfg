SPECIFICATION Spec
CONSTANTS
  Versions = 8
  Transactions = 8
  StaleGuard = 3
  DIIInterval = 1
  NeverAgain = 1000
  LongDuration = 2
  ShortDuration = 1
  PlayoutLimit = 4
  Ring = 4
  RetainedSegments = 2
  MaxSegmentParts = 2
  LossRing = 2
  Capacity = 2
  MaxObjectModules = 2
  ForwardJump = 6
  BackwardJump = 2
  SegmentInterval = 1
  ObjectInterval = 5
  CommitInterval = 1
  NoSegment = 999
  LongAgo <- MCLongAgo
  FirstNTP = 10
  Steps <- MCSteps
  RecordInputs <- MCBulk
  Skews <- MCSkews
  Scrambles = TRUE
  CodecInputs <- MCConfigs
  ObjectInputs <- MCObjects
  MaxRecords = 6
  MaxEntries = 2
  MaxChanges = 1
  MaxBatch = 1
  MaxNow = 1
CONSTRAINT OneKindOfInput
INVARIANTS NothingLostSilently AVMapCarried RingKept
CHECK_DEADLOCK FALSE
