SPECIFICATION RSpec
CONSTANTS
  Versions = 8
  Transactions = 8
  StaleGuard = 1
  DIIInterval = 1
  NeverAgain = 1000
  LongDuration = 2
  ShortDuration = 1
  PlayoutLimit = 2
  Ring = 4
  RetainedSegments = 2
  MaxSegmentParts = 2
  LossRing = 2
  Capacity = 2
  MaxObjectModules = 2
  ForwardJump = 6
  BackwardJump = 2
  SegmentInterval = 1
  ObjectInterval = 1
  CommitInterval = 1
  NoSegment = 999
  LongAgo <- MCLongAgo
  FirstNTP = 10
  Blocks = 2
  Steps = {2}
  RecordInputs <- MCBulk
  Skews = {0}
  Scrambles = FALSE
  CodecInputs <- None
  ObjectInputs <- None
  MaxRecords = 3
  MaxEntries = 1
  MaxChanges = 0
  MaxBatch = 1
  MaxNow = 1
  MaxBursts = 2
  BurstLength = 1
INVARIANTS PartsAreRestored
CHECK_DEADLOCK FALSE
