SPECIFICATION Spec
CONSTANTS
  PMTPID = 1
  LastPMTPID = 3
  FirstPID = 4
  LastPID = 16
  NullPID = 31
  ReservedPIDs = {9}
  ReservedTags = {2}
  TagRange = 8
  PmtVersions = 32
  ReorderWindow = 3
  PCRInterval = 2
  PSIInterval = 5
  PidBase <- MCPidBase
  TagBase <- MCTagBase
  TagLast <- MCTagLast
  Plans <- MCPlans
INVARIANTS Addressed Announced InOrder ClockRuns
CHECK_DEADLOCK FALSE
