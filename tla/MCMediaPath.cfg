SPECIFICATION Spec
CONSTANTS
  SeqRange = 32
  MaxFragment = 3
  ManagementInterval = 3
  Unset = 999
  MaxItemBytes = 4
  MaxIndexBytes = 3
  NoName = NoName
  FirstSeq = 26
  TimingLimit = 2
  DTSGap = 2
  MaxLate = 1
  Streams <- MCStreams
INVARIANTS UnitsWhole OutputIsSent LossIsTold RawKept CaptionsWhole ItemsRight
CHECK_DEADLOCK FALSE
