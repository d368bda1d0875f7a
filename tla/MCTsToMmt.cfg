SPECIFICATION Spec
CONSTANTS
  TsPIDs = {0, 1, 2, 3, 4, 5, 6}
  FixedSIPIDs = {0, 6}
  PATPID = 0
  CcRange = 4
  MaxFragmentPayload = 2
  Window = 2
  ObjectGrace = 3
  Beyond = 1000
  NoAddr = "none"
  NTPBase = 100
  SignalInterval = 4
  Second = 6
  SlowSI = 2
  MaxUnits = 2
  AudioUnits = 2
  VideoWindow = 3
  AudioWindow = 4
  ExtendedRoom = 6
  ExtendedHead = 2
  FrameTime = 1
  SeqRange = 1000
  MaxFragment = 10
  Plans <- MCPlans
INVARIANTS Replayed UnitsOfTheirMPU FlowRight Announced ReadsBack LossCarried
CHECK_DEADLOCK FALSE
