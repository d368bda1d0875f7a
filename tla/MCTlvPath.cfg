SPECIFICATION Spec
CONSTANTS
  MaxFragmentSets = 2
  MaxDatagram = 5
  MaxHoles = 2
  Datagrams <- MCDatagrams
  Plans <- MCPlans
INVARIANTS
  DatagramsWhole
  FlowsKept
  ResumesSoon
CHECK_DEADLOCK FALSE
