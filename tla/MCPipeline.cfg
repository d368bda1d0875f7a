SPECIFICATION FairSpec
CONSTANTS
  InDepth = 3
  InBlock = 2
  Total = 6
  InFails = TRUE
  OutDepth = 2
  OutBlock = 2
  OutFails = TRUE
  Asks = {1, 2}
INVARIANTS SuccessIsComplete
PROPERTIES WriterKeepsThePromise Terminates
CHECK_DEADLOCK FALSE
