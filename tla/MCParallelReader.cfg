SPECIFICATION FairSpec
CONSTANTS
  Workers = 3
  Depth = 1
  BlockSize = 2
  FileSize = 15
  Asks = {1, 2}
  Failing = {0}
PROPERTIES KeepsThePromise Finishes
CHECK_DEADLOCK FALSE
