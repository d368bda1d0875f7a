SPECIFICATION Spec
CONSTANTS
  a = a
  b = b
  x = x
  y = y
  Versions = 2
  Transactions = 2
  StaleGuard = 2
  DIIInterval = 2
  NeverAgain = 1000
  Budget = 2
  MaxReal = 5
  MaxCalls = 4
  MaxSetbacks = 1
  Updates <- MCUpdates
INVARIANTS HeldIsHeard
PROPERTIES FreshVersions AnnouncedBeforeSent RepeatedOnTime
CHECK_DEADLOCK FALSE
