SPECIFICATION FairSpec
CONSTANTS
  MaxOpens = 1
  DriverFaults = FALSE
  HeapFaults = FALSE
  SharedLock = TRUE
PROPERTY CancelReturns
CHECK_DEADLOCK FALSE
