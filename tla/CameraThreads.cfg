SPECIFICATION FairThreadsSpec
CONSTANTS
  MaxOpens = 2
  MaxRequests = 3
  DriverFaults = TRUE
  FocusFaults = FALSE
  HeapFaults = FALSE
  SharedLock = FALSE
INVARIANTS FlagHonest StartExcludesPicture RawHeapSafe BufferReturned OncePerRequest
PROPERTIES AcceptedAnswered ReleaseReturns
CHECK_DEADLOCK FALSE
