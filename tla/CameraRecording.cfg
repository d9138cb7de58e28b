SPECIFICATION FairSpec
CONSTANTS
  DriverFaults = TRUE
  Buffers = {b1, b2}
  NoBuffer = NoBuffer
  MaxOpens = 2
  HeapFaults = FALSE
  Serialised = TRUE
  LateReturns = FALSE
INVARIANTS QbufExpected FrameOwned NoBufferLeaks RecordHeapSafe
PROPERTIES NoFrameAfterStop CallsReturnUnlessStarved
CHECK_DEADLOCK FALSE
