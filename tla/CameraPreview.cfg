SPECIFICATION FairSpec
CONSTANTS
  Windows = {w1, w2}
  NoWindow = NoWindow
  INITIAL_SKIP_FRAME = 2
  EFFECT_SKIP_FRAME = 1
  MaxOpens = 2
  DriverFaults = TRUE
  HeapFaults = TRUE
  WindowFaults = FALSE
  LiveWindowChange = FALSE
  SpuriousWakeups = FALSE
INVARIANTS HeapSafe WindowSafe SkipHonoured
PROPERTIES StopReturns StartRuns KeepsPromise
CHECK_DEADLOCK FALSE
