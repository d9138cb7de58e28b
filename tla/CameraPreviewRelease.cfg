SPECIFICATION StrongSpec
CONSTANTS
  Windows = {w1, w2}
  NoWindow = NoWindow
  INITIAL_SKIP_FRAME = 2
  EFFECT_SKIP_FRAME = 1
  MaxOpens = 1
  DriverFaults = FALSE
  HeapFaults = FALSE
  WindowFaults = FALSE
  LiveWindowChange = FALSE
  SpuriousWakeups = FALSE
PROPERTY ReleaseReturns
CHECK_DEADLOCK FALSE
