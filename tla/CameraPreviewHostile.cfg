SPECIFICATION Spec
CONSTANTS
  Windows = {w1, w2}
  NoWindow = NoWindow
  INITIAL_SKIP_FRAME = 1
  EFFECT_SKIP_FRAME = 1
  MaxOpens = 2
  DriverFaults = FALSE
  HeapFaults = TRUE
  WindowFaults = TRUE
  LiveWindowChange = TRUE
  SpuriousWakeups = TRUE
INVARIANT CameraOffWhenIdle
CHECK_DEADLOCK FALSE
