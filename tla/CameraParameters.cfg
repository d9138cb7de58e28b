SPECIFICATION Spec
CONSTANTS
  DriverFaults = TRUE
  Plain = {"effect"}
  PlainValues = {"none"}
  DefaultValue = "none"
  SceneNames = {"auto","night","action"}
  FlashNames = {"off", "torch", "red-eye"}
  FocusNames = {"auto", "macro", "fixed"}
  Sizes = {"s1", "s2"}
  BackSize = "s1"
  FrontSize = "s2"
  KeepsSize = TRUE
  MaxOpens = 2
  MaxEdits = 1
  MaxFaults = 1
INVARIANTS TypeOK SizesAgree SensorFollows TorchOut AcceptedReported
CHECK_DEADLOCK FALSE
