CONSTANTS
  Devices = {"SPK"}
  Receiver = "RCV"
  ClientModes = {"NORMAL"}
  DriverFaults = TRUE
  CallFaults = FALSE
  EchoCancel = TRUE
  QuietClose = FALSE
SPECIFICATION Spec
CHECK_DEADLOCK FALSE
INVARIANT EchoSafe
