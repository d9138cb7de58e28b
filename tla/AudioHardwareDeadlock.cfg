CONSTANTS
  Devices = {"SPK"}
  Receiver = "RCV"
  ClientModes = {"NORMAL", "RINGTONE", "IN_CALL"}
  DriverFaults = FALSE
  CallFaults = FALSE
  EchoCancel = TRUE
  QuietClose = TRUE
SPECIFICATION Spec
INVARIANTS LockOrder
