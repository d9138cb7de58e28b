CONSTANTS
  Devices = {"SPK", "HP"}
  Receiver = "RCV"
  ClientModes = {"NORMAL", "RINGTONE", "IN_CALL"}
  DriverFaults = TRUE
  CallFaults = FALSE
  EchoCancel = FALSE
  QuietClose = TRUE
SPECIFICATION Spec
INVARIANTS LockOrder RefCounts PlaybackLive WakeBalanced OutputBeforeInput MuteHonoured
