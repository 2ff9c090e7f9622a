\* Heartbeat, online pulse and core temperature. The program stops.
SPECIFICATION Spec
INVARIANTS
  OneClient
  StoppedIsSilent
PROPERTIES
  NoPulseStartsAfterStop
  StopCompletes
  PulsesKeepArriving
CHECK_DEADLOCK FALSE
