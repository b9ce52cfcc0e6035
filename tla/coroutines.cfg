SPECIFICATION Spec
CONSTANTS
  N = 3
  Uses <- const_Uses
  Main = Main
  NULL = NULL
INVARIANTS
  TypeOK
  FramesAccounted
  SuspendedWillWake
  StreamIsConnected
PROPERTIES
  Finishes
CHECK_DEADLOCK FALSE
