SPECIFICATION Spec
CONSTANTS
  Size = 3
  Wants = {0, 1, 3, 4}
  Flag <- const_Flag
  Kinds = {"x", "y"}
  NUL = "nul"
  MaxTaken = 5
INVARIANTS
  TypeOK
  BufferIsNext
  UntilStopsAtFlag
  UntilSeesFlag
  ReadHasRoom
  AssertNeedsMix
PROPERTIES
  IsChannel
  FailureKeepsBuffered
  CallsEnd
CHECK_DEADLOCK FALSE
