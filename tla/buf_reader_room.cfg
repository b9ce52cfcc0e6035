SPECIFICATION Spec
CONSTANTS
  Size = 3
  Wants = {0, 1, 3, 4}
  Flag <- const_Flag
  Kinds = {"x", "y"}
  NUL = "nul"
  MaxTaken = 5
INVARIANT
  UntilHasRoom
CHECK_DEADLOCK FALSE
