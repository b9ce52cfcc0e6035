SPECIFICATION Spec
CONSTANTS
  c1 = c1
  c2 = c2
  Reader = c1
  Writers <- const_Writers
  ReadSizes = {0, 1, 2}
  WriteSizes = {0, 1}
  MaxSent = 3
  NULL = NULL
INVARIANT
  ExactEofIsReal
CHECK_DEADLOCK FALSE
