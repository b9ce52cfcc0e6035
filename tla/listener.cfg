SPECIFICATION Spec
CONSTANTS
  a1 = a1
  a2 = a2
  Owner = a1
  Acceptors <- const_Acceptors
  MaxArrived = 3
  NULL = NULL
INVARIANTS
  TypeOK
  HandedInOrder
  DefinedWhileServing
PROPERTIES
  AcceptHears
CHECK_DEADLOCK FALSE
