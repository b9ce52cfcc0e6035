SPECIFICATION Spec
CONSTANTS
  Size = 2
  Callers = {c1, c2}
  Messages = {1, 2, 3}
  MaxAccepted = 4
INVARIANTS
  TypeOK
  InOrder
  Accounted
  CountIsIssued
PROPERTIES
  CallsEnd
