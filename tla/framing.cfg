SPECIFICATION Spec
CONSTANTS
  Lengths <- const_Lengths
  Texts <- const_Texts
  MaxMessages = 2
INVARIANTS
  MessagesIntact
CHECK_DEADLOCK FALSE
