SPECIFICATION Spec
CONSTANTS
  Lengths <- const_Lengths
  Text <- const_Text
  Masks <- const_Masks
  MaxSent <- const_MaxSent
INVARIANTS
  TypeOK
  MessagesGenuine
  TroubleHasCause
PROPERTIES
  HandshakeEnds
CHECK_DEADLOCK FALSE
