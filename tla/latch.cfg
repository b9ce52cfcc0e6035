SPECIFICATION Spec
CONSTANTS
  Arriving = {a1, a2, owner}
  Waiting = {w1}
  Owner = owner
  Workers = {f1, f2}
  LOOP = loop
  NIL = nil
INVARIANTS
  TypeOK
  NobodyEarly
  LoopIsSafe
PROPERTIES
  AllPass
CHECK_DEADLOCK FALSE
