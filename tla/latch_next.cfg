SPECIFICATION Spec
CONSTANTS
  Arriving = {a1, a2, owner}
  Waiting = {}
  Owner = owner
  Workers = {}
  LOOP = loop
  NIL = nil
INVARIANT
  NextIsAlive
CHECK_DEADLOCK FALSE
