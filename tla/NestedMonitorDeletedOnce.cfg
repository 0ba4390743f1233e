SPECIFICATION Spec
CONSTANTS
  Places = {p1, p2}
  Msgs = {m1}
  None = None
INVARIANTS
  DeletedOnce
CHECK_DEADLOCK FALSE
