CONSTANTS
  Request = {r1, r2}
  None = none
  MaxOverlap = 2
SPECIFICATION Spec
INVARIANTS OneExecution
CHECK_DEADLOCK FALSE
