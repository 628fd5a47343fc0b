CONSTANTS
  Request = {r1, r2, r3}
  None = none
  MaxOverlap = 1
SPECIFICATION Spec
SYMMETRY Symmetry
INVARIANTS OneExecution RepeatsAgree NotBlocked NoStrayKey
CHECK_DEADLOCK FALSE
