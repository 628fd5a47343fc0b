CONSTANTS
  Instance = {i1}
  Query = {q1, q2}
  MaxSlots = 1
  PersistAttempts = 2
  MaxEnds = 0
SPECIFICATION Spec
SYMMETRY Symmetry
INVARIANTS SlotsBalanced
