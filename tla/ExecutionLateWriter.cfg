CONSTANTS
  Instance = {i1, i2}
  Query = {q1}
  MaxSlots = 1
  PersistAttempts = 1
  MaxEnds = 0
SPECIFICATION Spec
PROPERTIES TerminalIsFinal
