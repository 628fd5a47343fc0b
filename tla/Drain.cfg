CONSTANTS
  Query = {q1, q2}
  Probe = {p1}
  Loop = loop
SPECIFICATION DrainFairSpec
INVARIANTS QuiescedStaysQuiet StopAnswerIsSound
PROPERTIES ShutdownEnds
CHECK_DEADLOCK FALSE
