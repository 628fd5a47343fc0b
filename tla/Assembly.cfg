SPECIFICATION Spec
CONSTANTS
  Handshake = {h1, h2}
  MaxRenewals = 2
  Files <- MCFiles
  Edits <- MCEdits
  Width = 8
  LongestGC = 25
  DefaultGC = 12
  Reloader = {r1, r2}
SYMMETRY Symmetry
CONSTRAINT OneAtATime
CHECK_DEADLOCK FALSE
INVARIANTS  ServesAsConfigured  ServedIsAPair StaleIsNoticed
