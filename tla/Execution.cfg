CONSTANTS
  Instance = {i1, i2}
  Query = {q1}
  MaxSlots = 1
  PersistAttempts = 1
  MaxEnds = 1
SPECIFICATION FairSpec
INVARIANTS VerdictStands SucceededIsStored UnregisteredIsOver
PROPERTIES OwnVerdictIsFinal ImplementsLedger RecordsSettle
