CONSTANTS
  DB = {d1}
  Setting <- MCSetting
  Absent = absent
  Caller = {admin, sighup}
  Query = {q1}
  None = none
  MaxPools = 3
SPECIFICATION FairSpec
INVARIANTS  PoolsFollowConfig ActiveKeepsPool
PROPERTIES RetiredIsClosed
CHECK_DEADLOCK FALSE
