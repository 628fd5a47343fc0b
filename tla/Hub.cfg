CONSTANTS
  q1 = q1
  q2 = q2
  Query = {q1, q2}
  Watcher <- MCWatcher
  MaxSubscriptions = 1
SPECIFICATION HubFairSpec
INVARIANTS LivePumpIsListed
 
CHECK_DEADLOCK FALSE
