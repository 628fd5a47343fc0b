CONSTANTS
  Owner = owner
  Peer = peer
  Sync = sync
  Watcher = {sync, stream}
  WatcherBuffer = 1
  PublishBuffer = 1
  Outcome = {"SUCCEEDED"}
SPECIFICATION FairSpec
INVARIANTS SyncOrder
PROPERTIES OwnVerdictEndsSync EarlyWatchEnds SyncReturns
CHECK_DEADLOCK FALSE
