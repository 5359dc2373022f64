SPECIFICATION SyncSpec
CONSTANTS
  Watcher = {w1, w2}
  Capacity = 2
INVARIANT WatchersServed
PROPERTIES OnlyOwnerCuts CallsEnd
