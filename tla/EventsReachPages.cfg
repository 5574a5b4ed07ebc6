CONSTANTS
  v1 = v1
  v2 = v2
  l1 = l1
  l2 = l2
  Viewers = {v1}
  Loads = {l1, l2}
  Stores = 1
  MaxRetries = 1
  MaxFaults = 1
SPECIFICATION FairSpec
INVARIANTS
  IndInv
  SnapshotsTruthful
  NothingMissed
PROPERTIES
  PagesLearnTheEnd
  StreamsAreFreed
CHECK_DEADLOCK FALSE
