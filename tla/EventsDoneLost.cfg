CONSTANTS
  v1 = v1
  v2 = v2
  l1 = l1
  l2 = l2
  Viewers = {v1}
  Loads = {l1}
  Stores = 1
  MaxRetries = 0
  MaxFaults = 1
SPECIFICATION FairSpec
PROPERTIES
  EveryStreamEnds
CHECK_DEADLOCK FALSE
