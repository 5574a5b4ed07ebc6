CONSTANTS
  v1 = v1
  v2 = v2
  l1 = l1
  l2 = l2
  Viewers = {v1}
  Loads = {l1, l2}
  Stores = 2
  MaxRetries = 0
  MaxFaults = 0
SPECIFICATION Spec
INVARIANTS
  CountsMoveForward
CHECK_DEADLOCK FALSE
