CHECK_DEADLOCK FALSE
CONSTANTS
  w1 = w1
  NoTask = NoTask
  Tasks = {1, 2}
  Workers = {w1}
  Signals = {"SIGINT", "SIGTERM"}
  MaxAttempts = 2
  MaxFaults = 1
SPECIFICATION FairSpec
INVARIANTS
  PoolInv
  DrainedAtExit
PROPERTIES
  NoStarvation
  ShutdownEnds
