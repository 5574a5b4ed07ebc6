CONSTANTS
  Undefined = Undefined
  WindowMs = 2
  MinFailures = 3
  MaxRecords = 5
  MaxTime = 6
SPECIFICATION Spec
INVARIANTS
  IndInv
  TripsOnlyOnOutage
  TripsOnEveryOutage
PROPERTIES
  EngineAssumption
CHECK_DEADLOCK FALSE
