CONSTANTS
  c1 = c1
  c2 = c2
  Callers = {c1, c2}
  Interval = 2
  PauseMs = 3
  KeyTtl = 9
  Window = 4
  ApiLimit = 3
  MaxLate = 2
  MaxFaults = 1
  MaxKeyLosses = 1
SPECIFICATION Spec
VIEW SinceNow
INVARIANTS
  IndInv
  SlotsSpaced
  WaitBounded
  UnderApiLimit
PROPERTIES
  PauseBindsNewSlots
