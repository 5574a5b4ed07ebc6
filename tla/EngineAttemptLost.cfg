CONSTANTS
  j1 = j1
  j2 = j2
  t1 = t1
  t2 = t2
  w1 = w1
  w2 = w2
  p1 = p1
  p2 = p2
  NoTask = NoTask
  Jobs = {j1}
  Tasks = {t1, t2}
  JobOf <- OneJob
  Workers = {w1, w2}
  Processes = {p1}
  ProcOf <- OnePool
  MaxAttempts = 2
  MinFailures = 2
  MaxFaults = 1
SPECIFICATION Spec
INVARIANTS
  EveryAttemptLogged
