CHECK_DEADLOCK FALSE
CONSTANTS
  j1 = j1
  t1 = t1
  t2 = t2
  x1 = x1
  x2 = x2
  x3 = x3
  Nobody = Nobody
  NoRow = NoRow
  Jobs = {j1}
  Tasks = {t1, t2}
  JobOf <- OneJob
  MaxAttempts = 2
  Txns = {x1, x2, x3}
SYMMETRY TxnsAndStoresAlike
SPECIFICATION Spec
INVARIANTS
  IndInv
  DeadlocksNeedASweep
PROPERTIES
  ImplementsContract
