SPECIFICATION Spec
CONSTANTS
  e1 = e1
  e2 = e2
  e3 = e3
  p1 = p1
  p2 = p2
  Evals <- MCEvals
  Payees <- MCPayees
  PayTo <- MCPayTo
  Micro <- MCMicro
  Day = 3
  DailyCeiling = 3
  Month = 4
  MonthlyCeiling = 4
  NewWindow = 2
  NewCounterpartyCap = 2
  TTL = 2
  MaxClock = 5
INVARIANTS
  TypeOK
  CeilingsHold
  SlotTakenBySignature
  SignedWithinCeilings
CHECK_DEADLOCK FALSE
