SPECIFICATION Spec
CONSTANTS
  c1 = c1
  c2 = c2
  c3 = c3
  Calls <- MCCalls
  Micro <- MCMicro
  Cap = 2
  Hour = 1
  MaxClock = 2
  MaxBufferedRows = 2
INVARIANTS
  TypeOK
  HourlyCap
  SignedOnRecord
PROPERTY SettlementReachesDisk
CHECK_DEADLOCK FALSE
