SPECIFICATION Spec
CONSTANTS
  c1 = c1
  c2 = c2
  c3 = c3
  c4 = c4
  Calls <- MCCalls
  Micro <- MCMicro
  Cap = 3
  Hour = 2
  MaxClock = 4
INVARIANT RollingCap
CHECK_DEADLOCK FALSE
