SPECIFICATION Spec
CONSTANTS
  r1 = r1
  r2 = r2
  r3 = r3
  Rounds <- MCRounds
  Micro <- MCMicro
  DailyCeiling = 3
  NoRound = NoRound
INVARIANT NotUndercounted
CHECK_DEADLOCK FALSE
