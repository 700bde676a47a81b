SPECIFICATION Spec
CONSTANTS
  Calls = {c1, c2, c3}
  Keys <- MCKeys
  Requests <- MCRequests
  Uncapped = Uncapped
  AppendsMayFail = FALSE
INVARIANT CapSurvivesRestart
CHECK_DEADLOCK FALSE
