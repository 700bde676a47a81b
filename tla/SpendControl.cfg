SPECIFICATION Spec
CONSTANTS
  Calls = {c1, c2, c3, c4}
  Keys <- MCKeys
  Requests <- MCRequests
  Uncapped = Uncapped
  AppendsMayFail = TRUE
SYMMETRY CallSymmetry
INVARIANTS
  TypeOK
  PendingIsReserved
  RecordedOnce
  CapHolds
CHECK_DEADLOCK FALSE
