SPECIFICATION Spec
CONSTANTS
  Intents = {i1, i2}
  Decisions = {d1, d2}
  NoDecision = NoDecision
  Times <- MCTimes
  Approvals <- MCApprovals
  Amounts <- MCAmounts
  MaxRows = 6
SYMMETRY IdSymmetry
INVARIANTS
  TypeOK
  MemoryIsReplay
  ReplayIsFold
  OneUnresolvedPayment
  ApprovalSingleUse
  RefusedNeverSigned
  SignedBeforeExpiry
  CompletedWithinApproval
PROPERTY KeepsPromise
CHECK_DEADLOCK FALSE
