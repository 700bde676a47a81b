SPECIFICATION Spec
CONSTANTS
  Intents = {h1, h2}
  Decisions = {c1, c2, c3}
  NoDecision = NoDecision
  OpOf <- MCOpOf
  TermsOf <- MCTermsOf
  PaidByOthers = {h1}
  TTL = 1
  MaxClock = 1
  ReconcileInFlight = FALSE
INVARIANTS
  TypeOK
  NoBypass
  OutstandingIsRecorded
  SettledIsTrue
PROPERTY ReleasesApproval
CHECK_DEADLOCK FALSE
