SPECIFICATION Spec
CONSTANTS
  Intents = {h1, h2}
  Decisions = {c1, c2, c3}
  NoDecision = NoDecision
  OpOf <- MCOpOf
  TermsOf <- MCTermsOf
  PaidByOthers = {h1}
  TTL = 1
  MaxClock = 1
  ReconcileInFlight = TRUE
INVARIANT NoBypass
CHECK_DEADLOCK FALSE
