SPECIFICATION Spec
CONSTANTS
  o1 = o1
  o2 = o2
  o3 = o3
  Observers <- MCObservers
  Heads <- MCHeads
  Paths <- MCPaths
  Trusted <- MCTrusted
  Histories <- MCHistories
  Genuine <- MCGenuine
  Reqs <- MCReqs
  HookOptions <- MCHookOptions
  Preflights <- MCPreflights
  Lookups <- MCLookups
  Records <- MCRecords
  IssuerKey = "ik"
  HookTime = 2
  EvalOptions <- MCEvalOptions
  Receipts <- MCReceipts
  LogAnswers <- MCLogAnswers
  Challenges <- MCChallenges
  MppOptions <- MCMppOptions
  d1 = d1
  d2 = d2
  DeskCalls <- MCDeskCalls
  DeskItems <- MCDeskItems
  DeskHashes = {"h1", "h2"}
  DeskClock = 1
  DeskClears <- MCDeskClears
  Payments <- MCPayments
  Screens <- MCScreens
  SettleOptions <- MCSettleOptions
  SafeOptions <- MCSafeOptions
  ProbeAnswers <- MCProbeAnswers
  Reoffered <- MCReoffered
  Deliveries <- MCDeliveries
  Diets <- MCDiets
  Directories <- MCDirectories
  ColdAnswers <- MCColdAnswers
  ColdConfigs <- MCColdConfigs
  MaxPerCall = 3
  HopInspectCap = 2
  RefuseFixture <- Fixture
  CommandHeads <- MCHeads
  CommandPaths <- MCPaths
  Inclusions <- MCInclusions
  CommandTrust <- MCTrusted
  Authority = "authority"
  Program = "ledger program"
  Ledgers <- MCLedgers
  RpcAnswers <- MCRpcAnswers
  AuthoritySigned <- MCAuthoritySigned
  EvidenceInputs <- MCEvidenceInputs
  EvidenceEdits <- MCEvidenceEdits
  Tokens <- MCTokens
  Outcomes <- MCOutcomes
  OperatorKey = "operator"
  Peers <- MCPeers
  Invoices <- MCInvoices
  Preflighting <- MCPreflighting
  Transactions <- MCTransactions
  InvoiceCap = 2
  MaxFetches = 2
  PaidCalls <- MCDeskCalls
  PaymentHeaders <- MCPaymentHeaders
  CallAnswers <- MCCallAnswers
  Wrappers <- MCWrappers
  OfferLists <- MCOfferLists
  MaxDistinct = 2
  CounselCases <- MCCounselCases
SYMMETRY MCSymmetry
INVARIANTS
  TypeOK
  AcceptedFormOneHistory
  VerdictsAreEarned
  PaysWithinBounds
  BuysAdviceOnce
  ApprovalIsEarned
  CredentialIsRecorded
  DeskSpendsOnce
  SettlesOnEvidence
  PolicyIsVetted
  EvidenceIsEarned
  FulfilmentIsKept
CHECK_DEADLOCK FALSE
