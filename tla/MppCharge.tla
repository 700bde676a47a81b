----------------------------- MODULE MppCharge -----------------------------
(***************************************************************************)
(* mpp-hook.ts: an MPP 402 challenge is normalized to one payment intent,  *)
(* evaluated with intelligence.ts as the runtime's counterparty view,      *)
(* recorded durably, and only then answered with a credential.  A side of  *)
(* a challenge is its request or the methodDetails nested in it; amounts   *)
(* are base units, with a negative number for any other text.              *)
(***************************************************************************)
EXTENDS GatePolicy, FiniteSets

CONSTANTS
  Challenges,   \* the challenges a server may send
  MppOptions    \* how the guard was created

\* A field of a side is absent or holds one value.
ASSUME ChallengesAssumption ==
  \A ch \in Challenges : \A side \in {ch.top, ch.nested} :
    \A f \in {"recipient", "currency", "amount", "decimals", "cluster", "network", "chainId"} :
      side[f] = None \/ side[f] = <<side[f][1]>>

VARIABLE mpp    \* [at, ch, opt, intent, verdict, queued, log]
mppVars == <<mpp>>

MppIdle == [at |-> "idle", ch |-> None, opt |-> None, intent |-> None, verdict |-> None,
            queued |-> <<>>, log |-> <<>>]

Challenge == mpp.ch[1]
MOpt == mpp.opt[1]

-----------------------------------------------------------------------------
(* mppChallengeToIntent.                                                   *)

KnownClusters == {"mainnet-beta", "mainnet", "devnet", "testnet", "localnet", "localhost"}

PeggedAssets ==
  [usdc_mainnet |-> "mainnet", usdt_mainnet |-> "mainnet", usdc_devnet |-> "devnet"]
PeggedDecimals == 6

CanonicalCluster(cluster) == IF cluster = "mainnet-beta" THEN "mainnet" ELSE cluster

Differ(a, b) == a # None /\ b # None /\ a # b

ClusterNamed(side) == Or(side.cluster, side.network)

Cluster(ch) == Or(Or(ClusterNamed(ch.top), ClusterNamed(ch.nested)), <<"mainnet-beta">>)[1]

BoundFields == {"recipient", "currency", "amount", "decimals"}
Bound(ch, f) == Or(ch.top[f], ch.nested[f])

\* Slip: only the fields of the transfer itself are compared.
FirstFieldTaken(ch) == \E f \in {"recipient", "currency", "amount"} : Differ(ch.top[f], ch.nested[f])

NamedTwice(ch) ==
  \/ \E f \in BoundFields : Differ(ch.top[f], ch.nested[f])
  \/ LET top == ClusterNamed(ch.top)  nested == ClusterNamed(ch.nested)
     IN /\ top # None /\ nested # None
        /\ CanonicalCluster(top[1]) # CanonicalCluster(nested[1])

SolanaRefused(ch) ==
  \/ ch.splits \/ ch.sponsored
  \/ NamedTwice(ch)
  \/ \E f \in BoundFields : Bound(ch, f) = None
  \/ Cluster(ch) \notin KnownClusters
  \/ Bound(ch, "currency")[1] \notin DOMAIN PeggedAssets
  \/ PeggedAssets[Bound(ch, "currency")[1]] # CanonicalCluster(Cluster(ch))
  \/ Bound(ch, "decimals")[1] # PeggedDecimals
  \/ ~BaseUnits(Bound(ch, "amount")[1])

Intent(network, asset, amount, payTo, expires) ==
  [network |-> network, asset |-> asset, amount |-> amount, payTo |-> payTo, expires |-> expires]

SolanaIntent(ch) ==
  Intent(CanonicalCluster(Cluster(ch)), Bound(ch, "currency")[1], Bound(ch, "amount")[1],
         Bound(ch, "recipient")[1], ch.expires)

-----------------------------------------------------------------------------
(* mppTempoChargeToIntent.                                                 *)

TempoUsdAssets ==
  [chain \in {"tempo", "moderato"} |->
     {"ousd", "path_usd"} \cup (IF chain = "tempo" THEN {"usdc_e"} ELSE {})]

\* Both ways of naming the chain, on both sides.
ChainIds(ch) ==
  {side.chainId[1] : side \in {s \in {ch.top, ch.nested} : s.chainId # None}}
    \cup {side.network[1] : side \in {s \in {ch.top, ch.nested} : s.network # None}}

\* A field outside TEMPO_REQUEST_FIELDS and TEMPO_METHOD_DETAIL_FIELDS.
TempoUnsupported(ch) ==
  \/ ch.top.other \/ ch.nested.other
  \/ ch.sponsored
  \/ \E f \in {"cluster", "decimals"} : ch.top[f] # None
  \/ \E f \in {"cluster"} \cup BoundFields : ch.nested[f] # None

TempoRefused(ch, now) ==
  \/ TempoUnsupported(ch)
  \/ ch.top.recipient = None \/ ~Evm(ch.top.recipient)
  \/ ch.top.currency = None \/ ch.top.amount = None
  \/ Cardinality(ChainIds(ch)) # 1
  \/ ~ChainIds(ch) \subseteq DOMAIN TempoUsdAssets
  \/ \E chain \in ChainIds(ch) : ch.top.currency[1] \notin TempoUsdAssets[chain]
  \/ ch.top.amount[1] <= 0
  \/ ch.splits
  \/ ch.machineToken
  \/ ch.expires # None /\ ch.expires[1] <= now

TempoIntent(ch) ==
  Intent(CHOOSE chain \in ChainIds(ch) : TRUE, ch.top.currency[1], ch.top.amount[1],
         ch.top.recipient[1], ch.expires)

\* What the normalization throws, if it throws.
Refusal(ch, now) ==
  IF ch.intent # "charge" \/ ch.method \notin {"solana", "tempo"} THEN <<"UNEVALUATED_METHOD">>
  ELSE IF IF ch.method = "tempo" THEN TempoRefused(ch, now) ELSE SolanaRefused(ch)
    THEN <<"MALFORMED_CHALLENGE">>
  ELSE None

IntentOf(ch) == IF ch.method = "tempo" THEN TempoIntent(ch) ELSE SolanaIntent(ch)

-----------------------------------------------------------------------------
(* intelligence.ts and the runtime's verdict over it.                      *)

\* The network as network.ts reads the intent's "solana:<cluster>" or "eip155:<chain>".
NetworkOf(intent) ==
  IF intent.network = "mainnet" THEN "solana"
  ELSE IF intent.network \in KeywordNames THEN intent.network
  ELSE "other"

\* createTwzrdMppIntegration: an outage refuses, and an unscored network
\* refuses but for the opt-in that demands a ceiling.
IntegrationCfg(written, allowUnscored) ==
  ResolveConfig([written EXCEPT !.failOpen = "off",
                                !.mode = IF allowUnscored THEN "observe" ELSE "strict"])

\* createTwzrdIntelligenceProvider and approvalToIntelligence
Intelligence(intent, cfg, preflight, lookup) ==
  LET approval == ApprovePayment([payTo |-> <<intent.payTo>>, price |-> <<intent.amount>>,
                                  network |-> NetworkOf(intent), asset |-> <<intent.asset>>],
                                 cfg, preflight, lookup)
  IN IF ~approval.approved THEN "block"
     ELSE IF approval.verdict \in {"warn", "allow"} THEN approval.verdict
     ELSE "unknown"

\* evaluateIntent with what it was told: the mandate and the policy only tighten.
Verdicts(word) ==
  IF word = "block" THEN {"block"}
  ELSE IF word \in {"warn", "unchecked"} THEN {"warn", "block"}
  ELSE {"allow", "warn", "block"}

-----------------------------------------------------------------------------
(* evaluateMppChallenge, persistMppDecision and the callers.               *)

Row(outcome, input) == [outcome |-> outcome, input |-> input]

Queues(m, outcome, input, next) ==
  mpp' = [m EXCEPT !.at = next, !.queued = Append(@, Row(outcome, input))]

\* Slip: the record is queued and nobody waits for it to be written.
QueuesUnawaited(m, outcome, input, next) ==
  mpp' = [m EXCEPT !.at = IF next = "clearing" THEN "cleared" ELSE "refused",
                   !.queued = Append(@, Row(outcome, input))]

Persists(m, outcome, input, next) == Queues(m, outcome, input, next)

\* A challenge arrives.  An unevaluated method goes ungated where that is opted in.
Normalizes ==
  /\ mpp.at = "idle"
  /\ \E ch \in Challenges, opt \in MppOptions :
       LET m == [mpp EXCEPT !.ch = <<ch>>, !.opt = <<opt>>]
           refusal == Refusal(ch, opt.now)
       IN IF refusal = None THEN mpp' = [m EXCEPT !.at = "intent", !.intent = <<IntentOf(ch)>>]
          ELSE IF refusal[1] = "UNEVALUATED_METHOD" /\ opt.allowUnevaluated
            THEN Persists(m, "warn", None, "clearing")
          ELSE Persists(m, "block", None, "refusing")

Disposition(verdict, opt) ==
  IF verdict = "warn" /\ IsTrueFlag(opt.treatWarnAsBlock) THEN "block" ELSE verdict

\* A blocked challenge is recorded as well, then refused.
Decides(decided) ==
  LET disposition == Disposition(decided, MOpt)
  IN Persists([mpp EXCEPT !.verdict = <<decided>>], disposition, mpp.intent,
              IF disposition = "block" THEN "refusing" ELSE "clearing")

EvaluatesCharge ==
  /\ mpp.at = "intent"
  /\ \/ Persists(mpp, "error", mpp.intent, "refusing")  \* evaluateIntent throws
     \/ IF MOpt.intelligence = None THEN \E verdict \in Verdicts("unchecked") : Decides(verdict)
        ELSE \E preflight \in Preflights, lookup \in Lookups :
               \E verdict \in Verdicts(Intelligence(mpp.intent[1], MOpt.intelligence[1], preflight, lookup)) :
                 Decides(verdict)

\* ledger.flush: a record that cannot be written refuses the payment.
Flushes ==
  /\ mpp.at \in {"clearing", "refusing"}
  /\ mpp' = [mpp EXCEPT !.at = IF @ = "clearing" THEN "cleared" ELSE "refused",
                        !.log = @ \o mpp.queued, !.queued = <<>>]

FlushFails ==
  /\ mpp.at \in {"clearing", "refusing"}
  /\ mpp' = [mpp EXCEPT !.at = "refused", !.queued = <<>>]

\* helpers.createCredential, or mppx's default flow where the method is ungated.
CreatesCredential == mpp.at = "cleared" /\ mpp' = [mpp EXCEPT !.at = "paid"]

\* The process dies; what it sent stays sent, and what was queued is gone.
MppCrash ==
  /\ mpp.at \notin {"idle", "refused", "lost"}
  /\ mpp' = [mpp EXCEPT !.at = IF @ = "paid" THEN "paid" ELSE "lost", !.queued = <<>>]

MppInit == mpp = MppIdle
MppNext == Normalizes \/ EvaluatesCharge \/ Flushes \/ FlushFails \/ CreatesCredential \/ MppCrash
-----------------------------------------------------------------------------
MppTypeOK ==
  /\ mpp.at \in {"idle", "intent", "clearing", "refusing", "cleared", "refused", "paid", "lost"}
  /\ Len(mpp.queued) + Len(mpp.log) <= 1

\* The fields the wallet transfers by: the amount, currency and recipient of
\* the request itself, the network and decimals of methodDetails.  The one field
\* that may read otherwise than the intent is a network beside which methodDetails
\* names another cluster: the intent is of that cluster.
WalletReads(ch, intent) ==
  IF ch.method = "tempo"
    THEN /\ intent.payTo = ch.top.recipient[1] /\ intent.amount = ch.top.amount[1]
         /\ intent.asset = ch.top.currency[1]
         /\ \A side \in {ch.top, ch.nested} : side.chainId \in {None, <<intent.network>>}
  ELSE /\ ch.top.recipient \in {None, <<intent.payTo>>}
       /\ ch.top.amount \in {None, <<intent.amount>>}
       /\ ch.top.currency \in {None, <<intent.asset>>}
       /\ ch.nested.decimals \in {None, <<PeggedDecimals>>}
       /\ ch.nested.network # None /\ CanonicalCluster(ch.nested.network[1]) # intent.network =>
            ch.nested.cluster # None /\ CanonicalCluster(ch.nested.cluster[1]) = intent.network

(* A credential exists only for a decision that is on disk, whatever was lost
   in between; the recorded transfer has the amount, the currency and the
   recipient that the wallet reads, and its network unless methodDetails names
   another cluster beside it, which is then the recorded one; there is no second
   transfer beside it; and the integration lets nothing through that its
   network's scoring could not speak about, short of the opt-in. *)
CredentialIsRecorded ==
  mpp.at = "paid" =>
    /\ Len(mpp.log) = 1 /\ mpp.log[1].outcome \in {"allow", "warn"}
    /\ mpp.intent = None => MOpt.allowUnevaluated /\ mpp.log[1].outcome = "warn"
    /\ mpp.intent # None =>
         /\ mpp.log[1].input = mpp.intent
         /\ WalletReads(Challenge, mpp.intent[1])
         /\ ~Challenge.splits /\ ~Challenge.sponsored
         /\ MOpt.intelligence # None /\ MOpt.intelligence[1].mode = "strict" =>
              NetworkOf(mpp.intent[1]) = "solana"
=============================================================================
