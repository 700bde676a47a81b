---------------------------- MODULE PaymentGate ----------------------------
(***************************************************************************)
(* The pre-sign hook of twzrd-x402-gate: evaluateBeforePaymentCreation of  *)
(* x402-client-hook.ts with clearance.ts, receipt-policy.ts, quick.ts and  *)
(* buyer-defaults.ts, over the decision records it asks for.  One action   *)
(* per stretch between awaits: the free approval, Payment Control, the     *)
(* clearance record, then one paid hop.                                    *)
(***************************************************************************)
EXTENDS GatePolicy

-----------------------------------------------------------------------------
(* The signed record twzrd.payment_decision.v1 (payment-decision.ts) over  *)
(* the 402 entry it is about (resource-bind.ts): issuing one, projecting a *)
(* free approval onto one, and verifying one.  The hash of an entry is the *)
(* entry's committed fields; a signature names its key and its preimage.   *)

\* PAYMENT_DECISION_REASON_CODES: the decisions each reason may accompany.
\* OTHER_BLOCK stands for the codes of the policy runtime that only block.
ReasonCodes ==
  [ALLOW |-> {"allow"},
   INTEL_WARN |-> {"warn"}, UNKNOWN_UNDER_LIMIT |-> {"warn"},
   UNKNOWN_ABOVE_LIMIT |-> {"warn", "block"},
   WASH_FLAGGED |-> {"block"}, INTEL_BLOCK |-> {"block"}, OTHER_BLOCK |-> {"block"},
   INTEL_UNAVAILABLE |-> {"unavailable"}, NETWORK_NOT_SCORED |-> {"unavailable"}]

\* resourceBindLeafHash, and resourceBindLeafHashV2 when a decision is named.
LeafOf(req, decisionId) ==
  [amount |-> Amount(req), asset |-> req.asset, network |-> req.network,
   payTo |-> PayTo(req), resource |-> req.resource, decision |-> decisionId]

\* challengeHash and merchantFromChallenge throw on any other entry.
Hashable(req) ==
  /\ ~Conflicted(req)
  /\ PayTo(req) # None /\ Amount(req) # None
  /\ req.resource # None
  /\ req.network # "missing"

\* toCaip2Network
Caip2 ==
  [solana |-> "mainnet_genesis", mainnet_genesis |-> "mainnet_genesis",
   devnet |-> "devnet_genesis", devnet_genesis |-> "devnet_genesis",
   testnet_genesis |-> "testnet_genesis", base |-> "base", base_sepolia |-> "base_sepolia"]

Mappable(network) == network \in DOMAIN Caip2

\* paymentDecisionPreimage: everything but the signature bytes.
RecordPreimage(rec) ==
  <<rec.challenge_hash, rec.merchant, rec.network, rec.decision, rec.reason, rec.expires_at, rec.key_id>>

MerchantOf(req) == [origin |-> req.resource, pay_to |-> PayTo(req)]

RecordFor(req, decision, reason, expires, decisionId, keyId, signer) ==
  LET rec == [challenge_hash |-> LeafOf(req, decisionId), merchant |-> MerchantOf(req),
              network |-> Caip2[req.network], decision |-> decision, reason |-> reason,
              expires_at |-> expires, key_id |-> keyId]
  IN [challenge_hash |-> rec.challenge_hash, merchant |-> rec.merchant, network |-> rec.network,
      decision |-> decision, reason |-> reason, expires_at |-> expires, key_id |-> keyId,
      sig |-> [by |-> signer, over |-> RecordPreimage(rec)]]

Coherent(decision, reason) ==
  reason \in DOMAIN ReasonCodes /\ decision \in ReasonCodes[reason]

\* issuePaymentDecisionRecord returns a record, and does not throw
Issuable(req, decision, reason) ==
  Hashable(req) /\ Mappable(req.network) /\ Coherent(decision, reason)

\* decisionFromApproval: no verdict is unavailable, never block.
DecisionFromApproval(r) ==
  IF r.why \in {"fail_open", "fail_closed", "card_unreachable"} THEN <<"unavailable", "INTEL_UNAVAILABLE">>
  ELSE IF ~r.approved /\ r.washFlagged = <<TRUE>> THEN <<"block", "WASH_FLAGGED">>
  ELSE IF r.unevaluated /\ r.scored
    THEN IF r.approved THEN <<"warn", "UNKNOWN_UNDER_LIMIT">>
         ELSE <<"block", IF r.why = "unevaluated" THEN "UNKNOWN_ABOVE_LIMIT" ELSE "INTEL_BLOCK">>
  ELSE IF r.verdict = "unknown" \/ ~r.scored THEN <<"unavailable", "NETWORK_NOT_SCORED">>
  ELSE IF r.verdict = "block" \/ ~r.approved THEN <<"block", "INTEL_BLOCK">>
  ELSE IF r.verdict = "warn" THEN <<"warn", "INTEL_WARN">>
  ELSE <<"allow", "ALLOW">>

-----------------------------------------------------------------------------
(* verifyPaymentDecisionRecord, with the relying party's keys [key_id ->   *)
(* key], its clock and the challenge it holds.                             *)

\* Slip: the record is not held against the challenge.
BoundToAny(rec, req, decisionId) == TRUE

BoundTo(rec, req, decisionId) ==
  /\ Hashable(req)
  /\ rec.challenge_hash = LeafOf(req, decisionId)
  /\ rec.merchant = MerchantOf(req)
  /\ Mappable(req.network) /\ rec.network = Caip2[req.network]

\* Slip: the signature is not held against the key it names.
SignedBySomeone(rec, keys) == rec.sig.over = RecordPreimage(rec)

SignatureHolds(rec, keys) ==
  /\ rec.key_id \in DOMAIN keys
  /\ rec.sig = [by |-> keys[rec.key_id], over |-> RecordPreimage(rec)]

VerifiesFor(rec, keys, now, req, decisionId) ==
  /\ Coherent(rec.decision, rec.reason)
  /\ now < rec.expires_at
  /\ SignatureHolds(rec, keys)
  /\ BoundTo(rec, req, decisionId)

-----------------------------------------------------------------------------
(* The hook.                                                               *)

CONSTANTS
  Reqs,         \* the selected entries the hook is called with
  HookOptions,  \* how it was installed
  Records,      \* the records an issuer may answer with
  IssuerKey,    \* the key the issuer signs records with
  HookTime      \* the clock of the hook

ASSUME ReqsAssumption == \A req \in Reqs : Numeric(req)
ASSUME HookTimeAssumption == HookTime \in Nat

\* An operator that asks for clearance pins the issuer's key and no other.
ASSUME KeysAssumption ==
  \A opt \in HookOptions :
    opt.clearance # None /\ opt.clearance[1].keys # None =>
      \A name \in DOMAIN opt.clearance[1].keys[1] :
        name = "issuer" /\ opt.clearance[1].keys[1][name] = IssuerKey

VARIABLE gate
gateVars == <<gate>>

GateIdle == [at |-> "idle", req |-> NoOffer, opt |-> None, asked |-> None,
             approval |-> None, spent |-> FALSE, clearance |-> None, hops |-> <<>>,
             receipt |-> FALSE]

Opt == gate.opt[1]
Cfg == Opt.cfg
Price == PriceUsdc(gate.req)
Approval == gate.approval[1]

Aborts(g) == gate' = [g EXCEPT !.at = "abort"]
Proceeds(g) == gate' = [g EXCEPT !.at = "proceed"]
Bought(hop) == [gate EXCEPT !.hops = Append(@, hop)]

-----------------------------------------------------------------------------
\* resolveBuyerPathADefaults: a paying fetch turns both paid hops on.
DefaultReceipt == [min |-> 2500000, onWarn |-> FALSE, hard |-> TRUE, material |-> TRUE]
DefaultEscalation == [min |-> 0, floor |-> None]

ReceiptPolicy(opt) ==
  IF opt.x402 /\ ~opt.receiptSet THEN <<DefaultReceipt>> ELSE opt.receipt

Escalation(opt) ==
  IF opt.x402 /\ ~opt.escalateSet THEN <<DefaultEscalation>> ELSE opt.escalate

\* shouldRequirePathAReceipt
RequiresReceipt(policy, decision, price) ==
  /\ policy # None /\ decision # "block"
  /\ \/ price # None /\ price[1] > policy[1].min
     \/ /\ policy[1].onWarn /\ decision = "warn"
        /\ policy[1].material => price # None /\ price[1] >= policy[1].min

\* Slip: a seller intel never evaluated is escalated like any warn.
WantsQuickOfAnyWarn(opt, approval, price) ==
  LET esc == Escalation(opt) IN
  /\ esc # None /\ opt.x402
  /\ approval.approved /\ approval.verdict = "warn"
  /\ (IF price = None THEN 0 ELSE price[1]) >= esc[1].min

WantsQuick(opt, approval, price) ==
  LET esc == Escalation(opt) IN
  /\ esc # None /\ opt.x402
  /\ approval.approved /\ approval.verdict = "warn"
  /\ approval.scored /\ ~approval.unevaluated
  /\ (IF price = None THEN 0 ELSE price[1]) >= esc[1].min

-----------------------------------------------------------------------------
\* pickReq selects an entry; the conflict check comes before anything else.
Opens ==
  /\ gate = GateIdle
  /\ \E req \in Reqs, opt \in HookOptions :
       LET g == [gate EXCEPT !.req = req, !.opt = <<opt>>]
       IN IF Conflicted(req) THEN Aborts(g) ELSE gate' = [g EXCEPT !.at = "opened"]

Approves ==
  /\ gate.at = "opened"
  /\ \E preflight \in Preflights, lookup \in Lookups :
       gate' = [gate EXCEPT !.at = "approved",
                  !.asked = <<[preflight |-> preflight, lookup |-> lookup]>>,
                  !.approval = <<ApprovePayment(Context(gate.req), Cfg, preflight, lookup)>>]

\* Payment Control sees every entry, and records spend of an approved one only;
\* it can turn an approval into an abort, never back.
Controls ==
  /\ gate.at = "approved"
  /\ IF Opt.control /\ (PayTo(gate.req) = None \/ Amount(gate.req) = None)
       THEN Aborts(gate)
       ELSE \E blocks \in IF Opt.control THEN BOOLEAN ELSE {FALSE} :
              LET g == [gate EXCEPT !.spent = Opt.control /\ Approval.approved /\ ~blocks]
              IN IF blocks \/ ~Approval.approved THEN Aborts(g)
                 ELSE gate' = [g EXCEPT !.at = "free"]

\* evaluateClearanceSku on a record that is at hand.
Clears(policy, rec) ==
  /\ policy.keys # None
  /\ VerifiesFor(rec, policy.keys[1], HookTime, gate.req, None)
  /\ rec.decision \in {"allow", "warn"}

Cleared(policy, g, rec) ==
  IF Clears(policy, rec) THEN gate' = [g EXCEPT !.at = "cleared", !.clearance = <<rec>>]
  ELSE IF policy.hard THEN Aborts(g)
  ELSE gate' = [g EXCEPT !.at = "cleared"]

Missed(policy, g) == IF policy.hard THEN Aborts(g) ELSE gate' = [g EXCEPT !.at = "cleared"]

Clearance ==
  /\ gate.at = "free"
  /\ IF Opt.clearance = None THEN gate' = [gate EXCEPT !.at = "cleared"]
     ELSE LET policy == Opt.clearance[1] IN
          IF policy.record # None THEN Cleared(policy, gate, policy.record[1])
          ELSE IF ~policy.issuer \/ ~Opt.x402 THEN Missed(policy, gate)
          ELSE \/ Missed(policy, Bought("clearance"))  \* no answer, or one without a record
               \/ \E rec \in Records : Cleared(policy, Bought("clearance"), rec)

Floor == LET esc == Escalation(Opt)[1] IN IF esc.floor = None THEN Cfg.minScore ELSE esc.floor[1]

\* A quick tier that does not answer lets the payment through.
Quick ==
  /\ gate.at = "cleared"
  /\ WantsQuick(Opt, Approval, Price)
  /\ \/ Proceeds(Bought("quick"))
     \/ \E score \in {Floor - 1, Floor} :
          IF score < Floor THEN Aborts(Bought("quick")) ELSE Proceeds(Bought("quick"))

ReceiptRequired ==
  ~Approval.unevaluated /\ RequiresReceipt(ReceiptPolicy(Opt), Approval.verdict, Price)

ReceiptMissed(g) == IF ReceiptPolicy(Opt)[1].hard THEN Aborts(g) ELSE Proceeds(g)

Receipt ==
  /\ gate.at = "cleared"
  /\ ~WantsQuick(Opt, Approval, Price)
  /\ IF ~ReceiptRequired THEN Proceeds(gate)
     ELSE IF ~Opt.x402 THEN ReceiptMissed(gate)
     ELSE IF ~Approval.scored THEN Proceeds(gate)
     ELSE \/ ReceiptMissed(Bought("receipt"))
          \/ Proceeds([Bought("receipt") EXCEPT !.receipt = TRUE])

GateInit == gate = GateIdle
GateNext == Opens \/ Approves \/ Controls \/ Clearance \/ Quick \/ Receipt
-----------------------------------------------------------------------------
GateTypeOK ==
  /\ gate.at \in {"idle", "opened", "approved", "free", "cleared", "proceed", "abort"}
  /\ gate.req \in Reqs \cup {NoOffer}
  /\ Len(gate.hops) <= 2
  /\ gate.clearance = None \/ gate.clearance[1].sig.by = IssuerKey

(* What bounds a payment that was let through for free, by what intel had  *)
(* answered: card is None or the readiness card, merchant the lookup.      *)

IsScored(req, cfg) == Scored(req.network, PayTo(req), cfg.mode)

\* Whatever the flags, the number the gate capped is the number that is paid:
\* a scored payment has one price, in USDC.
OnePrice(req, cfg) ==
  /\ ~Conflicted(req) /\ PayTo(req) # None
  /\ IsScored(req, cfg) /\ req.asset # None => PriceUsdc(req) = Amount(req)

\* An outage is paid through only where the operator opted in, or where the
\* network has no score to lose.
NoSilentOutage(req, cfg, card, merchant) ==
  ~cfg.failOpen /\ IsScored(req, cfg) =>
    /\ card # None
    /\ cfg.refuseWashFlagged => merchant.reachable

\* Every ceiling that was read holds, an allow's as well as a warn's.
CeilingsOfCard(req, cfg, card) ==
  IsScored(req, cfg) /\ card # None =>
    /\ CardDecision(card[1]) \notin cfg.blocks
    /\ card[1].cap # None /\ PriceUsdc(req) # None => PriceUsdc(req)[1] <= card[1].cap[1]
    /\ IsUnevaluatedCard(card[1]) =>
         ~cfg.refuseUnevaluated /\ PriceUsdc(req) # None /\ card[1].cap # None

WashIsCapped(req, cfg, card, merchant) ==
  (cfg.refuseWashFlagged /\ ~(IsScored(req, cfg) /\ card = None)
    /\ merchant.card # None /\ merchant.card[1].washFlagged = <<TRUE>>)
  => cfg.washMax # None /\ PriceUsdc(req) # None /\ PriceUsdc(req)[1] <= cfg.washMax[1]

WithinFreeBounds(req, cfg, asked) ==
  /\ OnePrice(req, cfg)
  /\ NoSilentOutage(req, cfg, asked.preflight, asked.lookup)
  /\ CeilingsOfCard(req, cfg, asked.preflight)
  /\ WashIsCapped(req, cfg, asked.preflight, asked.lookup)

\* A hard clearance is this issuer's word about this very entry.
ClearedByIssuer ==
  Opt.clearance # None /\ Opt.clearance[1].hard =>
    LET rec == gate.clearance[1] IN
    /\ rec.decision \in {"allow", "warn"} /\ Coherent(rec.decision, rec.reason)
    /\ HookTime < rec.expires_at
    /\ rec.sig = RecordFor(gate.req, rec.decision, rec.reason, rec.expires_at, None, "issuer", IssuerKey).sig

\* What an issuer records of an approval is a record a relying party takes,
\* is a yes only to what was approved on a score, and never blames the seller
\* for an outage.
IssuedAsDecided ==
  gate.approval # None =>
    LET issued == DecisionFromApproval(Approval) IN
    /\ Hashable(gate.req) /\ Mappable(gate.req.network) => Issuable(gate.req, issued[1], issued[2])
    /\ issued[1] \in {"allow", "warn"} => Approval.approved /\ Approval.scored
    /\ Approval.why \in {"fail_open", "fail_closed", "card_unreachable"} => issued[1] = "unavailable"

(* A payment the hook lets through stayed within every bound that was known
   when it was let through, on whatever path it came: one price, no outage
   read as an answer, the card's and the wash ceiling, the issuer's record. *)
HookPaysWithinBounds ==
  /\ gate.at = "proceed" => WithinFreeBounds(gate.req, Cfg, gate.asked[1]) /\ ClearedByIssuer
  /\ IssuedAsDecided

(* The hook never pays for advice on a payment it refuses for free, nor twice
   for one: a hop is bought after the approval and after Payment Control, the
   trust tier never settles beside the quick tier, and neither is bought for
   a seller or a network that has no score. *)
BuysAdviceOnce ==
  gate.hops # <<>> =>
    /\ Approval.approved
    /\ Opt.control => gate.spent
    /\ Cardinality({i \in DOMAIN gate.hops : gate.hops[i] # "clearance"}) <= 1
    /\ gate.hops[1] # "clearance" \/ Len(gate.hops) = 2 => Approval.scored /\ ~Approval.unevaluated

-----------------------------------------------------------------------------
(* The inductive invariant of the proofs.                                   *)

HookFields == {"at", "req", "opt", "asked", "approval", "spent", "clearance", "hops", "receipt"}
AdviceHops == {"quick", "receipt"}

\* An entry without a conflict is being decided.
Chosen ==
  /\ gate.req \in Reqs /\ ~Conflicted(gate.req)
  /\ Len(gate.opt) = 1 /\ Opt \in HookOptions

\* Its free approval rests on what intel answered.
AskedIntel ==
  /\ Len(gate.asked) = 1 /\ gate.asked[1].preflight \in Preflights
  /\ gate.approval = <<ApprovePayment(Context(gate.req), Cfg, gate.asked[1].preflight, gate.asked[1].lookup)>>

\* It was an approval, and Payment Control took it.
Taken == Chosen /\ AskedIntel /\ Approval.approved /\ (Opt.control => gate.spent)

HookHops(last) ==
  \E hops \in {<<>>, <<"clearance">>} : gate.hops \in {hops} \cup {Append(hops, hop) : hop \in last}

HookStage ==
  \/ gate = GateIdle
  \/ gate.at = "opened" /\ Chosen /\ gate.hops = <<>> /\ gate.approval = None /\ gate.clearance = None
  \/ gate.at = "approved" /\ Chosen /\ AskedIntel /\ gate.hops = <<>> /\ gate.clearance = None
  \/ gate.at = "free" /\ Taken /\ gate.hops = <<>> /\ gate.clearance = None
  \/ gate.at = "cleared" /\ Taken /\ HookHops({}) /\ ClearedByIssuer
  \/ gate.at = "proceed" /\ Taken /\ ClearedByIssuer /\ HookHops(AdviceHops)
  \/ gate.at = "abort" /\ HookHops(AdviceHops) /\ (gate.hops # <<>> => Taken)

HookInv ==
  /\ gate = [f \in HookFields |-> gate[f]]
  /\ HookStage
  /\ (\E i \in DOMAIN gate.hops : gate.hops[i] \in AdviceHops)
       => Approval.scored /\ ~Approval.unevaluated

=============================================================================
