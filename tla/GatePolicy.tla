----------------------------- MODULE GatePolicy -----------------------------
(***************************************************************************)
(* The free decision of twzrd-x402-gate: config.ts, policy.ts and          *)
(* merchant-card.ts.  What intel answers is an argument: the preflight is  *)
(* None (an outage: not ok, a throw, the deadline) or a readiness card, the*)
(* merchant card a lookup.  Prices and caps are millionths of a dollar.    *)
(***************************************************************************)
EXTENDS Offers

CONSTANTS
  Preflights,   \* what intel's preflight may answer: None or a card
  Lookups       \* what its merchant card may answer

ASSUME PreflightsAssumption ==
  \A card \in Preflights : card # None /\ card[1].cap # None => card[1].cap[1] \in Int

ASSUME LookupsAssumption ==
  \A lookup \in Lookups : lookup.card # None => lookup.reachable

-----------------------------------------------------------------------------
(* config.ts.  A flag is written "unset", "on", "off" or "typo".           *)

IsTrueFlag(v) == v = "on"
DefaultOnFlag(v) == v # "off"

\* Written options: an option that is None takes the default.
ResolveConfig(o) ==
  [minScore |-> IF o.minScore # None /\ o.minScore[1] >= 0 THEN o.minScore[1] ELSE 40,
   blocks |-> o.blocks,
   failOpen |-> IsTrueFlag(o.failOpen),
   gateOnCanSpend |-> IsTrueFlag(o.gateOnCanSpend),
   refuseUnevaluated |-> DefaultOnFlag(o.refuseUnevaluated),
   refuseUncappedWarn |-> DefaultOnFlag(o.refuseUncappedWarn),
   refuseWashFlagged |-> o.refuseWashFlagged,
   refuseWashUnknown |-> DefaultOnFlag(o.refuseWashUnknown),
   washMax |-> o.washMax,
   mode |-> o.mode]

-----------------------------------------------------------------------------
(* merchant-card.ts.                                                       *)

Unreachable == [reachable |-> FALSE, card |-> None]
NoCard == [reachable |-> TRUE, card |-> None]

\* fetchMerchantCardResult: 5xx, 429, no JSON object, a throw and the deadline
\* are an outage; any other answer that is not ok is an answer without a card.
Lookup(answer) ==
  IF answer.kind \in {"server_error", "throttled", "no_object", "throws", "late"} THEN Unreachable
  ELSE IF answer.kind = "client_error" THEN NoCard
  ELSE [reachable |-> TRUE, card |-> <<answer.card>>]

\* isWashCoverageAdequate of washEvidenceFromCard
CoverageAdequate(card) ==
  /\ card.washFlagged # None
  /\ ~card.washStale
  /\ card.ringEvaluated # <<FALSE>>
  /\ card.washConfidence = "full"

\* Slip: a flagged seller is paid whatever the price once a cap is set.
WashCappedAnyPrice(washMax, price) == washMax # None

WashCapped(washMax, price) ==
  washMax # None /\ price # None /\ price[1] <= washMax[1]

\* applyWashFlaggedPolicy, of a payment that was approved
WashAllows(refuse, washFlagged, washMax, price) ==
  refuse /\ washFlagged = <<TRUE>> => WashCapped(washMax, price)

-----------------------------------------------------------------------------
(* evaluateReadinessCard.  A verdict is what later steps read of an        *)
(* approval; why stands for its reason text.                               *)

Verdict(approved, verdict, unevaluated, why) ==
  [approved |-> approved, verdict |-> verdict, unevaluated |-> unevaluated, why |-> why]

CardDecision(card) == IF card.decision = None THEN "warn" ELSE card.decision[1]

IsUnevaluatedCard(card) == card.null_reason = "unknown_subject" \/ card.score = "null"

Cap(card) ==
  IF card.cap # None /\ card.cap[1] >= 0 THEN card.cap ELSE None

WithinCap(price, cap) == cap # None /\ price # None /\ price[1] <= cap[1]

SpendRefused(card, cfg) == cfg.gateOnCanSpend /\ card.can_spend = <<FALSE>>

\* evaluateUnevaluatedCard
UnevaluatedVerdict(card, price, cfg) ==
  LET ruledOut == cfg.refuseUnevaluated \/ CardDecision(card) \notin {"allow", "warn"}
      approved == ~ruledOut /\ ~SpendRefused(card, cfg) /\ WithinCap(price, Cap(card))
  IN Verdict(approved, IF approved THEN "warn" ELSE "unknown", TRUE,
             IF ~ruledOut /\ SpendRefused(card, cfg) THEN "can_spend" ELSE "unevaluated")

EvaluateReadinessCard(card, price, cfg) ==
  LET decision == CardDecision(card)
  IN IF decision \in cfg.blocks THEN Verdict(FALSE, decision, FALSE, "decision")
     ELSE IF IsUnevaluatedCard(card) THEN UnevaluatedVerdict(card, price, cfg)
     ELSE IF SpendRefused(card, cfg) THEN Verdict(FALSE, decision, FALSE, "can_spend")
     ELSE IF card.trust_score < cfg.minScore THEN Verdict(FALSE, decision, FALSE, "score")
     ELSE IF decision = "warn" /\ cfg.refuseUncappedWarn /\ (Cap(card) = None \/ price = None)
       THEN Verdict(FALSE, "block", FALSE, "uncapped_warn")
     ELSE Verdict(TRUE, IF decision = "warn" THEN "warn" ELSE "allow", FALSE, "allow")

-----------------------------------------------------------------------------
(* twzrdApprovePayment.  ctx is [payTo, price, network, asset]; the result *)
(* adds whether the network is scored and the wash signal that was read.   *)

Result(v, scored, washFlagged) ==
  [approved |-> v.approved, verdict |-> v.verdict, unevaluated |-> v.unevaluated,
   why |-> v.why, scored |-> scored, washFlagged |-> washFlagged]

Refused(why) == Result(Verdict(FALSE, "block", FALSE, why), TRUE, None)

\* tightenWithMerchantCardWash: it turns an approval into a refusal, never back.
Tightened(v, lookup, price, cfg, onScored) ==
  LET flagged == IF cfg.refuseWashFlagged /\ lookup.card # None THEN lookup.card[1].washFlagged ELSE None
      outage == cfg.refuseWashFlagged /\ ~lookup.reachable /\ ~cfg.failOpen /\ onScored
      washed == ~WashAllows(cfg.refuseWashFlagged, flagged, cfg.washMax, price)
      unknown == /\ cfg.refuseWashFlagged /\ cfg.refuseWashUnknown /\ onScored /\ lookup.reachable
                 /\ (lookup.card = None \/ ~CoverageAdequate(lookup.card[1]))
      refusedAs(why) == Result(Verdict(FALSE, "block", v.unevaluated, why), onScored, flagged)
  IN IF ~v.approved
       THEN Result([v EXCEPT !.verdict = IF flagged = <<TRUE>> THEN "block" ELSE @], onScored, flagged)
     ELSE IF outage THEN refusedAs("card_unreachable")
     ELSE IF washed THEN refusedAs("wash_flagged")
     ELSE IF unknown THEN refusedAs("wash_unknown")
     ELSE Result(v, onScored, flagged)

\* An unscored network: decideUnsupportedNetwork, then the wash check.
ApproveUnscored(ctx, cfg, lookup) ==
  LET observed == Verdict(cfg.mode = "observe", "unknown", FALSE, "not_scored")
  IN IF ~observed.approved \/ ~cfg.refuseWashFlagged THEN Result(observed, FALSE, None)
     ELSE Tightened(observed, lookup, ctx.price, cfg, FALSE)

\* Slip: an allow is paid at any price.
OverCapOfWarn(card, price) ==
  /\ CardDecision(card) = "warn"
  /\ card.cap # None /\ price # None /\ price[1] > card.cap[1]

\* recommended_cap_usdc bounds an allow as well as a warn; a negative one
\* refuses every known price.
OverRecommendedCap(card, price) ==
  card.cap # None /\ price # None /\ price[1] > card.cap[1]

\* An outage of the preflight is decided by failOpen alone.
Outage(cfg) ==
  Result(IF cfg.failOpen THEN Verdict(TRUE, "warn", FALSE, "fail_open")
         ELSE Verdict(FALSE, "block", FALSE, "fail_closed"), TRUE, None)

ApproveScored(ctx, cfg, preflight, lookup) ==
  IF preflight = None THEN Outage(cfg)
  ELSE LET v == EvaluateReadinessCard(preflight[1], ctx.price, cfg)
       IN IF v.approved /\ OverRecommendedCap(preflight[1], ctx.price)
            THEN Result(Verdict(FALSE, "block", v.unevaluated, "over_cap"), TRUE, None)
          ELSE Tightened(v, lookup, ctx.price, cfg, TRUE)

ApprovePayment(ctx, cfg, preflight, lookup) ==
  IF ctx.payTo = None THEN Refused("no_recipient")
  ELSE IF ctx.price # None /\ ctx.price[1] < 0 THEN Refused("invalid_price")
  ELSE IF ~Scored(ctx.network, ctx.payTo, cfg.mode) THEN ApproveUnscored(ctx, cfg, lookup)
  ELSE IF ctx.asset # None /\ ~IsUsdc(ctx.network, ctx.payTo, ctx.asset) THEN Refused("non_usdc")
  ELSE ApproveScored(ctx, cfg, preflight, lookup)

\* What twzrdApprovePayment is asked about an entry.
Context(req) ==
  [payTo |-> PayTo(req), price |-> PriceUsdc(req), network |-> req.network, asset |-> req.asset]

-----------------------------------------------------------------------------
(* wash-default.ts: the hook that only asks the merchant card.             *)

\* resolveRefuseWash, resolveWashMaxUsdc and resolveFailOpen as ResolveConfig.
WashOnlyProceeds(req, cfg, lookup) ==
  /\ ~Conflicted(req)
  /\ \/ PayTo(req) = None
     \/ ~cfg.refuseWashFlagged
     \/ ~lookup.reachable /\ cfg.failOpen
     \/ /\ lookup.card # None
        /\ CoverageAdequate(lookup.card[1])
        /\ WashAllows(TRUE, lookup.card[1].washFlagged, cfg.washMax, PriceUsdc(req))
=============================================================================
