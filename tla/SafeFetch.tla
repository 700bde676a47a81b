----------------------------- MODULE SafeFetch -----------------------------
(***************************************************************************)
(* The advisory pre-check of safe-fetch.ts: it scores the offer of a probe *)
(* and then has a payer of its own fetch the resource again, which may be  *)
(* shown another offer; and the observation delivery-capture.ts files of   *)
(* what was delivered.                                                     *)
(***************************************************************************)
EXTENDS PaymentGate

CONSTANTS
  SafeOptions,  \* [cfg, dryRun, capture, prefer]: prefer is the environment's fee payer
  ProbeAnswers, \* what the resource may answer the probe
  Reoffered,    \* the offers its payer may be shown when it asks again
  Deliveries    \* what the payer may print: [kind, keys, tx]

ASSUME ProbeAnswersAssumption ==
  \A reply \in ProbeAnswers, opt \in SafeOptions : Numeric(PickRequirements(reply.accepts, opt.prefer))

VARIABLE safe   \* [phase, opt, probe, asked, requests, paid, delivered, observed]
safeVars == <<safe>>

SafeIdle == [phase |-> "idle", opt |-> None, probe |-> None, asked |-> None, requests |-> 0,
             paid |-> None, delivered |-> None, observed |-> None]

\* The entry the probe's 402 is scored by; the header is not read here.
ScoredOffer == PickRequirements(safe.probe[1].accepts, safe.opt[1].prefer)

-----------------------------------------------------------------------------
(* delivery-capture.ts.  What is advertised is [json, keys].               *)

\* Slip: an advertised key that the delivery lacks is not missed.
SomeKeyPresent(delivered, advertised) == delivered.keys \cap advertised.keys # {}

\* assessSchemaMatch at its deepest level
KeysPresent(delivered, advertised) ==
  delivered.kind = "object" /\ advertised.keys \subseteq delivered.keys

CheckLevel(advertised) ==
  IF advertised.keys # {} THEN "example_keys"
  ELSE IF advertised.json THEN "output_type" ELSE "body_nonempty"

SchemaMatch(delivered, advertised) ==
  CASE CheckLevel(advertised) = "example_keys" -> KeysPresent(delivered, advertised)
    [] CheckLevel(advertised) = "output_type" -> delivered.kind \in {"object", "array"}
    [] OTHER -> delivered.kind # "empty"

\* captureDeliveryObservation; it names the recipient of the offer that was scored.
Observation(posted) ==
  LET advertised == safe.probe[1].advertised  delivered == safe.delivered[1]
  IN [merchant |-> PayTo(ScoredOffer), schemaMatch |-> SchemaMatch(delivered, advertised),
      level |-> CheckLevel(advertised), tx |-> delivered.tx, posted |-> posted]

-----------------------------------------------------------------------------
(* safeFetch.                                                              *)

Probes ==
  /\ safe = SafeIdle
  /\ \E opt \in SafeOptions, reply \in ProbeAnswers :
       LET probed == [safe EXCEPT !.opt = <<opt>>, !.probe = <<reply>>,
                                  !.requests = IF reply.kind = "throws" THEN 0 ELSE 1]
           offer == PickRequirements(reply.accepts, opt.prefer)
       IN safe' = [probed EXCEPT !.phase =
            IF reply.kind \in {"throws", "malformed"} THEN "error"
            ELSE IF reply.kind = "not_402" THEN "passthrough"
            ELSE IF Conflicted(offer) \/ PayTo(offer) = None THEN "blocked"
            ELSE "offered"]

Preflighted ==
  /\ safe.phase = "offered"
  /\ \E preflight \in Preflights, lookup \in Lookups :
       LET approved == ApprovePayment(Context(ScoredOffer), safe.opt[1].cfg, preflight, lookup).approved
       IN safe' = [safe EXCEPT !.asked = <<[preflight |-> preflight, lookup |-> lookup]>>,
            !.phase = IF ~approved THEN "blocked"
                      ELSE IF safe.opt[1].dryRun THEN "dry_run_allowed"
                      ELSE "paying"]

\* The payer asks again, and pays what it is then offered, or fails.
PayerRuns ==
  /\ safe.phase = "paying"
  /\ \/ safe' = [safe EXCEPT !.phase = "payer_failed", !.requests = 2]
     \/ \E offered \in Reoffered, delivery \in Deliveries :
          safe' = [safe EXCEPT !.phase = "delivered", !.requests = 2,
                     !.paid = <<offered>>, !.delivered = <<delivery>>]

\* The collector answers in time, or it does not, or capture is off.
Captured ==
  /\ safe.phase = "delivered"
  /\ \E posted \in BOOLEAN :
       /\ posted => safe.opt[1].capture
       /\ safe' = [safe EXCEPT !.phase = "paid", !.observed = <<Observation(posted)>>]

SafeInit == safe = SafeIdle
SafeNext == Probes \/ Preflighted \/ PayerRuns \/ Captured
-----------------------------------------------------------------------------
SafeTypeOK ==
  /\ safe.phase \in {"idle", "offered", "paying", "delivered", "error", "passthrough", "blocked",
                     "dry_run_allowed", "payer_failed", "paid"}
  /\ safe.requests \in 0 .. 2

(* The payer is never asked after a refusal, a dry run or an offer that could
   not be read, and what was scored before it was asked is within the bounds
   of a payment, although what it then pays is another request's offer. *)
PayerRunsWithinBounds ==
  safe.requests = 2 =>
    /\ ~safe.opt[1].dryRun
    /\ WithinFreeBounds(ScoredOffer, safe.opt[1].cfg, safe.asked[1])

(* An observation is filed of a delivery only, and one at the level of keys
   says match only where no advertised key is missing. *)
ObservesDelivery ==
  safe.observed # None =>
    /\ safe.paid # None
    /\ safe.observed[1].schemaMatch =>
         /\ safe.delivered[1].kind # "empty"
         /\ safe.probe[1].advertised.keys \subseteq safe.delivered[1].keys
=============================================================================
