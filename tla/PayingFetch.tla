----------------------------- MODULE PayingFetch -----------------------------
(***************************************************************************)
(* The fetch wrappers that screen a whole 402, since they cannot know      *)
(* which entry the client under them will pay: all-offers.ts, the gate of  *)
(* wrap-fetch.ts, with-guard.ts and mcp-hook.ts, and the paying fetch of   *)
(* paying-fetch.ts, which goes to a router when the origin seems dead.     *)
(***************************************************************************)
EXTENDS PaymentGate

CONSTANTS
  Wrappers,     \* [kind, cfg]: kind is "gate" or "paying"
  OfferLists,   \* the accepts a 402 may have
  MaxDistinct   \* MAX_DISTINCT_OFFERS, 8 in the code

ASSUME WrappersAssumption == \A by \in Wrappers : by.kind \in {"gate", "paying"}

ASSUME OfferListsAssumption ==
  \A accepts \in OfferLists :
    /\ accepts \in Seq(ToSet(accepts))
    /\ \A req \in ToSet(accepts) :
         Numeric(req) /\ {"amount", "maxAmountRequired", "payTo", "pay_to"} \subseteq DOMAIN req

(* met counts the 402s the call has met, and names them; carries says whether
   the request at hand carries a payment. *)
VARIABLE wrap   \* [at, by, leg, carries, met, accepts, screened, paid, refused, last, observed]
wrapVars == <<wrap>>

WrapIdle ==
  [at |-> "idle", by |-> None, leg |-> "resource", carries |-> FALSE, met |-> 0,
   accepts |-> <<>>, screened |-> <<>>, paid |-> <<>>, refused |-> {}, last |-> None, observed |-> <<>>]

-----------------------------------------------------------------------------
(* all-offers.ts.                                                          *)

\* Slip: two entries of one price are taken for one offer.
PriceKey(req) == <<Or(Amount(req), Or(req.amount, req.maxAmountRequired))>>

OfferKey(req) ==
  <<Or(PayTo(req), RawRecipient(req)), Or(Amount(req), Or(req.amount, req.maxAmountRequired)),
    req.asset, req.network, Conflicted(req)>>

\* Entries of one key are one offer.
DistinctOffers(accepts) == {OfferKey(accepts[i]) : i \in DOMAIN accepts}

\* firstRefusedOffer of one entry, or the merchant card alone for the paying fetch.
Passes(by, req, asked) ==
  IF by.kind = "paying"
    THEN PayTo(req) # None /\ WashOnlyProceeds(Mapped(req), by.cfg, asked.lookup)
  ELSE ~Conflicted(req) /\ ApprovePayment(Context(req), by.cfg, asked.preflight, asked.lookup).approved

-----------------------------------------------------------------------------
(* One call: a request, the screening of its 402, a payment and an answer. *)

Wrapper == wrap.by[1]

\* The entries of the offers that were not screened yet.
Unscreened ==
  {i \in DOMAIN wrap.accepts :
     \A j \in DOMAIN wrap.screened : OfferKey(wrap.screened[j].req) # OfferKey(wrap.accepts[i])}

\* A new request, without a payment.
FreshLeg(w, leg) ==
  [w EXCEPT !.at = "asking", !.leg = leg, !.carries = FALSE, !.accepts = <<>>, !.screened = <<>>]

\* Slip: a refusal is taken for a dead origin.
RefusalIsDead(w) ==
  LET refused == [w EXCEPT !.at = "refused", !.refused = @ \cup {w.met}]
  IN IF w.leg = "resource" THEN FreshLeg(refused, "route") ELSE refused

\* An abort of the screening reaches the caller from any leg.
RefusedBy(w) == [w EXCEPT !.at = "refused", !.refused = @ \cup {w.met}]

(* Any other error on the resource sends the paying fetch to the router, also
   when the request that met it carried a payment. *)
FailedOn(w, aborted) ==
  IF w.by[1].kind = "paying" /\ w.leg = "resource" /\ ~aborted
    THEN FreshLeg(w, "route")
  ELSE [w EXCEPT !.at = "failed"]

\* Whom a 402 is held to name.
Merchant(accepts) == PayTo(PickRequirements(accepts, None))

\* The paying fetch files an answer, if it is good, against the merchant of the
\* last 402 it met, whoever's it was and whether or not this request was paid.
Files(w, good) ==
  IF good /\ w.by[1].kind = "paying" /\ w.last # None
    THEN [w EXCEPT !.observed = Append(@, w.last[1])] ELSE w

\* The router names where to pay; the destination ends the call.
Ended(w, good) ==
  IF w.leg = "route" THEN FreshLeg(w, "destination")
  ELSE [Files(w, good) EXCEPT !.at = "done"]

Begins ==
  /\ wrap = WrapIdle
  /\ \E by \in Wrappers : wrap' = [wrap EXCEPT !.at = "asking", !.by = <<by>>]

\* A request answered without a 402, or with one that has no offer to read.
AskedFreely ==
  /\ wrap.at = "asking"
  /\ \E good \in BOOLEAN : wrap' = Ended(wrap, good)

\* A 402 meets the request, or answers the one that carried the payment: the
\* guarded fetch under the client is the same, and screens it all over.
AskedOffers ==
  /\ wrap.at \in {"asking", "sent"}
  /\ \E accepts \in OfferLists :
       LET asked == [wrap EXCEPT !.met = @ + 1, !.accepts = accepts, !.screened = <<>>,
                                 !.last = Merchant(accepts)]
           distinct == DistinctOffers(accepts)
       IN wrap' = IF distinct = {} \/ Cardinality(distinct) > MaxDistinct THEN RefusedBy(asked)
                  ELSE [asked EXCEPT !.at = "screening"]

\* The first entry of each offer in turn, with an awaited question.
Screens1 ==
  /\ wrap.at = "screening"
  /\ LET req == wrap.accepts[Min(Unscreened)]
          alone == \A i \in Unscreened : OfferKey(wrap.accepts[i]) = OfferKey(req)
     IN \E preflight \in IF Wrapper.kind = "paying" THEN {None} ELSE Preflights, lookup \in Lookups :
          LET asked == [preflight |-> preflight, lookup |-> lookup]
              noted == [wrap EXCEPT !.screened = Append(@, [req |-> req, asked |-> asked])]
          IN wrap' = IF ~Passes(Wrapper, req, asked) THEN RefusedBy(wrap)
                     ELSE IF alone THEN [noted EXCEPT !.at = "offered"]
                     ELSE noted

\* The client pays the entry it likes.
ClientPays ==
  /\ wrap.at = "offered" /\ ~wrap.carries
  /\ \E i \in DOMAIN wrap.accepts :
       wrap' = [wrap EXCEPT !.at = "sent", !.carries = TRUE,
         !.paid = Append(@, [leg |-> wrap.leg, met |-> wrap.met, req |-> wrap.accepts[i],
                             screened |-> wrap.screened])]

\* It pays a request once: a second 402 that passed is the answer it returns.
ClientReturns ==
  /\ wrap.at = "offered" /\ wrap.carries
  /\ wrap' = Ended(wrap, FALSE)

\* Another call of the same fetch meets a 402: it is the last one now.
AnotherCall ==
  /\ wrap.at \notin {"idle", "done", "refused", "failed"} /\ Wrapper.kind = "paying"
  /\ \E accepts \in OfferLists : wrap' = [wrap EXCEPT !.last = Merchant(accepts)]

\* An answer to the payment that is no 402, or one without an offer to read.
PaidFor ==
  /\ wrap.at = "sent"
  /\ \E good \in BOOLEAN : wrap' = Ended(wrap, good)

\* No answer, an answer that cannot be read, or the caller's own abort.
Breaks ==
  /\ wrap.at \in {"asking", "offered", "sent"}
  /\ \E aborted \in BOOLEAN : wrap' = FailedOn(wrap, aborted)

WrapInit == wrap = WrapIdle
WrapNext ==
  \/ Begins \/ AskedFreely \/ AskedOffers \/ Screens1 \/ ClientPays \/ ClientReturns
  \/ AnotherCall \/ PaidFor \/ Breaks
-----------------------------------------------------------------------------
WrapTypeOK ==
  /\ wrap.at \in {"idle", "asking", "screening", "offered", "sent", "done", "refused", "failed"}
  /\ wrap.leg \in {"resource", "route", "destination"}
  /\ Len(wrap.observed) <= 1

\* What an entry's recipient was found to be allows the entry's price.
Vouches(by, s, req) ==
  /\ PayTo(s.req) = PayTo(req) /\ ~Conflicted(req)
  /\ IF by.kind = "gate" THEN WithinFreeBounds(req, by.cfg, s.asked)
     ELSE (by.cfg.refuseWashFlagged /\ s.asked.lookup.card # None
             /\ s.asked.lookup.card[1].washFlagged = <<TRUE>>)
          => by.cfg.washMax # None /\ PriceUsdc(req) # None /\ PriceUsdc(req)[1] <= by.cfg.washMax[1]

(* Whichever entry of a 402 the client under a wrapper chose to pay, the answers
   asked about its recipient before it was paid allow that entry's price; no leg
   of a call is paid twice; and a call pays nothing from a 402 it refused or met
   after that one.  A refusal may come after a payment, when a 402 answers it,
   and a call may pay on up to three legs: where the answer to a payment is lost,
   the router is paid as well. *)
PaysScreenedOffers ==
  /\ \A i \in DOMAIN wrap.paid :
       \E j \in DOMAIN wrap.paid[i].screened : Vouches(Wrapper, wrap.paid[i].screened[j], wrap.paid[i].req)
  /\ \A i, j \in DOMAIN wrap.paid : wrap.paid[i].leg = wrap.paid[j].leg => i = j
  /\ \A n \in wrap.refused, i \in DOMAIN wrap.paid : wrap.paid[i].met < n

-----------------------------------------------------------------------------
(* The inductive invariant of the proofs.                                   *)

WrapFields == {"at", "by", "leg", "carries", "met", "accepts", "screened", "paid", "refused", "last", "observed"}
Legs == {"resource", "route", "destination"}
LegRank(leg) == CASE leg = "resource" -> 0 [] leg = "route" -> 1 [] leg = "destination" -> 2
Entries == UNION {ToSet(accepts) : accepts \in OfferLists}

\* What may have been asked about an entry.
Screenings(by) ==
  [req : Entries,
   asked : [preflight : IF by.kind = "paying" THEN {None} ELSE Preflights, lookup : Lookups]]

\* Every entry that was screened passed.
ScreenedPass ==
  \A j \in DOMAIN wrap.screened : Passes(Wrapper, wrap.screened[j].req, wrap.screened[j].asked)

PaidVouched ==
  \A i \in DOMAIN wrap.paid :
    \E j \in DOMAIN wrap.paid[i].screened : Vouches(Wrapper, wrap.paid[i].screened[j], wrap.paid[i].req)

\* A call has paid on the legs behind it, and on its own once a request of that
\* leg carries a payment.
LegsBehind ==
  \A i \in DOMAIN wrap.paid :
    /\ wrap.paid[i].leg \in Legs
    /\ IF wrap.carries THEN LegRank(wrap.paid[i].leg) <= LegRank(wrap.leg)
       ELSE LegRank(wrap.paid[i].leg) < LegRank(wrap.leg)

\* What was paid is a 402 met before the one at hand, or that one when it was
\* neither refused nor is still screened.
MetBehind ==
  \A i \in DOMAIN wrap.paid :
    /\ wrap.paid[i].met \in Nat
    /\ IF wrap.at \in {"screening", "offered", "refused"} THEN wrap.paid[i].met < wrap.met
       ELSE wrap.paid[i].met <= wrap.met

PaidOnce == \A i, j \in DOMAIN wrap.paid : wrap.paid[i].leg = wrap.paid[j].leg => i = j

\* What each stage knows of the 402 at hand.
Screening ==
  /\ wrap.at \in {"screening", "offered"} =>
       wrap.accepts \in OfferLists /\ wrap.screened \in Seq(Screenings(Wrapper)) /\ ScreenedPass
  /\ wrap.at = "asking" => wrap.screened = <<>>
  /\ wrap.at = "screening" => Unscreened # {}
  /\ wrap.at = "offered" => Unscreened = {}

WrapInv ==
  /\ wrap = [f \in WrapFields |-> wrap[f]]
  /\ wrap.at \in {"idle", "asking", "screening", "offered", "sent", "done", "refused", "failed"}
  /\ wrap.at # "idle" => Wrapper \in Wrappers
  /\ wrap.leg \in Legs
  /\ \E S : wrap.paid \in Seq(S)
  /\ wrap.met \in Nat /\ wrap.carries \in BOOLEAN
  /\ Screening /\ PaidVouched /\ LegsBehind /\ MetBehind /\ PaidOnce
  /\ IF wrap.at = "refused" THEN wrap.refused = {wrap.met} ELSE wrap.refused = {}

=============================================================================
