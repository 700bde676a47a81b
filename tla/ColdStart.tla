----------------------------- MODULE ColdStart -----------------------------
(***************************************************************************)
(* cold-start.ts: probing a diet of foreign resources without paying, one  *)
(* hop from the directory, and the default-deny policy that is written of  *)
(* the rows.  The diet is probed in parallel; no probe reads another's row.*)
(***************************************************************************)
EXTENDS PaymentGate

CONSTANTS
  Diets,        \* the sites asked about: [host, forbidden, kind, header, body]
  Directories,  \* what the directory may list: [site, payTo]
  ColdAnswers,  \* what intel may answer about one site: [preflight, lookup]
  ColdConfigs,  \* how the gate may be configured
  MaxPerCall,   \* the cap, in millionths of a dollar
  HopInspectCap,
  RefuseFixture \* the recipient of the refuse fixture

ASSUME MaxPerCallAssumption == MaxPerCall \in Nat
ASSUME HopInspectCapAssumption == HopInspectCap \in Nat

\* A URL has a host, and an offer, if there is one, amounts that are numbers.
KnownSite(site) ==
  /\ site.host # "none"
  /\ Numeric(PickRequirements(PaymentRequired(site.header, site.body).accepts, None))

ASSUME SitesAssumption ==
  /\ \A diet \in Diets : diet \in Seq(Range(diet)) /\ \A site \in Range(diet) : KnownSite(site)
  /\ \A listings \in Directories :
       listings \in Seq(Range(listings)) /\ \A listing \in Range(listings) : KnownSite(listing.site)

ASSUME ColdAnswersAssumption == ColdAnswers \subseteq [preflight : Preflights, lookup : Lookups]

\* runColdStart configures the gate to refuse a flagged seller and an outage.
ASSUME ColdConfigsAssumption == \A cfg \in ColdConfigs : cfg.refuseWashFlagged /\ ~cfg.failOpen

VARIABLE cold   \* [at, cfg, hop, diet, listings, inspected, rows, policy, ok]
coldVars == <<cold>>

ScoredStatuses == {"allowlisted", "refused", "over_cap"}
SkippedByHop == {"not_402", "no_payto", "forbidden"}

ColdIdle == [at |-> "idle", cfg |-> None, hop |-> FALSE, diet |-> <<>>, listings |-> <<>>, inspected |-> 0,
             rows |-> <<>>, policy |-> {}, ok |-> FALSE]

ColdRow(role, site, payTo, price, status, asked) ==
  [role |-> role, site |-> site, payTo |-> payTo, price |-> price, status |-> status, asked |-> asked]

\* Slip: a flagged seller the gate approved under a wash cap is listed.
GateApproves(req, cfg, asked) ==
  ~Conflicted(req) /\ ApprovePayment(Context(req), cfg, asked.preflight, asked.lookup).approved

\* evaluate_x402_resource without a paying fetch, and never a flagged seller.
ColdApproves(req, cfg, asked) ==
  LET approval == ApprovePayment(Context(req), cfg, asked.preflight, asked.lookup)
  IN ~Conflicted(req) /\ approval.approved /\ approval.washFlagged # <<TRUE>>

\* consider: one site, as intel answers asked.  The offer is PaymentRequired's.
Consider(role, site, cfg, asked) ==
  LET offers == PaymentRequired(site.header, site.body)
      req == PickRequirements(offers.accepts, None)
      price == PriceUsdc(req)
      row(status) == ColdRow(role, site, PayTo(req), price, status, asked)
      unread(status) == ColdRow(role, site, None, None, status, asked)
  IN IF site.forbidden # "no" THEN unread("forbidden")
     ELSE IF site.kind = "throws" \/ offers.throws THEN unread("probe_error")
     ELSE IF site.kind = "not_402" THEN unread("not_402")
     ELSE IF PayTo(req) = None THEN row("no_payto")
     ELSE IF PayTo(req)[1] = RefuseFixture THEN row("forbidden")
     ELSE IF price = None THEN row("refused")
     ELSE IF ~ColdApproves(req, cfg, asked) THEN row("refused")
     ELSE IF price[1] > MaxPerCall THEN row("over_cap")
     ELSE row("allowlisted")

-----------------------------------------------------------------------------
Starts ==
  /\ cold = ColdIdle
  /\ \E cfg \in ColdConfigs, diet \in Diets, hop \in BOOLEAN :
       cold' = [cold EXCEPT !.at = "diet", !.cfg = <<cfg>>, !.diet = diet, !.hop = hop]

ConsidersDiet ==
  /\ cold.at = "diet" /\ cold.diet # <<>>
  /\ \E asked \in ColdAnswers :
       cold' = [cold EXCEPT !.diet = Tail(@),
                  !.rows = Append(@, Consider("diet", Head(cold.diet), cold.cfg[1], asked))]

Hosts(rows) == {rows[i].site.host : i \in DOMAIN rows}
PayTos(rows) == {rows[i].payTo[1] : i \in {j \in DOMAIN rows : rows[j].payTo # None}}

\* buildPolicy: the positions of the rows that the policy lists.
BuildPolicy(rows) ==
  LET listed == {i \in DOMAIN rows : rows[i].status = "allowlisted" /\ rows[i].price[1] <= MaxPerCall}
  IN {i \in listed : \A j \in listed : j < i =>
       <<rows[j].site.host, rows[j].payTo>> # <<rows[i].site.host, rows[i].payTo>>}

Writes(c) ==
  cold' = [c EXCEPT !.at = "done", !.policy = BuildPolicy(c.rows),
             !.ok = \E i \in DOMAIN c.rows : c.rows[i].status \in ScoredStatuses]

Noted(status) ==
  Append(cold.rows, ColdRow("hop", [host |-> "none"], None, None, status, None))

DietDone == cold.at = "diet" /\ cold.diet = <<>>

SkipsHop == DietDone /\ ~cold.hop /\ Writes(cold)

\* listDirectoryCallables
AsksDirectory ==
  /\ DietDone /\ cold.hop
  /\ \/ Writes([cold EXCEPT !.rows = Noted("directory_error")])
     \/ \E listings \in Directories : cold' = [cold EXCEPT !.at = "hop", !.listings = listings]

\* A listing that is passed over without a probe.
PassedOver(listing) ==
  \/ listing.site.forbidden = "url"
  \/ listing.site.host \in Hosts(cold.rows)
  \/ /\ listing.payTo # None
     /\ listing.payTo[1] \in PayTos(cold.rows) \cup {RefuseFixture}

\* Slip: a recipient the listing did not name may repeat one already scored.
EndsHopUnseen(row) == row.status \notin SkippedByHop

EndsHop(row) ==
  /\ row.status \notin SkippedByHop
  /\ row.payTo = None \/ row.payTo[1] \notin PayTos(cold.rows)

NoHop ==
  /\ cold.at = "hop"
  /\ cold.listings = <<>> \/ cold.inspected >= HopInspectCap
  /\ Writes([cold EXCEPT !.rows = Noted("no_eligible_hop")])

Inspects ==
  /\ cold.at = "hop" /\ cold.listings # <<>> /\ cold.inspected < HopInspectCap
  /\ LET listing == Head(cold.listings)
         rest == [cold EXCEPT !.listings = Tail(@)]
     IN IF PassedOver(listing) THEN cold' = rest
        ELSE \E asked \in ColdAnswers :
               LET row == Consider("hop", listing.site, cold.cfg[1], asked)
               IN IF EndsHop(row) THEN Writes([rest EXCEPT !.inspected = @ + 1, !.rows = Append(@, row)])
                  ELSE cold' = [rest EXCEPT !.inspected = @ + 1]

ColdInit == cold = ColdIdle
ColdNext == Starts \/ ConsidersDiet \/ SkipsHop \/ AsksDirectory \/ NoHop \/ Inspects
-----------------------------------------------------------------------------
ColdTypeOK ==
  /\ cold.at \in {"idle", "diet", "hop", "done"}
  /\ cold.inspected \in 0 .. HopInspectCap
  /\ cold.at # "done" => cold.policy = {}

\* A row of the policy rests on an offer that names one recipient and one
\* price within the cap, whatever other answers intel gave that day.
Vetted(row) ==
  LET req == PickRequirements(PaymentRequired(row.site.header, row.site.body).accepts, None) IN
  /\ row.site.forbidden = "no"
  /\ WithinFreeBounds(req, cold.cfg[1], row.asked)
  /\ row.asked.lookup.card # None => row.asked.lookup.card[1].washFlagged # <<TRUE>>
  /\ row.payTo = PayTo(req) /\ row.payTo[1] # RefuseFixture
  /\ PriceUsdc(req) # None /\ PriceUsdc(req)[1] <= MaxPerCall

(* Every host of the written policy was vetted, no host and recipient is in it
   twice, and the one hop brought in neither a host nor a recipient the diet
   had already. *)
PolicyIsVetted ==
  /\ \A i \in cold.policy : Vetted(cold.rows[i])
  /\ \A i, j \in cold.policy : i < j =>
       <<cold.rows[i].site.host, cold.rows[i].payTo>> # <<cold.rows[j].site.host, cold.rows[j].payTo>>
  /\ \A i \in DOMAIN cold.rows : cold.rows[i].role = "hop" =>
       LET diet == SubSeq(cold.rows, 1, i - 1) IN
       /\ i = Len(cold.rows)
       /\ cold.rows[i].site.host \notin Hosts(diet)
       /\ cold.rows[i].payTo # None => cold.rows[i].payTo[1] \notin PayTos(diet)

-----------------------------------------------------------------------------
(* The inductive invariant of the proofs.                                   *)

ColdFields == {"at", "cfg", "hop", "diet", "listings", "inspected", "rows", "policy", "ok"}

VettedBy(row, cfg) ==
  LET req == PickRequirements(PaymentRequired(row.site.header, row.site.body).accepts, None) IN
  /\ row.site.forbidden = "no"
  /\ WithinFreeBounds(req, cfg, row.asked)
  /\ row.asked.lookup.card # None => row.asked.lookup.card[1].washFlagged # <<TRUE>>
  /\ row.payTo = PayTo(req) /\ row.payTo[1] # RefuseFixture
  /\ PriceUsdc(req) # None /\ PriceUsdc(req)[1] <= MaxPerCall

AllVetted(rows, cfg) == \A i \in DOMAIN rows : rows[i].status = "allowlisted" => VettedBy(rows[i], cfg)

\* What the hop brought in is the last row, and new to the diet.
HopIsNew(rows) ==
  \A i \in DOMAIN rows : rows[i].role = "hop" =>
    LET diet == SubSeq(rows, 1, i - 1) IN
    /\ i = Len(rows)
    /\ rows[i].site.host \notin Hosts(diet)
    /\ rows[i].payTo # None => rows[i].payTo[1] \notin PayTos(diet)

DietRows(rows) == \A i \in DOMAIN rows : rows[i].role = "diet" /\ rows[i].site.host # "none"

\* Rows that are still being gathered, or were written.
ColdInv ==
  /\ cold = [f \in ColdFields |-> cold[f]]
  /\ cold.at # "idle" => cold.cfg[1] \in ColdConfigs /\ cold.rows \in Seq(Range(cold.rows))
                         /\ AllVetted(cold.rows, cold.cfg[1])
  /\ cold.at \in {"diet", "hop"} =>
       /\ DietRows(cold.rows)
       /\ cold.diet \in Seq(Range(cold.diet)) /\ \A site \in Range(cold.diet) : KnownSite(site)
       /\ cold.listings \in Seq(Range(cold.listings))
       /\ \A listing \in Range(cold.listings) : KnownSite(listing.site)
  /\ cold.at = "done" => cold.policy = BuildPolicy(cold.rows) /\ HopIsNew(cold.rows)
  /\ cold.at # "done" => cold.policy = {} /\ \A i \in DOMAIN cold.rows : cold.rows[i].role = "diet"

=============================================================================
