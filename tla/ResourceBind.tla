---------------------------- MODULE ResourceBind ----------------------------
(***************************************************************************)
(* Binding a payment to the offer it was approved for: resource-bind.ts    *)
(* stamps a hash of an offer, looked up in a map of 402s that every fetch  *)
(* of the process writes, and resource-bind-tx.ts compares a transaction   *)
(* that was composed with it, before spendControlSafeFetch has it paid.    *)
(* A requirement is one of Offers with a scheme; a hash is what it is of.  *)
(***************************************************************************)
EXTENDS Offers

CONSTANTS
  Invoices,       \* the 402s a fetch may see: [version, url, envelope, accepts]
  Preflighting,   \* the decision ids a pre-check may answer with: None, or <<[id, valid]>>
  Transactions,   \* what an agent may compose: [decodes, memos, transfers]
  InvoiceCap,     \* how many 402s are kept, 256 in the code
  MaxFetches      \* bounds the fetches of others

ASSUME TransactionsAssumption ==
  \A tx \in Transactions :
    /\ tx = [decodes |-> tx.decodes, memos |-> tx.memos, transfers |-> tx.transfers]
    /\ tx.memos \in Seq(ToSet(tx.memos))

ASSUME InvoicesAssumption ==
  \A invoice \in Invoices : invoice.accepts \in Seq(ToSet(invoice.accepts))
ASSUME FetchBoundsAssumption == InvoiceCap \in Nat /\ MaxFetches \in Nat

VARIABLE bind     \* [at, fetches, kept, invoice, selected, leaf, tx]
bindVars == <<bind>>

BindIdle == [at |-> "idle", fetches |-> 0, kept |-> <<>>, invoice |-> None, selected |-> None,
             leaf |-> None, tx |-> None]

-----------------------------------------------------------------------------
(* rawInvoiceByResource: pairs of a resource and a 402, the oldest key     *)
(* first; writing a key again leaves it where it is.                       *)

Kept(kept, resource) == SelectSeq(kept, LAMBDA pair : pair[1] = resource)

Keep(kept, resource, invoice) ==
  IF Kept(kept, resource) = <<>> THEN Append(kept, <<resource, invoice>>)
  ELSE [i \in DOMAIN kept |-> IF kept[i][1] = resource THEN <<resource, invoice>> ELSE kept[i]]

\* An entry of accepts, if it names a resource.
KeepNamed(kept, req, invoice) ==
  IF req.resource = None THEN kept ELSE Keep(kept, req.resource[1], invoice)

\* rememberRawInvoice: under the request and under every resource the body names.
Remember(kept, invoice) ==
  LET after[n \in 0 .. Len(invoice.accepts)] ==
        IF n = 0 THEN Keep(kept, invoice.url, invoice)
        ELSE KeepNamed(after[n - 1], invoice.accepts[n], invoice)
      all == after[Len(invoice.accepts)]
  IN IF invoice.version # 1 THEN kept
     ELSE SubSeq(all, IF Len(all) > InvoiceCap THEN Len(all) - InvoiceCap + 1 ELSE 1, Len(all))

-----------------------------------------------------------------------------
(* stampResourceBind.                                                      *)

\* networksEquivalent
SameNetwork(a, b) ==
  a = b \/ {a, b} = {"solana", "mainnet_genesis"} \/ {a, b} = {"devnet", "devnet_genesis"}

\* Slip: an entry that pays the same recipient is taken for the selected one.
PaysTheSame(req, selected) == ~Conflicted(req) /\ PayTo(req) = PayTo(selected)

\* A field that one of the two leaves out is not compared, and the resource never is.
Matches(req, selected) ==
  /\ ~Conflicted(req) /\ PayTo(req) = PayTo(selected)
  /\ Amount(req) = Amount(selected) \/ None \in {Amount(req), Amount(selected)}
  /\ req.asset = selected.asset \/ None \in {req.asset, selected.asset}
  /\ SameNetwork(req.network, selected.network) \/ "missing" \in {req.network, selected.network}

\* What is hashed is a requirement under a resource.
Under(req, resource) == [req |-> req, resource |-> resource]

\* rawReqFromPaymentRequired, else the selected requirement itself
HashSource(selected, invoice) ==
  LET found == SelectInSeq(invoice.accepts, LAMBDA req : Matches(req, selected))
      req == invoice.accepts[found]
  IN IF Conflicted(selected) \/ found = 0 THEN Under(selected, selected.resource)
     ELSE Under(req, Or(req.resource, Or(invoice.envelope, selected.resource)))

\* resourceBindLeafHash, and resourceBindLeafHashV2 with a decision
Leaf(source, decision) ==
  LET req == source.req
  IN [payTo |-> PayTo(req), amount |-> Amount(req), asset |-> req.asset, network |-> req.network,
      scheme |-> req.scheme, resource |-> source.resource, decision |-> decision]

\* The 402 last kept under the requirement's resource wins over the one at hand.
Stamp(selected, invoice, kept, decision) ==
  LET cached == IF selected.resource = None THEN <<>> ELSE Kept(kept, selected.resource[1])
      source == HashSource(selected, IF cached = <<>> THEN invoice ELSE cached[1][2])
  IN IF \/ Conflicted(source.req) \/ None \in {PayTo(source.req), Amount(source.req), source.resource}
        \/ source.resource = <<"not_a_url">>
        \/ decision # None /\ ~decision[1].valid
       THEN None
     ELSE <<Leaf(source, decision)>>

-----------------------------------------------------------------------------
(* evaluateResourceBindLegsFromSvmTx.  A memo is [prefix, leaf], or text   *)
(* of another prefix; a transfer is [mint, owner, authority, amount], its  *)
(* destination the token account of owner and mint.                        *)

MemoFor(leaf) == [prefix |-> IF leaf.decision = None THEN "rb1" ELSE "rb2", leaf |-> <<leaf>>]

\* pickBindMemo
PickMemo(memos) ==
  LET At(prefix) == SelectInSeq(memos, LAMBDA memo : memo.prefix = prefix)
  IN IF At("rb2") # 0 THEN <<memos[At("rb2")]>>
     ELSE IF At("rb1") # 0 THEN <<memos[At("rb1")]>>
     ELSE IF memos # <<>> THEN <<memos[1]>> ELSE None

\* transferAmountMatchesLeaf
AmountMatches(paid, selected) ==
  LET cap == Amount(selected)[1]
  IN CASE selected.scheme = "upto" -> paid <= cap
       [] selected.scheme \in {"exact", "missing"} -> paid = cap
       [] OTHER -> FALSE

LegsMatch(transfer, selected) ==
  /\ selected.asset = <<transfer.mint>>
  /\ AmountMatches(transfer.amount, selected)
  /\ ~Evm(PayTo(selected)) /\ transfer.owner = PayTo(selected)[1]

\* Only the first transfer and one memo of the transaction are looked at.
Strength(tx, leaf, selected) ==
  LET memo == PickMemo(tx.memos) IN
  IF ~tx.decodes THEN "soft"
  ELSE IF tx.transfers = <<>> \/ ~LegsMatch(tx.transfers[1], selected) THEN "refuse"
  ELSE IF memo = None \/ memo[1].prefix \notin {"rb1", "rb2"} \/ memo[1].leaf # <<leaf>> THEN "soft"
  ELSE "hard"

-----------------------------------------------------------------------------
(* spendControlSafeFetch with requireOfferBinding; budgets are those of    *)
(* SpendControl.                                                           *)

\* wrapFetchRememberInvoice, around any other fetch of the process
OtherFetch ==
  /\ bind.at \notin {"paid", "blocked"} /\ bind.fetches < MaxFetches
  /\ \E invoice \in Invoices :
       bind' = [bind EXCEPT !.fetches = @ + 1, !.kept = Remember(@, invoice)]

Selects ==
  /\ bind.at = "idle"
  /\ \E invoice \in Invoices :
       LET picked == PickRequirements(invoice.accepts, None)
           selected == [picked EXCEPT !.resource = Or(@, invoice.envelope)]
           payable == /\ ~Conflicted(selected)
                      /\ None \notin {PayTo(selected), Amount(selected), PriceUsdc(selected)}
       IN bind' = [bind EXCEPT !.kept = Remember(@, invoice), !.invoice = <<invoice>>,
                     !.selected = <<selected>>, !.at = IF payable THEN "selected" ELSE "blocked"]

\* The pre-check answers, after whatever others fetched meanwhile.
Stamps ==
  /\ bind.at = "selected"
  /\ \E decision \in Preflighting :
       LET leaf == Stamp(bind.selected[1], bind.invoice[1], bind.kept, decision)
       IN bind' = [bind EXCEPT !.leaf = leaf, !.at = IF leaf = None THEN "blocked" ELSE "stamped"]

\* The agent composes; "asked" stands for the memo it was given.
Composes ==
  /\ bind.at = "stamped"
  /\ \E shape \in Transactions :
       bind' = [bind EXCEPT !.at = "composed",
         !.tx = <<[shape EXCEPT !.memos = [i \in DOMAIN @ |->
                    IF @[i].prefix = "asked" THEN MemoFor(bind.leaf[1]) ELSE @[i]]]>>]

NothingComposed ==
  /\ bind.at = "stamped"
  /\ bind' = [bind EXCEPT !.at = "blocked"]

\* verifyOfferBindingAfterPay, and the payment if it allows
PaysBound ==
  /\ bind.at = "composed"
  /\ bind' = [bind EXCEPT !.at =
       IF Strength(bind.tx[1], bind.leaf[1], bind.selected[1]) = "hard" THEN "paid" ELSE "blocked"]

BindInit == bind = BindIdle
BindNext == OtherFetch \/ Selects \/ Stamps \/ Composes \/ NothingComposed \/ PaysBound
-----------------------------------------------------------------------------
BindTypeOK ==
  /\ bind.at \in {"idle", "selected", "stamped", "composed", "paid", "blocked"}
  /\ bind.fetches \in 0 .. MaxFetches
  /\ Len(bind.kept) <= InvoiceCap

(* A payment that a binding let through moves the selected price of the selected
   asset to the selected recipient, and the hash its memo carries is of an offer
   of that price, recipient, asset and network, whatever 402s the process saw
   between the offer and the stamp.  It may be of another resource. *)
PaysWhatItBound ==
  bind.at = "paid" =>
    LET tx == bind.tx[1]  leaf == bind.leaf[1]  selected == bind.selected[1] IN
    /\ LegsMatch(tx.transfers[1], selected)
    /\ \E i \in DOMAIN tx.memos : tx.memos[i].leaf = <<leaf>>
    /\ leaf.payTo = PayTo(selected) /\ leaf.amount = Amount(selected)
    /\ leaf.asset \in {None, selected.asset}
    /\ SameNetwork(leaf.network, selected.network) \/ "missing" \in {leaf.network, selected.network}
=============================================================================
