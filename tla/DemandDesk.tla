----------------------------- MODULE DemandDesk -----------------------------
(***************************************************************************)
(* The exclusive signer of immutable-vault spends: the verification of     *)
(* demand-desk-authorization.ts and the facade of demand-desk-wallet.ts    *)
(* with its replay guard over the outcome ledger, called concurrently while*)
(* the host moves the ledger, the clock runs and the mandate is revoked.   *)
(* A message is the sequence of its instructions, and its hash is itself.  *)
(***************************************************************************)
EXTENDS Optional, Integers, SequencesExt

CONSTANTS
  DeskCalls,    \* concurrent calls of one facade
  DeskItems,    \* what they are called with: [tx, message, authorization, hash, expectation]
  DeskHashes,   \* the intent hashes of the items
  DeskClock,    \* the last instant of the clock
  DeskClears    \* how often the host clears each hash for a signature, at most

ExpectationFields ==
  {"trusted", "skew", "maxTtl", "vault", "instructions", "intent", "networkFee", "receipt"}

\* A message has instructions, and those of the Compute Budget have numbers.
IsMessage(tx) ==
  /\ DOMAIN tx = 1 .. Len(tx) /\ Len(tx) \in Nat
  /\ \A i \in DOMAIN tx : /\ tx[i].kind = "limit" => tx[i].units \in Nat
                          /\ tx[i].kind = "price" => tx[i].price \in Nat

ASSUME ItemsAssumption ==
  \A item \in DeskItems :
    /\ item.hash \in DeskHashes
    /\ IsMessage(item.message) /\ IsMessage(item.tx)
    /\ item.expectation = [f \in ExpectationFields |-> item.expectation[f]]
    /\ item.expectation.networkFee \in Nat
    /\ item.authorization.maxFee \in Nat
    /\ item.authorization.expires \in Int
ASSUME ClockAssumption == DeskClock \in Nat

Ledger == INSTANCE OutcomeRecords
            WITH Intents <- DeskHashes, Decisions <- {}, NoDecision <- "no decision"

VARIABLE desk   \* [now, active, ledger, cleared, calls, signed, on, sent]
deskVars == <<desk>>

-----------------------------------------------------------------------------
(* demand-desk-authorization.ts.                                           *)

MaxMemoBytes == 512
LamportScale == 1000000

\* parseAuthorization: what a string of the right shape may still be.
WellFormed(a) ==
  /\ a.amount > 0
  /\ a.version \in {"2.0.0", "2.1.0"}
  /\ a.version = "2.0.0" <=> (a.memo = "absent" /\ a.maxUnits = "absent")

AuthorizationPreimage(a) == [a EXCEPT !.signature = "unsigned"]

\* The lifetime: issued, not expired, not longer than allowed, on evidence no
\* younger than itself.
Current(a, e, now) ==
  /\ a.issued <= now + e.skew
  /\ now < a.expires
  /\ a.issued < a.expires /\ a.expires - a.issued <= e.maxTtl
  /\ a.fresh <= a.issued + e.skew

\* The instruction in a slot, if it is of the kind that may stand there.
Held(tx, at, kind) == IF at \in DOMAIN tx /\ tx[at].kind = kind THEN <<tx[at]>> ELSE None

\* [limit?, price?, memo?, spend]: the index moves past a slot that is filled.
Slots(tx) ==
  LET limit == Held(tx, 1, "limit")
      price == Held(tx, 1 + Len(limit), "price")
  IN [limit |-> limit, price |-> price, memo |-> Held(tx, 1 + Len(limit) + Len(price), "memo")]

MemoFits(a, memo) ==
  IF a.memo = None THEN memo = None
  ELSE /\ memo # None
       /\ memo[1].bytes \in 1 .. MaxMemoBytes /\ memo[1].printable
       /\ memo[1].bytes = a.memo[1]

ShapeV2_1(a, tx) ==
  LET slots == Slots(tx)
  IN /\ Len(tx) = Len(slots.limit) + Len(slots.price) + Len(slots.memo) + 1
     /\ slots.price # None => slots.limit # None
     /\ slots.limit # None => slots.limit[1].units \in 1 .. a.maxUnits
     /\ MemoFits(a, slots.memo)

\* Slip: the priority fee is rounded down.
PriorityFeeFloor(tx) ==
  LET slots == Slots(tx)
  IN IF None \in {slots.limit, slots.price} THEN 0
     ELSE (slots.limit[1].units * slots.price[1].price) \div LamportScale

PriorityFee(tx) ==
  LET slots == Slots(tx)
  IN IF None \in {slots.limit, slots.price} THEN 0
     ELSE (slots.limit[1].units * slots.price[1].price + LamportScale - 1) \div LamportScale

\* The exact spend_with_policy instruction over the authorized accounts.
ExactSpend(a, e, spend) ==
  /\ spend.vault = a.vault
  /\ spend.amount = a.amount
  /\ spend.recipient = a.recipient /\ spend.mint = a.mint
  /\ spend.agent = a.agent /\ spend.desk = a.desk
  /\ e.receipt # None => spend.receipt = e.receipt[1]
  /\ a.instruction = spend

IntentBound(a) == [agent |-> a.agent, recipient |-> a.recipient, mint |-> a.mint, amount |-> a.amount]

\* verifyDemandDeskAuthorization
Authorized(a, e, now) ==
  /\ WellFormed(a)
  /\ a.desk \in e.trusted
  /\ a.signature = [by |-> a.desk, over |-> AuthorizationPreimage(a)]
  /\ Current(a, e, now)
  /\ a.status = "ALLOW" /\ a.reason = "APPROVED"
  /\ IntentBound(a) = e.intent
  /\ a.vault = e.vault
  /\ IF a.version = "2.1.0" THEN ShapeV2_1(a, e.instructions) ELSE Len(e.instructions) = 1
  /\ Last(e.instructions).kind = "spend"
  /\ ExactSpend(a, e, Last(e.instructions))
  /\ e.networkFee + (IF a.version = "2.1.0" THEN PriorityFee(e.instructions) ELSE 0) <= a.maxFee

-----------------------------------------------------------------------------
(* demand-desk-wallet.ts, with a replay guard.  The state of a hash the    *)
(* ledger does not hold is "none".                                         *)

ReplayStates == {"signing", "unknown", "completed", "paid_incomplete"}

Call(at, kind, items) == [at |-> at, kind |-> kind, items |-> items, next |-> 1]
DeskIdle == Call("idle", "one", <<>>)
DeskOver == Call("over", "one", <<>>)

DeskStart ==
  [now |-> 0, active |-> TRUE, ledger |-> [h \in DeskHashes |-> "none"],
   cleared |-> [h \in DeskHashes |-> 0],
   calls |-> [c \in DeskCalls |-> DeskIdle], signed |-> {}, sent |-> {},
   on |-> [h \in DeskHashes |-> <<>>]]

\* expectation(tx) reads the message that is signed.
Verified(item, tx) ==
  /\ desk.active
  /\ tx = item.message
  /\ Authorized(item.authorization, [item.expectation EXCEPT !.instructions = tx], desk.now)

NotReplayed(hash) == desk.ledger[hash] \notin ReplayStates

Over(c) == desk' = [desk EXCEPT !.calls[c] = DeskOver]

\* What the ledger holds of a hash once the signer is called on it.
Marked(hash) == [desk.ledger EXCEPT ![hash] = IF @ = "approved" THEN "signing" ELSE @]

SignsNow(c, call) ==
  LET item == call.items[call.next]
  IN desk' = [desk EXCEPT !.ledger = Marked(item.hash),
                !.calls[c] = [call EXCEPT !.at = "signing"],
                !.signed = @ \cup {item},
                !.on[item.hash] = Append(@, [state |-> desk.ledger[item.hash],
                                             cleared |-> desk.cleared[item.hash]])]

\* Slip: the state checked with the whole batch is not read again.
SignsUnread(c, call) == SignsNow(c, call)

\* markSigning and the signer, with nothing in between; an approval that has
\* expired meanwhile is recorded so, and nothing is signed.
Signs(c, call) ==
  LET item == call.items[call.next]
  IN IF ~NotReplayed(item.hash) THEN Over(c)
     ELSE \/ SignsNow(c, call)
          \/ /\ desk.ledger[item.hash] = "approved"
             /\ desk' = [desk EXCEPT !.ledger[item.hash] = "expired", !.calls[c] = DeskOver]

\* A batch verifies every item, and refuses one that names a hash twice.
Calls(c) ==
  /\ desk.calls[c].at = "idle"
  /\ LET ready == {item \in DeskItems : Verified(item, item.tx) /\ NotReplayed(item.hash)} IN
     \/ ready # DeskItems /\ Over(c)
     \/ \E kind \in {"one", "send"}, item \in ready : Signs(c, Call("signing", kind, <<item>>))
     \/ \E first, second \in ready :
          IF first.hash # second.hash THEN Signs(c, Call("signing", "batch", <<first, second>>))
          ELSE Over(c)

\* The awaited signer answers: the next item of a batch, or the second
\* verification and the send.
Answered(c) ==
  /\ desk.calls[c].at = "signing"
  /\ LET call == desk.calls[c]
         item == call.items[call.next]
     IN \/ Over(c)     \* the signer throws
        \/ /\ call.next < Len(call.items)
           /\ Signs(c, [call EXCEPT !.next = @ + 1])
        \/ /\ call.next = Len(call.items) /\ call.kind # "send"
           /\ Over(c)
        \/ /\ call.kind = "send"
           /\ \E tx \in {other.tx : other \in DeskItems} :
                IF Verified(item, tx)
                  THEN desk' = [desk EXCEPT !.calls[c] = DeskOver,
                                  !.sent = @ \cup {[tx |-> tx, item |-> item, at |-> desk.now]}]
                ELSE Over(c)

\* The host's own moves of the ledger: a new attempt on what is settled or
\* never began, or a legal transition of one that was made.
HostMoves(hash) ==
  /\ \/ /\ desk.ledger[hash] \notin Ledger!UnresolvedStates
        /\ desk.cleared[hash] < DeskClears[hash]
        /\ desk' = [desk EXCEPT !.ledger[hash] = "approved", !.cleared[hash] = @ + 1]
     \/ \E to \in Ledger!States :
          /\ <<desk.ledger[hash], to>> \in Ledger!LEGAL
          /\ to = "not_settled" => desk.cleared[hash] < DeskClears[hash]
          /\ desk' = [desk EXCEPT !.ledger[hash] = to,
                        !.cleared[hash] = @ + (IF to = "not_settled" THEN 1 ELSE 0)]

DeskTick == desk.now < DeskClock /\ desk' = [desk EXCEPT !.now = @ + 1]

Revoke == desk.active /\ desk' = [desk EXCEPT !.active = FALSE]

DeskInit == desk = DeskStart
DeskNext ==
  \/ \E c \in DeskCalls : Calls(c) \/ Answered(c)
  \/ \E hash \in DeskHashes : HostMoves(hash)
  \/ DeskTick \/ Revoke
-----------------------------------------------------------------------------
DeskTypeOK ==
  /\ desk.now \in 0 .. DeskClock
  /\ desk.ledger \in [DeskHashes -> Ledger!States \cup {"none"}]
  /\ \A c \in DeskCalls : desk.calls[c].at \in {"idle", "signing", "over"}

\* The facade signs a hash again only after a new approval, or once the first
\* signature is known to have moved nothing.
SignedOncePerApproval ==
  \A h \in DeskHashes : \A i, j \in DOMAIN desk.on[h] :
    i < j /\ desk.on[h][i].state = "approved" => desk.on[h][j].cleared > desk.on[h][i].cleared

Spend(tx) == Last(tx)

\* What left the facade is the local intent, to the last instruction, at no
\* more than the authorized fee, as a trusted desk had put it.
SpendsTheIntent(tx, item) ==
  LET a == item.authorization  e == item.expectation IN
  /\ a.signature.by \in e.trusted
  /\ <<Spend(tx).recipient, Spend(tx).amount, Spend(tx).mint>> =
       <<e.intent.recipient, e.intent.amount, e.intent.mint>>
  /\ \A i \in DOMAIN tx : tx[i].kind = "spend" <=> i = Len(tx)
  /\ \A i \in DOMAIN tx : tx[i].kind = "price" =>
       \E j \in DOMAIN tx :
         /\ tx[j].kind = "limit"
         /\ tx[i].price * tx[j].units <= (a.maxFee - e.networkFee) * LamportScale

(* However calls overlap the host's ledger, a second signature needs a new
   approval or a first one that is known to have failed; every signature is for the spend the
   desk authorized; and what is sent was authorized at the instant it is sent,
   although the signer took its time. *)
DeskSpendsOnce ==
  /\ SignedOncePerApproval
  /\ \A item \in desk.signed : SpendsTheIntent(item.tx, item)
  /\ \A s \in desk.sent : SpendsTheIntent(s.tx, s.item) /\ s.at < s.item.authorization.expires

-----------------------------------------------------------------------------
(* The inductive invariant of the proofs.                                   *)

DeskFields == {"now", "active", "ledger", "cleared", "calls", "signed", "on", "sent"}
LedgerStates == Ledger!States \cup {"none"}
Signings == [state : LedgerStates, cleared : Nat]
CallStates ==
  [at : {"idle", "signing", "over"}, kind : {"one", "send", "batch"}, items : Seq(DeskItems), next : Nat]

DeskTypes ==
  /\ desk = [f \in DeskFields |-> desk[f]]
  /\ desk.now \in 0 .. DeskClock
  /\ desk.ledger \in [DeskHashes -> LedgerStates]
  /\ desk.cleared \in [DeskHashes -> Nat]
  /\ desk.calls \in [DeskCalls -> CallStates]
  /\ desk.on \in [DeskHashes -> Seq(Signings)]
  /\ desk.signed \subseteq DeskItems

\* An item that passed on the message it is signed as.
Vouched(item) == SpendsTheIntent(item.tx, item)

\* A call that awaits the signer holds only such items.
Ready(call) ==
  /\ call.next \in DOMAIN call.items
  /\ \A i \in DOMAIN call.items : call.items[i] \in DeskItems /\ Vouched(call.items[i])

HoldsVouched == \A c \in DeskCalls : desk.calls[c].at = "signing" => Ready(desk.calls[c])

\* A signature under the last approval of a hash has used it up.
UsedUp(on, cleared, state) ==
  \A i \in DOMAIN on :
    /\ on[i].cleared <= cleared
    /\ on[i].state = "approved" /\ on[i].cleared = cleared => state \in ReplayStates

AllUsedUp == \A h \in DeskHashes : UsedUp(desk.on[h], desk.cleared[h], desk.ledger[h])

SignedVouched == \A item \in desk.signed : Vouched(item)

SentInTime ==
  \A s \in desk.sent : SpendsTheIntent(s.tx, s.item) /\ s.at < s.item.authorization.expires

DeskInv ==
  /\ DeskTypes /\ HoldsVouched
  /\ AllUsedUp /\ SignedOncePerApproval
  /\ SignedVouched /\ SentInTime

=============================================================================
