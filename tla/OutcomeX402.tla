----------------------------- MODULE OutcomeX402 -----------------------------
(***************************************************************************)
(* The outcome ledger on the x402 round trip (outcome-ledger-x402.ts, as   *)
(* guarded-x402-fetch.ts brackets its pre-sign hook with it).  Calls of    *)
(* the returned fetch run concurrently in one process; every await is a    *)
(* place where the others, the clock, a crash or the operator may run.     *)
(*                                                                         *)
(* The ledger is the record map of OutcomeRecords: OutcomeLedger shows     *)
(* that a restart rebuilds exactly that map.  Each call draws a fresh      *)
(* decision id, so the call stands for its decision.                       *)
(***************************************************************************)
EXTENDS OutcomeRecords, FiniteSets

CONSTANTS
  OpOf,               \* the operation each intent belongs to (operationKeyOf)
  TermsOf,            \* the terms each intent fixes: network, asset, payTo, amount
  PaidByOthers,       \* terms on which somebody else's transaction succeeded
  TTL,                \* lifetime of an approval, in clock ticks
  MaxClock,           \* bound: the last clock reading
  ReconcileInFlight   \* may the operator resolve an attempt whose call still runs?

Calls == Decisions

ASSUME OperationAssumption == DOMAIN OpOf = Intents
ASSUME TermsAssumption == DOMAIN TermsOf = Intents
ASSUME ClockAssumption == TTL \in Nat /\ MaxClock \in Nat
ASSUME SwitchAssumption == ReconcileInFlight \in BOOLEAN

VARIABLES
  records,    \* the ledger: the latest attempt on each intent
  up,         \* is the paying process running?
  now,        \* the clock
  pc,         \* where each call is
  intent,     \* the intent hash of each call: its request and the 402's terms
  live,       \* did the paid leg find its attempt in "signing"?
  chain,      \* what became of each call's payment authorisation
  payer,      \* history: the call that signed the latest attempt on an intent
  resolved    \* history: calls whose outcome the ledger has had evidence of

vars == <<records, up, now, pc, intent, live, chain, payer, resolved>>

InFlight == {"checking", "signing", "sent", "settling", "validating"}

SameOperation(i, j) == OpOf[i] = OpOf[j]

WithState(rec, s) == [rec EXCEPT !.state = s]

\* A ledger transition: made when it is legal, otherwise it throws.
Moved(recs, i, s) ==
  IF <<recs[i].state, s>> \in LEGAL
    THEN [recs EXCEPT ![i] = WithState(@, s)]
    ELSE recs

Ends(c) == pc' = [pc EXCEPT ![c] = "done"]

Goes(c, to) == pc' = [pc EXCEPT ![c] = to]

-----------------------------------------------------------------------------
(* open(): refuse while another intent of the operation is unresolved,
   lapsing approvals that ran out on the way; then begin the attempt. *)
\* A slip: only an attempt on the same terms blocks.
OtherUnresolvedIgnored(i) == {}

OtherUnresolved(i) ==
  {j \in Intents \ {i} : SameOperation(i, j) /\ records[j].state \in UnresolvedStates}

\* Slips: every unresolved attempt lapses with time; every key is lapsed.
LapsedOthersUnresolved(i) == OtherUnresolved(i)

LapsedOthersAll(i) == {j \in Intents \ {i} : SameOperation(i, j)}

LapsedOthers(i) == {j \in OtherUnresolved(i) : ApprovedLapsed(records[j], now)}

LapseAll(recs, J) ==
  [j \in Intents |-> IF j \in J THEN WithState(recs[j], "expired") ELSE recs[j]]

(* The loop over unresolved() stops at the first blocker, so only some of
   the lapsed approvals may have been recorded as expired. *)
OpenBlocked(c) ==
  LET i == intent[c] IN
  /\ OtherUnresolved(i) # LapsedOthers(i)
  /\ \E J \in SUBSET LapsedOthers(i) : records' = LapseAll(records, J)
  /\ Ends(c)

OpenBegins(c) ==
  LET i      == intent[c]
      lapsed == IF ApprovedLapsed(records[i], now) THEN {i} ELSE {}
      recs   == LapseAll(records, LapsedOthers(i) \cup lapsed)
      opened == [state |-> "approved", decision |-> c,
                 approval |-> [expiresAt |-> now + TTL, cap |-> 1]]
  IN  /\ OtherUnresolved(i) = LapsedOthers(i)
      /\ IF CanAttempt(recs[i], {}, c, now)
           THEN /\ records' = [recs EXCEPT ![i] = opened]
                /\ Goes(c, "checking")
           ELSE /\ records' = recs
                /\ Ends(c)

Open(c) ==
  /\ up
  /\ pc[c] = "idle"
  /\ OpenBlocked(c) \/ OpenBegins(c)
  /\ UNCHANGED <<up, now, intent, live, chain, payer, resolved>>

(* close() with an aborting or throwing check: refuse.  When the attempt
   under the key is no longer approved, refuse() throws; either way the
   call ends before the signer.  (The first form is a slip: an aborted check
   that leaves the attempt open.) *)
CloseRefusedForgotten(c) ==
  /\ pc[c] = "checking"
  /\ Ends(c)
  /\ UNCHANGED <<records, up, now, intent, live, chain, payer, resolved>>

CloseRefused(c) ==
  /\ pc[c] = "checking"
  /\ records' = Moved(records, intent[c], "refused")
  /\ Ends(c)
  /\ UNCHANGED <<up, now, intent, live, chain, payer, resolved>>

(* close() with passing checks: markSigning, then the scheme's signer. *)
ClosePassed(c) ==
  LET i == intent[c]
  IN  /\ pc[c] = "checking"
      /\ IF records[i].state = "approved" /\ now < records[i].approval.expiresAt
           THEN /\ records' = Moved(records, i, "signing")
                /\ payer' = [payer EXCEPT ![i] = c]
                /\ chain' = [chain EXCEPT ![c] = "local"]
                /\ Goes(c, "signing")
           ELSE /\ records' = IF ApprovedLapsed(records[i], now)
                                THEN Moved(records, i, "expired")
                                ELSE records
                /\ Ends(c)
                /\ UNCHANGED <<payer, chain>>
      /\ UNCHANGED <<up, now, intent, live, resolved>>

(* The scheme's signer throws: the call ends and nothing touches the record,
   which stays in "signing" until somebody reconciles it. *)
SignerThrows(c) ==
  /\ pc[c] = "signing"
  /\ chain' = [chain EXCEPT ![c] = "void"]
  /\ Ends(c)
  /\ UNCHANGED <<records, up, now, intent, live, payer, resolved>>

(* The paid request leaves; the paid leg looks its attempt up by key. *)
SendPaid(c) ==
  /\ pc[c] = "signing"
  /\ live' = [live EXCEPT ![c] = records[intent[c]].state = "signing"]
  /\ chain' = [chain EXCEPT ![c] = "pending"]
  /\ Goes(c, "sent")
  /\ UNCHANGED <<records, up, now, intent, payer, resolved>>

(* The paid leg throws, or the answer carries no settlement, a failed one,
   one without a transaction, or one no settlement check is configured for. *)
AnswerUnknown(c) ==
  /\ pc[c] = "sent"
  /\ records' = IF live[c] THEN Moved(records, intent[c], "unknown") ELSE records
  /\ Ends(c)
  /\ UNCHANGED <<up, now, intent, live, chain, payer, resolved>>

(* The seller relays a successful settlement, truly or not, and a settlement
   check is configured to put it to. *)
AnswerSettled(c) ==
  /\ pc[c] = "sent"
  /\ IF live[c] THEN Goes(c, "settling") ELSE Ends(c)
  /\ UNCHANGED <<records, up, now, intent, live, chain, payer, resolved>>

(* The settlement check throws or does not confirm. *)
Unconfirmed(c) ==
  /\ pc[c] = "settling"
  /\ records' = Moved(records, intent[c], "unknown")
  /\ Ends(c)
  /\ UNCHANGED <<up, now, intent, live, chain, payer, resolved>>

\* A slip: the seller's word is taken for the settlement.
ConfirmedOnWord(c) ==
  /\ pc[c] = "settling"
  /\ Goes(c, "validating")
  /\ UNCHANGED <<records, up, now, intent, live, chain, payer, resolved>>

\* Some transaction on the terms t succeeded: a call's of this process, in
\* whichever attempt, or another payer's.
Succeeded(t) ==
  \/ t \in PaidByOthers
  \/ \E d \in Calls : chain[d] = "paid" /\ TermsOf[intent[d]] = t

(* The settlement check confirms.  It is given the transaction the seller
   relayed and the terms, and reads the chain truthfully; that the transaction
   is this attempt's, or was never relayed before, nothing asks. *)
Confirmed(c) ==
  /\ pc[c] = "settling"
  /\ Succeeded(TermsOf[intent[c]])
  /\ Goes(c, "validating")
  /\ UNCHANGED <<records, up, now, intent, live, chain, payer, resolved>>

(* complete(), with whatever the validator and the amount make of it. *)
CompleteCall(c, ok, sameRule, amount) ==
  LET i  == intent[c]
      to == CompletionState(records[i], ok, sameRule, amount)
  IN  /\ pc[c] = "validating"
      /\ records' = Moved(records, i, to)
      /\ resolved' = IF <<records[i].state, to>> \in LEGAL
                       THEN resolved \cup {c} ELSE resolved
      /\ Ends(c)
      /\ UNCHANGED <<up, now, intent, live, chain, payer>>

-----------------------------------------------------------------------------
(* The world: the chain decides a payment that left, the operator reconciles
   attempts against the chain, the process dies and comes back. *)
ChainDecides(c) ==
  /\ chain[c] = "pending"
  /\ \E fate \in {"paid", "void"} : chain' = [chain EXCEPT ![c] = fate]
  /\ UNCHANGED <<records, up, now, pc, intent, live, payer, resolved>>

Reconcile(i) ==
  LET c == payer[i]
  IN  /\ records[i].state \in PayingStates
      /\ ReconcileInFlight \/ pc[c] \notin InFlight
      /\ \/ /\ chain[c] = "paid"
            /\ \E to \in {"completed", "paid_incomplete"} : records' = Moved(records, i, to)
         \/ /\ chain[c] = "void"
            /\ records' = Moved(records, i, "not_settled")
      /\ resolved' = resolved \cup {c}
      /\ UNCHANGED <<up, now, pc, intent, live, chain, payer>>

Crash ==
  /\ up
  /\ up' = FALSE
  /\ pc' = [c \in Calls |-> IF pc[c] \in InFlight THEN "dead" ELSE pc[c]]
  /\ chain' = [c \in Calls |-> IF chain[c] = "local" THEN "void" ELSE chain[c]]
  /\ UNCHANGED <<records, now, intent, live, payer, resolved>>

Restart ==
  /\ ~up
  /\ up' = TRUE
  /\ UNCHANGED <<records, now, pc, intent, live, chain, payer, resolved>>

Tick ==
  /\ now < MaxClock
  /\ now' = now + 1
  /\ UNCHANGED <<records, up, pc, intent, live, chain, payer, resolved>>

NoCall == NoDecision

Init ==
  /\ records = [i \in Intents |-> NoRecord]
  /\ up = TRUE
  /\ now = 0
  /\ pc = [c \in Calls |-> "idle"]
  /\ intent \in [Calls -> Intents]
  /\ live = [c \in Calls |-> FALSE]
  /\ chain = [c \in Calls |-> "none"]
  /\ payer = [i \in Intents |-> NoCall]
  /\ resolved = {}

\* What the code does for a call once it has been bound.
Proceed(c) ==
  \/ CloseRefused(c)
  \/ ClosePassed(c)
  \/ SignerThrows(c)
  \/ SendPaid(c)
  \/ AnswerUnknown(c)
  \/ AnswerSettled(c)
  \/ Unconfirmed(c)
  \/ Confirmed(c)
  \/ \E ok, sameRule \in BOOLEAN, amount \in {1, 2} : CompleteCall(c, ok, sameRule, amount)

World ==
  \/ \E c \in Calls : ChainDecides(c)
  \/ \E i \in Intents : Reconcile(i)
  \/ Crash
  \/ Restart
  \/ Tick

Next ==
  \/ \E c \in Calls : Open(c) \/ Proceed(c)
  \/ World

(* The checks, the signer and the transport of a running process end; calls,
   crashes and the operator need never happen. *)
Fairness == \A c \in Calls : WF_vars(Proceed(c))

Spec == Init /\ [][Next]_vars /\ Fairness
-----------------------------------------------------------------------------
Places == InFlight \cup {"idle", "done", "dead"}

Fates == {"none", "local", "pending", "paid", "void"}

Records ==
  [state : States, decision : Calls, approval : [expiresAt : Nat, cap : Nat]]

TypeOK ==
  /\ records \in [Intents -> Records \cup {NoRecord}]
  /\ up \in BOOLEAN
  /\ now \in 0 .. MaxClock
  /\ pc \in [Calls -> Places]
  /\ intent \in [Calls -> Intents]
  /\ live \in [Calls -> BOOLEAN]
  /\ chain \in [Calls -> Fates]
  /\ payer \in [Intents -> Calls \cup {NoCall}]
  /\ resolved \subseteq Calls

\* Calls whose signer was reached and of whose outcome the ledger has had no
\* evidence, neither the settlement check's nor the operator's.
Outstanding == {c \in Calls : chain[c] # "none" /\ c \notin resolved}

(* Rule 1 of OUTCOME_CONTRACT.md, "a fresh approval never bypasses an
   unresolved payment", for a whole operation: two calls of one operation,
   whatever their terms, are never both signed without evidence of either's
   outcome, however their hooks, answers, restarts and reconciles interleave.
   (Evidence is what the ledger takes for it: a check's confirmation of a
   transaction on the terms resolves the call, see SettledIsTrue.) *)
NoBypass ==
  \A c, d \in Outstanding :
    c # d => ~SameOperation(intent[c], intent[d])

(* The ledger knows: the record of an unresolved signature's intent says
   signing or unknown, and is that signature's, through crashes too. *)
OutstandingIsRecorded ==
  \A c \in Outstanding :
    /\ records[intent[c]].state \in PayingStates
    /\ payer[intent[c]] = c

(* No record is settled on the seller's word: a completed or incomplete one
   rests on a transaction that succeeded on the record's terms, a not_settled
   one on its own authorisation being void.  The transaction is the attempt's
   own only where no other succeeded on these terms: wrapTransport hands the
   seller's choice of one to the check and keeps no list of those it has seen. *)
SettledIsTrue ==
  \A i \in Intents :
    /\ records[i].state \in {"completed", "paid_incomplete"} => Succeeded(TermsOf[i])
    /\ records[i].state = "not_settled" => chain[payer[i]] = "void"

(* A signer runs under the approval its own call opened: outcome-ledger-x402.ts
   says of close() that it "returns an abort when the approval expired
   meanwhile". *)
SignsOwnApproval ==
  \A c \in Calls : pc[c] = "signing" => records[intent[c]].decision = c

(* No call leaves its own attempt approved behind it: unless the process
   dies, the checks end in a refusal, a lapse or a signature. *)
ReleasesApproval ==
  \A c \in Calls :
    pc[c] = "checking" ~>
      \/ pc[c] = "dead"
      \/ records[intent[c]].state # "approved"
      \/ records[intent[c]].decision # c
=============================================================================
