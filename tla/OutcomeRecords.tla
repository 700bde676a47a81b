--------------------------- MODULE OutcomeRecords ---------------------------
(***************************************************************************)
(* The payment-attempt record of outcome-ledger.ts: its states, the legal  *)
(* transitions between them, and the two decisions taken on a record       *)
(* alone: has its approval lapsed, and may a new attempt begin.  These are *)
(* constant-level operators: OutcomeLedger adds the file and the process   *)
(* around them, OutcomeX402 the paying fetch that drives them.             *)
(***************************************************************************)
EXTENDS Integers

CONSTANTS
  Intents,      \* intent hashes: the ledger's keys
  Decisions,    \* decision ids: each names one approval
  NoDecision    \* the decision of a key that has no record

ASSUME NoDecisionAssumption == NoDecision \notin Decisions

\* A slip this model must reject: "unknown" forgotten among the unresolved states.
UnresolvedStatesWithoutUnknown == {"approved", "signing"}

UnresolvedStates == {"approved", "signing", "unknown"}

TerminalStates ==
  {"refused", "expired", "completed", "paid_incomplete", "not_settled"}

States == UnresolvedStates \cup TerminalStates

\* The states that say a signer may have run and nothing is established yet.
PayingStates == {"signing", "unknown"}

\* The states that establish what became of a signature.
SettledStates == {"completed", "paid_incomplete", "not_settled"}

\* Two slips in the table: an unknown payment may be refused; a key without a
\* record may be.
LEGALRefusingUnknown ==
  ({"approved", "unknown"} \X {"refused", "expired", "signing"})
    \cup ({"signing"} \X ({"unknown"} \cup SettledStates))
    \cup ({"unknown"} \X SettledStates)

LEGALFromNothing ==
  ({"approved", "none"} \X {"refused", "expired", "signing"})
    \cup ({"signing"} \X ({"unknown"} \cup SettledStates))
    \cup ({"unknown"} \X SettledStates)

LEGAL ==
  ({"approved"} \X {"refused", "expired", "signing"})
    \cup ({"signing"} \X ({"unknown"} \cup SettledStates))
    \cup ({"unknown"} \X SettledStates)

(***************************************************************************)
(* An approval is reduced to what the ledger decides on: when it expires   *)
(* and the most that may be spent under it, all-in.                        *)
(***************************************************************************)
NoApproval == [expiresAt |-> 0, cap |-> 0]

\* The record of a key the ledger has never seen ("?? null" in the code).
NoRecord ==
  [state |-> "none", decision |-> NoDecision, approval |-> NoApproval]

\* An approval past its expiry: no signer ran, so it may lapse.
ApprovedLapsed(rec, t) ==
  /\ rec.state = "approved"
  /\ ~(t < rec.approval.expiresAt)

\* Slips: the ids of closed attempts are not consulted; the cap is not.
CanAttemptForgetting(rec, used, d, t) ==
  /\ ~(rec.state \in UnresolvedStates /\ ~ApprovedLapsed(rec, t))
  /\ rec.decision # d

CompletionStateUncapped(rec, ok, sameRule, amount) ==
  IF ok /\ sameRule THEN "completed" ELSE "paid_incomplete"

\* canAttempt: may an attempt under decision d begin on the record rec?
CanAttempt(rec, used, d, t) ==
  /\ ~(rec.state \in UnresolvedStates /\ ~ApprovedLapsed(rec, t))
  /\ rec.decision # d
  /\ d \notin used

\* What complete() resolves to: the validation verdict, the rule that gave it,
\* and the all-in amount against the cap the approval was opened with.
CompletionState(rec, ok, sameRule, amount) ==
  IF ok /\ sameRule /\ amount <= rec.approval.cap
    THEN "completed"
    ELSE "paid_incomplete"
=============================================================================
