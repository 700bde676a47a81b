---------------------------- MODULE PolicyRuntime ----------------------------
(***************************************************************************)
(* Payment Control: evaluateIntent of policy-runtime.ts against a spend    *)
(* ledger shared by concurrent evaluations, and the check of its decision  *)
(* token before signing, assertIntentApproved of decision-token.ts with a  *)
(* consume-once registry.                                                  *)
(*                                                                         *)
(* An evaluation reads the clock once, checks the ceilings, awaits the     *)
(* intelligence, checks again and records under the first reading.  Each   *)
(* draws a fresh decision id, so the evaluation stands for its token.  A   *)
(* token that is presented blocked, expired, forged or with another intent *)
(* is rejected before the registry is asked: nothing changes.              *)
(***************************************************************************)
EXTENDS Integers, FiniteSetsExt

CONSTANTS
  Evals,          \* evaluations of a payment intent
  Payees,         \* the counterparties
  PayTo,          \* the payee of each intent
  Micro,          \* the amount of each intent in micro-USD
  Day, DailyCeiling,               \* policy.dailyCeilingUsd and its window
  Month, MonthlyCeiling,           \* mandate.monthlyCeilingUsd and its window
  NewWindow, NewCounterpartyCap,   \* policy.newCounterpartyCap
  TTL,            \* lifetime of a token
  MaxClock        \* bound: the last clock reading

ASSUME EvalsAssumption == IsFiniteSet(Evals)
ASSUME IntentsAssumption == PayTo \in [Evals -> Payees] /\ Micro \in [Evals -> Nat]
ASSUME WindowsAssumption == {Day, Month, NewWindow, TTL, MaxClock} \subseteq Nat
ASSUME CapsAssumption ==
  {DailyCeiling, MonthlyCeiling, NewCounterpartyCap} \subseteq Nat

VARIABLES
  pc,          \* where each evaluation is
  stamp,       \* the clock reading an evaluation works with, or Never
  recorded,    \* under each scope: the evaluations whose amount is recorded
  firstSeen,   \* when a counterparty's first record is dated, or Never
  consumed,    \* the keys the decision registry holds
  signatures,  \* history: how often each token let a wallet sign
  signedAt,    \* history: when it first did, or Never
  now

ledger == <<recorded, firstSeen>>

vars == <<pc, stamp, ledger, consumed, signatures, signedAt, now>>

Never == -1

\* The scopes of an evaluation in the order they are recorded.
ScopesOf(e) == <<PayTo[e], "policy:global", "mandate">>

Scopes == Payees \cup {"policy:global", "mandate"}

TotalOf(S) == SumFunctionOnSet(Micro, S)

\* spentMicro: also what is dated later than t counts.
SpentMicro(scope, window, t) ==
  TotalOf({e \in recorded[scope] : t - stamp[e] <= window})

\* firstSeen() against the window: the payments while a counterparty is new.
IsNew(p, t) == firstSeen[p] = Never \/ t - firstSeen[p] <= NewWindow

\* The ledger's ceilings, read with the evaluation's own clock reading t.
WithinCeilings(e, t) ==
  /\ SpentMicro("mandate", Month, t) + Micro[e] <= MonthlyCeiling
  /\ SpentMicro("policy:global", Day, t) + Micro[e] <= DailyCeiling
  /\ IsNew(PayTo[e], t) =>
       SpentMicro(PayTo[e], NewWindow, t) + Micro[e] <= NewCounterpartyCap

Goes(e, to) == pc' = [pc EXCEPT ![e] = to]

\* The first n scopes of e are recorded, under the reading the evaluation took.
Record(e, n) ==
  /\ recorded' = [s \in Scopes |->
       IF \E k \in 1 .. n : ScopesOf(e)[k] = s THEN recorded[s] \cup {e} ELSE recorded[s]]
  /\ firstSeen' =
       IF n > 0 /\ firstSeen[PayTo[e]] = Never
         THEN [firstSeen EXCEPT ![PayTo[e]] = stamp[e]]
         ELSE firstSeen

-----------------------------------------------------------------------------
(* The checks before the await: mandate, policy and ceilings.  Any of the
   static ones may block; then the intelligence is not asked. *)
BlockedLocally(e) ==
  /\ pc[e] = "idle"
  /\ stamp' = [stamp EXCEPT ![e] = now]
  /\ Goes(e, "blocked")
  /\ UNCHANGED <<ledger, consumed, signatures, signedAt, now>>

Start(e) ==
  /\ pc[e] = "idle"
  /\ WithinCeilings(e, now)
  /\ stamp' = [stamp EXCEPT ![e] = now]
  /\ Goes(e, "awaiting")
  /\ UNCHANGED <<ledger, consumed, signatures, signedAt, now>>

\* The intelligence blocks, flags wash trading, or does not know the payee.
BlockedRemotely(e) ==
  /\ pc[e] = "awaiting"
  /\ Goes(e, "blocked")
  /\ UNCHANGED <<stamp, ledger, consumed, signatures, signedAt, now>>

\* Slips: the re-check is left out; it leaves the counterparty cap out.
NoRecheck(e) == TRUE

RecheckWithoutCounterparty(e) ==
  /\ SpentMicro("mandate", Month, stamp[e]) + Micro[e] <= MonthlyCeiling
  /\ SpentMicro("policy:global", Day, stamp[e]) + Micro[e] <= DailyCeiling

Recheck(e) == WithinCeilings(e, stamp[e])

\* The ceilings are checked again in the segment that records.
BlockedOnRecheck(e) ==
  /\ pc[e] = "awaiting"
  /\ ~Recheck(e)
  /\ Goes(e, "blocked")
  /\ UNCHANGED <<stamp, ledger, consumed, signatures, signedAt, now>>

Permit(e) ==
  /\ pc[e] = "awaiting"
  /\ Recheck(e)
  /\ Record(e, 3)
  /\ Goes(e, "permitted")
  /\ UNCHANGED <<stamp, consumed, signatures, signedAt, now>>

(* A durable ledger's append throws after n records, or all three are made
   and the decision signer throws: there is no token, the records stay. *)
PermitFails(e, n) ==
  /\ pc[e] = "awaiting"
  /\ Recheck(e)
  /\ Record(e, n)
  /\ Goes(e, "failed")
  /\ UNCHANGED <<stamp, consumed, signatures, signedAt, now>>

-----------------------------------------------------------------------------
\* Slip: a token is good whatever the time.
ForeverAlive(e) == TRUE

Alive(e) == now < stamp[e] + TTL

VerifiedKey(e) == <<"", e>>

\* Slip: an unverified check uses the key of the verified one.
UnsafeKeyShared(e) == <<"", e>>

UnsafeKey(e) == <<"unsafe:", e>>

\* Slip: the registry is asked and not told.
ApproveWithoutConsuming(e) ==
  /\ pc[e] = "permitted"
  /\ Alive(e)
  /\ VerifiedKey(e) \notin consumed
  /\ signatures' = [signatures EXCEPT ![e] = @ + 1]
  /\ signedAt' = IF signedAt[e] = Never THEN [signedAt EXCEPT ![e] = now] ELSE signedAt
  /\ UNCHANGED <<pc, stamp, ledger, consumed, now>>

(* assertIntentApproved: the token verifies, permits, is alive and binds the
   very intent, and its id has not been consumed; the wallet then signs. *)
Approve(e) ==
  /\ pc[e] = "permitted"
  /\ Alive(e)
  /\ VerifiedKey(e) \notin consumed
  /\ consumed' = consumed \cup {VerifiedKey(e)}
  /\ signatures' = [signatures EXCEPT ![e] = @ + 1]
  /\ signedAt' = IF signedAt[e] = Never THEN [signedAt EXCEPT ![e] = now] ELSE signedAt
  /\ UNCHANGED <<pc, stamp, ledger, now>>

(* The check without a signature, on the same registry: whoever presents a
   token that names e's id passes it once. *)
ApproveUnsafe(e) ==
  /\ pc[e] # "idle"
  /\ UnsafeKey(e) \notin consumed
  /\ consumed' = consumed \cup {UnsafeKey(e)}
  /\ UNCHANGED <<pc, stamp, ledger, signatures, signedAt, now>>

Tick ==
  /\ now < MaxClock
  /\ now' = now + 1
  /\ UNCHANGED <<pc, stamp, ledger, consumed, signatures, signedAt>>

Init ==
  /\ pc = [e \in Evals |-> "idle"]
  /\ stamp = [e \in Evals |-> Never]
  /\ recorded = [s \in Scopes |-> {}]
  /\ firstSeen = [p \in Payees |-> Never]
  /\ consumed = {}
  /\ signatures = [e \in Evals |-> 0]
  /\ signedAt = [e \in Evals |-> Never]
  /\ now = 0

Evaluate(e) ==
  \/ BlockedLocally(e)
  \/ Start(e)
  \/ BlockedRemotely(e)
  \/ BlockedOnRecheck(e)
  \/ Permit(e)
  \/ \E n \in 0 .. 3 : PermitFails(e, n)

Next ==
  \/ \E e \in Evals : Evaluate(e) \/ Approve(e) \/ ApproveUnsafe(e)
  \/ Tick

Spec == Init /\ [][Next]_vars
-----------------------------------------------------------------------------
Clock == 0 .. MaxClock

Moments == Clock \cup {Never}

TypeOK ==
  /\ pc \in [Evals -> {"idle", "awaiting", "blocked", "permitted", "failed"}]
  /\ stamp \in [Evals -> Moments]
  /\ recorded \in [Scopes -> SUBSET Evals]
  /\ firstSeen \in [Payees -> Moments]
  /\ consumed \subseteq {"", "unsafe:"} \X Evals
  /\ signatures \in [Evals -> {0, 1}]
  /\ signedAt \in [Evals -> Moments]
  /\ now \in Clock

Permitted == {e \in Evals : pc[e] = "permitted"}

DatedIn(S, first, last) == {e \in S : stamp[e] \in first .. last}

NewCounterpartyCapped ==
  \A p \in Payees :
    LET paid == {e \in Permitted : PayTo[e] = p}
    IN  \A t \in Clock :
          firstSeen[p] # Never /\ t <= firstSeen[p] + NewWindow =>
            TotalOf(DatedIn(paid, t - NewWindow, t)) <= NewCounterpartyCap

(* evaluateIntent's "two intents read one headroom and both clear the ceiling"
   never happens: in every window the permitted payments are within the daily
   and the monthly ceiling, however slow each intelligence call was and
   although a late evaluation records under an old clock reading.  While a
   counterparty is new, no window takes more than the cap to it, also when
   evaluations that started before its first payment end after it. *)
CeilingsHold ==
  /\ \A t \in Clock :
       /\ TotalOf(DatedIn(Permitted, t - Day, t)) <= DailyCeiling
       /\ TotalOf(DatedIn(Permitted, t - Month, t)) <= MonthlyCeiling
  /\ NewCounterpartyCapped

(* The consume-once slot of a token is taken by its own signature and by
   nothing else: not by an expired, mismatched or unverified presentation. *)
SlotTakenBySignature ==
  \A e \in Evals : VerifiedKey(e) \in consumed <=> signatures[e] = 1

(* What the token's lifetime is for: although spend is dated when its
   evaluation began, the signatures of any window that is shorter than the
   ceiling's by that lifetime are within the ceiling. *)
SignedWithinCeilings ==
  \A t \in Clock :
    LET SignedIn(first) == {e \in Evals : signedAt[e] # Never /\ signedAt[e] \in first .. t}
    IN  /\ TTL <= Day => TotalOf(SignedIn(t - (Day - TTL))) <= DailyCeiling
        /\ TTL <= Month => TotalOf(SignedIn(t - (Month - TTL))) <= MonthlyCeiling
=============================================================================
