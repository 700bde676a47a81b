----------------------------- MODULE PolicyFetch -----------------------------
(***************************************************************************)
(* createTwzrdPolicyFetch of policy-fetch.ts: the returned fetch evaluates *)
(* the 402 without recording, remembers what it evaluated in one variable  *)
(* of its closure, and books that when the paid leg answers well.  A round *)
(* is one run of its inner payer; rounds overlap as the caller's requests  *)
(* do, and a request whose payer throws is tried again through a routing   *)
(* service, in rounds of its own.                                          *)
(*                                                                         *)
(* One scope, policy:global, whose window is longer than any behaviour.    *)
(***************************************************************************)
EXTENDS Integers, FiniteSetsExt

CONSTANTS
  Rounds,         \* runs of the inner payer
  Micro,          \* the costliest offer of each round's 402
  DailyCeiling,   \* policy.dailyCeilingUsd
  NoRound         \* "undefined"

VARIABLES
  pc,        \* where each round is
  pending,   \* the round whose evaluation the closure remembers
  bookedBy   \* what each round's good answer booked: a round, or NoRound

vars == <<pc, pending, bookedBy>>

TotalOf(S) == SumFunctionOnSet(Micro, S)

Booked ==
  MapThenSumSet(LAMBDA r : Micro[bookedBy[r]], {r \in Rounds : bookedBy[r] # NoRound})

Goes(r, to) == pc' = [pc EXCEPT ![r] = to]

(* The 402: evaluateIntent without recording.  A block is thrown, and what
   the closure remembers stays. *)
Challenged(r) ==
  /\ pc[r] = "idle"
  /\ IF Booked + Micro[r] <= DailyCeiling
       THEN pending' = r /\ Goes(r, "paying")
       ELSE UNCHANGED pending /\ Goes(r, "aborted")
  /\ UNCHANGED bookedBy

\* "r.ok && pending": what is remembered is booked, whose ever it is.
Answered(r) ==
  /\ bookedBy' = [bookedBy EXCEPT ![r] = pending]
  /\ pending' = NoRound

\* The resource is free: the first leg answers well, without a 402.
Free(r) ==
  /\ pc[r] = "idle"
  /\ Answered(r)
  /\ Goes(r, "free")

PaidWell(r) ==
  /\ pc[r] = "paying"
  /\ Answered(r)
  /\ Goes(r, "paid")

\* The answer is not ok, with or without a payment: nothing is booked.
AnsweredBadly(r) ==
  /\ pc[r] \in {"idle", "paying"}
  /\ pending' = NoRound
  /\ Goes(r, "failed")
  /\ UNCHANGED bookedBy

\* The payer throws, before or after the signature.
PayerThrows(r) ==
  /\ pc[r] \in {"idle", "paying"}
  /\ Goes(r, "thrown")
  /\ UNCHANGED <<pending, bookedBy>>

Init ==
  /\ pc = [r \in Rounds |-> "idle"]
  /\ pending = NoRound
  /\ bookedBy = [r \in Rounds |-> NoRound]

Next ==
  \E r \in Rounds :
    \/ Challenged(r)
    \/ Free(r)
    \/ PaidWell(r)
    \/ AnsweredBadly(r)
    \/ PayerThrows(r)

Spec == Init /\ [][Next]_vars
-----------------------------------------------------------------------------
(* policy-fetch.ts: the ledger books the costliest offer, so that "the daily
   ceiling cannot be undercounted": what is booked covers every payment whose
   answer was good. *)
NotUndercounted == TotalOf({r \in Rounds : pc[r] = "paid"}) <= Booked
=============================================================================
