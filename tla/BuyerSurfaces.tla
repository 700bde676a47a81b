--------------------------- MODULE BuyerSurfaces ---------------------------
(***************************************************************************)
(* The machines that share no state: the log monitor and the log commands, *)
(* the pre-sign hook, the resource evaluation, the MPP guard, the vault    *)
(* signer, the seller's settle guard, the advisory pre-check, the cold     *)
(* start, the evidence bundles, the binding of a payment to its offer, the *)
(* fulfilment log, the wrappers of a fetch and the counsel fold.  One of   *)
(* them moves while the others stay where they start: no step of one reads *)
(* what another holds.                                                     *)
(***************************************************************************)
EXTENDS HeadPinning, EvaluateResource, MppCharge, DemandDesk, SettleGuard, SafeFetch, ColdStart,
        LogCommands, Evidence, ResourceBind, Fulfillment, PayingFetch, Counsel

vars == <<pinVars, gateVars, evalVars, mppVars, deskVars, settleVars, safeVars, coldVars,
          commandVars, evidenceVars, bindVars, fulfilVars, wrapVars, counselVars>>

Init == PinInit /\ GateInit /\ EvalInit /\ MppInit /\ DeskInit /\ SettleInit
        /\ SafeInit /\ ColdInit /\ CommandInit /\ EvidenceInit /\ BindInit /\ FulfilInit /\ WrapInit
        /\ CounselInit

\* Every machine but these stands still at its start.
Resting(machines) ==
  /\ "pin" \notin machines => PinInit /\ UNCHANGED pinVars
  /\ "gate" \notin machines => GateInit /\ UNCHANGED gateVars
  /\ "eval" \notin machines => EvalInit /\ UNCHANGED evalVars
  /\ "mpp" \notin machines => MppInit /\ UNCHANGED mppVars
  /\ "desk" \notin machines => DeskInit /\ UNCHANGED deskVars
  /\ "settle" \notin machines => SettleInit /\ UNCHANGED settleVars
  /\ "safe" \notin machines => SafeInit /\ UNCHANGED safeVars
  /\ "cold" \notin machines => ColdInit /\ UNCHANGED coldVars
  /\ "command" \notin machines => CommandInit /\ UNCHANGED commandVars
  /\ "evidence" \notin machines => EvidenceInit /\ UNCHANGED evidenceVars
  /\ "bind" \notin machines => BindInit /\ UNCHANGED bindVars
  /\ "fulfil" \notin machines => FulfilInit /\ UNCHANGED fulfilVars
  /\ "wrap" \notin machines => WrapInit /\ UNCHANGED wrapVars
  /\ "counsel" \notin machines => CounselInit /\ UNCHANGED counselVars

Monitor == Resting({"pin"}) /\ PinNext
PreSignHook == Resting({"gate"}) /\ GateNext
Evaluation == Resting({"eval"}) /\ EvalNext
Charge == Resting({"mpp"}) /\ MppNext
VaultSigner == Resting({"desk"}) /\ DeskNext
Settlement == Resting({"settle"}) /\ SettleNext
PreCheck == Resting({"safe"}) /\ SafeNext
Probing == Resting({"cold"}) /\ ColdNext
Command == Resting({"command"}) /\ CommandNext
Publication == Resting({"evidence"}) /\ EvidenceNext
Binding == Resting({"bind"}) /\ BindNext
Fulfilment == Resting({"fulfil"}) /\ FulfilNext
Wrapping == Resting({"wrap"}) /\ WrapNext
Counselling == Resting({"counsel"}) /\ CounselNext

Next ==
  \/ Monitor \/ PreSignHook \/ Evaluation \/ Charge \/ VaultSigner \/ Settlement
  \/ PreCheck \/ Probing \/ Command \/ Publication \/ Binding \/ Fulfilment \/ Wrapping
  \/ Counselling

Spec == Init /\ [][Next]_vars

(* Each machine's state has its shape. *)
TypeOK == PinTypeOK /\ GateTypeOK /\ EvalTypeOK /\ MppTypeOK /\ DeskTypeOK /\ SettleTypeOK
          /\ SafeTypeOK /\ ColdTypeOK /\ CommandTypeOK /\ EvidenceTypeOK /\ BindTypeOK /\ FulfilTypeOK /\ WrapTypeOK
          /\ CounselTypeOK

(* Whichever surface lets a payment through - the hook, the pre-check that then
   runs a payer, a composed transaction bound to its offer, a wrapper that
   screens a whole 402, or the counsel fold that authorizes a payout - stayed
   within every bound it knew of. *)
PaysWithinBounds ==
  HookPaysWithinBounds /\ PayerRunsWithinBounds /\ ObservesDelivery /\ PaysWhatItBound /\ PaysScreenedOffers
    /\ CounselFailsClosed

(* What the log verifier says of the log, its monitor and its commands alike,
   follows from what the log or the anchor authority really signed. *)
VerdictsAreEarned == PinVerdictsAreEarned /\ CommandsProve
=============================================================================
