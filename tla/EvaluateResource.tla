-------------------------- MODULE EvaluateResource --------------------------
(***************************************************************************)
(* evaluate_x402_resource of evaluate.ts: the free decision, then at most  *)
(* one paid hop that may only tighten it, then the demand of               *)
(* log-inclusion.ts that a bought receipt be proven in the log.  The host's*)
(* verifier is twzrd-log-verifier's verifyReceiptInLog.                    *)
(***************************************************************************)
EXTENDS PaymentGate, TreeHeads

CONSTANTS
  EvalOptions,  \* the options the resource may be evaluated with
  Receipts,     \* twzrd_receipt of a paid answer: None, or the leaf it carries (or none)
  LogAnswers    \* what the log may answer the verifier

\* Nobody but the log signs with the keys an operator pinned.
ASSUME PinsAssumption ==
  \A reply \in LogAnswers, opt \in EvalOptions :
    reply.sth # None /\ opt.pin # None /\ ValidHead(reply.sth[1], opt.pin[1]) => reply.sth[1] \in Genuine

\* An answer that holds a proof names it, and a path is a list of hashes.
ASSUME LogAnswersAssumption ==
  \A reply \in LogAnswers :
    /\ reply.proof \notin {"not_merged", "fails"} => reply.path # None
    /\ reply.path # None => IsList(reply.path[1].audit_path)

VARIABLE eval
evalVars == <<eval>>

EvalIdle == [at |-> "idle", req |-> NoOffer, opt |-> None, asked |-> None, approval |-> None,
             hops |-> <<>>, score |-> None, receipt |-> None, answered |-> FALSE, log |-> None,
             approved |-> FALSE]

EOpt == eval.opt[1]
EPrice == PriceUsdc(eval.req)
EApproval == eval.approval[1]
EEnds(e, approved) == eval' = [e EXCEPT !.at = "done", !.approved = approved]
EBought(hop) == [eval EXCEPT !.hops = Append(@, hop)]

\* base.decision: the card's own word where a card was read.
EDecision ==
  IF EApproval.verdict = "unknown" THEN "unknown"
  ELSE IF /\ EApproval.scored /\ eval.asked[1].preflight # None
          /\ EApproval.why \notin {"no_recipient", "invalid_price", "non_usdc"}
          /\ eval.asked[1].preflight[1].decision # None
    THEN eval.asked[1].preflight[1].decision[1]
  ELSE EApproval.verdict

-----------------------------------------------------------------------------
(* log-inclusion.ts.                                                       *)

\* verifyReceiptInLog of a receipt that has a leaf.
LogVerdict(leaf, opt, answer) ==
  LET trust == ResolveTrust(opt.pin, answer.descriptor, opt.trustDescriptorKeys)
      says(valid, pending, tofu) == [valid |-> valid, pending |-> pending, tofu |-> tofu]
  IN IF (answer.descriptor = None /\ opt.pin = None) \/ trust = None THEN says(FALSE, FALSE, FALSE)
     ELSE IF answer.proof = "not_merged" THEN says(FALSE, TRUE, trust[1].tofu)
     ELSE IF answer.proof = "fails" THEN says(FALSE, FALSE, trust[1].tofu)
     ELSE says(InclusionHolds({leaf}, answer.path[1], answer.sth, trust[1].trusted), FALSE,
               trust[1].tofu)

\* Slip: a verdict over the log's own keys is taken before it is refused.
LogInclusionUnpinned(policy, verdict) ==
  IF verdict.pending THEN policy.onPending = "allow" ELSE verdict.valid

\* evaluateLogInclusion of a verdict: no reason to deny.
LogInclusionAllows(policy, verdict) ==
  IF verdict.pending THEN policy.onPending = "allow"
  ELSE verdict.valid /\ ~(verdict.tofu /\ policy.refuseTofu)

\* evaluateLogInclusion ends: a soft policy annotates and never denies.
LogEnds(e, allows) == EEnds(e, e.approved /\ (allows \/ ~EOpt.logPolicy[1].hard))

-----------------------------------------------------------------------------
ERequired == ~EApproval.unevaluated /\ RequiresReceipt(EOpt.receipt, EDecision, EPrice)

\* shouldAttemptPathAReceipt
EWanted == EDecision # "block" /\ (EOpt.autoReceipt \/ RequiresReceipt(EOpt.receipt, EDecision, EPrice))

EQuick ==
  /\ EOpt.escalate # None /\ EOpt.x402
  /\ EApproval.scored /\ ~EApproval.unevaluated /\ EApproval.approved
  /\ PayTo(eval.req) # None
  /\ EDecision = "warn"
  /\ (IF EPrice = None THEN 0 ELSE EPrice[1]) >= EOpt.escalate[1].min

EAttempts == EApproval.scored /\ EWanted /\ ~EQuick

HardRequired == ERequired /\ EOpt.receipt[1].hard

Evaluates ==
  /\ eval = EvalIdle
  /\ \E req \in Reqs, opt \in EvalOptions, preflight \in Preflights, lookup \in Lookups :
       LET asked == [eval EXCEPT !.req = req, !.opt = <<opt>>]
           approval == ApprovePayment(Context(req), opt.cfg, preflight, lookup)
       IN IF Conflicted(req) THEN EEnds(asked, FALSE)
          ELSE eval' = [asked EXCEPT !.at = "free", !.approved = approval.approved,
                          !.asked = <<[preflight |-> preflight, lookup |-> lookup]>>,
                          !.approval = <<approval>>]

QuickFloor == IF EOpt.escalate[1].floor = None THEN EOpt.cfg.minScore ELSE EOpt.escalate[1].floor[1]

\* The quick hop always ends the evaluation, whether it answered with a score or not.
Escalates ==
  /\ eval.at = "free" /\ EQuick
  /\ \/ EEnds(EBought("quick"), eval.approved)
     \/ \E score \in {QuickFloor - 1, QuickFloor} :
          EEnds([EBought("quick") EXCEPT !.score = <<score>>], score >= QuickFloor)

\* No receipt came of an attempt that a policy asks about, or none was attempted.
WithoutReceipt(e) ==
  IF EOpt.logPolicy # None /\ EAttempts THEN LogEnds(e, FALSE) ELSE EEnds(e, e.approved)

\* Slip: a hard requirement falls back to the free decision.
EMissedSoftly(e) == WithoutReceipt(e)

EMissed(e) == IF HardRequired THEN EEnds(e, FALSE) ELSE WithoutReceipt(e)

\* The paid hop; it is taken for a payment already refused as well.  A 200 is
\* an answer with a receipt in it or without one.
BuysReceipt ==
  /\ eval.at = "free" /\ EAttempts /\ EOpt.x402 /\ PayTo(eval.req) # None
  /\ \/ EMissed(EBought("receipt"))
     \/ \E receipt \in Receipts :
          LET e == [EBought("receipt") EXCEPT !.receipt = receipt, !.answered = TRUE]
          IN IF EOpt.logPolicy = None THEN EEnds(e, e.approved)
             ELSE IF receipt = None \/ ~EOpt.logPolicy[1].wired THEN LogEnds(e, FALSE)
             ELSE eval' = [e EXCEPT !.at = "proving"]

SkipsReceipt ==
  /\ eval.at = "free" /\ ~EQuick
  /\ ~(EAttempts /\ EOpt.x402 /\ PayTo(eval.req) # None)
  /\ IF ~EOpt.x402 THEN EMissed(eval) ELSE WithoutReceipt(eval)

\* The awaited verifier; a receipt without a leaf makes it throw.
ProvesReceipt ==
  /\ eval.at = "proving"
  /\ IF eval.receipt[1].leaf = None THEN LogEnds(eval, FALSE)
     ELSE \E reply \in LogAnswers :
            LogEnds([eval EXCEPT !.log = <<reply>>],
                    LogInclusionAllows(EOpt.logPolicy[1], LogVerdict(eval.receipt[1].leaf[1], EOpt, reply)))

EvalInit == eval = EvalIdle
EvalNext == Evaluates \/ Escalates \/ BuysReceipt \/ SkipsReceipt \/ ProvesReceipt
-----------------------------------------------------------------------------
EvalTypeOK ==
  /\ eval.at \in {"idle", "free", "proving", "done"}
  /\ Len(eval.hops) <= 1
  /\ eval.receipt # None => eval.hops = <<"receipt">>

\* A paid answer never turns a free refusal around.
OnlyTightens == EApproval.approved

\* The paid hop of the case was taken.  A score that came of the quick hop is
\* the decision; without one the free decision stands, and no receipt is asked
\* for.  A receipt that is hard required was answered for by a 200.
RequiredHopTaken ==
  /\ EQuick => eval.hops = <<"quick">> /\ (eval.score # None => eval.score[1] >= QuickFloor)
  /\ HardRequired /\ EApproval.scored /\ ~EQuick => eval.answered

StrictLogPolicy ==
  /\ EOpt.logPolicy # None /\ EOpt.logPolicy[1].hard
  /\ EOpt.logPolicy[1].onPending = "deny" /\ EOpt.logPolicy[1].refuseTofu

\* The receipt's leaf is an entry of the tree under a head the pinned log signed.
ReceiptIsLogged ==
  /\ eval.receipt # None
  /\ \E hist \in Histories, h \in Genuine :
       Describes(hist, h) /\ eval.receipt[1].leaf[1] \in ToSet(SubSeq(hist, 1, h.tree_size))

(* An evaluation approves only a payment the free decision approved.  Where a
   warn is escalated, the quick hop was paid for, and a score that came of it is
   at least the floor; an escalation without a score approves as the free decision
   did, also where a receipt is hard required.  Where one is and nothing is
   escalated, the seller being scored, the receipt's endpoint answered with a 200,
   which need not hold a receipt.  Under a strict log policy an attempt ended with
   a receipt that is in the log its operator pinned, whatever the log answers for
   itself. *)
ApprovalIsEarned ==
  eval.at = "done" /\ eval.approved =>
    /\ OnlyTightens
    /\ RequiredHopTaken
    /\ StrictLogPolicy /\ EAttempts => ReceiptIsLogged
=============================================================================
