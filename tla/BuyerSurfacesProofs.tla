-------------------------- MODULE BuyerSurfacesProofs --------------------------
(***************************************************************************)
(* The machines of BuyerSurfaces, for any number of observers and calls,   *)
(* any payloads, heads, items and answers.  Each machine is reasoned about *)
(* under a specification of its own, which Spec implies because no step of *)
(* one machine moves another.                                              *)
(***************************************************************************)
EXTENDS BuyerSurfaces, Inductions

-----------------------------------------------------------------------------
(* Each machine runs as it would alone.                                     *)

PinSpec == PinInit /\ [][PinNext]_pinVars
GateSpec == GateInit /\ [][GateNext]_gateVars
EvalSpec == EvalInit /\ [][EvalNext]_evalVars
MppSpec == MppInit /\ [][MppNext]_mppVars
DeskSpec == DeskInit /\ [][DeskNext]_deskVars
SettleSpec == SettleInit /\ [][SettleNext]_settleVars
SafeSpec == SafeInit /\ [][SafeNext]_safeVars
ColdSpec == ColdInit /\ [][ColdNext]_coldVars
CommandSpec == CommandInit /\ [][CommandNext]_commandVars
EvidenceSpec == EvidenceInit /\ [][EvidenceNext]_evidenceVars
BindSpec == BindInit /\ [][BindNext]_bindVars
FulfilSpec == FulfilInit /\ [][FulfilNext]_fulfilVars
WrapSpec == WrapInit /\ [][WrapNext]_wrapVars
CounselSpec == CounselInit /\ [][CounselNext]_counselVars

(* A step of the whole is a step of one machine, and moves no other. *)
LEMMA MachinesMove ==
  ASSUME [Next]_vars
  PROVE  /\ [PinNext]_pinVars /\ [GateNext]_gateVars /\ [EvalNext]_evalVars
         /\ [MppNext]_mppVars /\ [DeskNext]_deskVars /\ [SettleNext]_settleVars
         /\ [SafeNext]_safeVars /\ [ColdNext]_coldVars /\ [CommandNext]_commandVars
         /\ [EvidenceNext]_evidenceVars /\ [BindNext]_bindVars /\ [FulfilNext]_fulfilVars
         /\ [WrapNext]_wrapVars /\ [CounselNext]_counselVars
<1>1. CASE UNCHANGED vars
  BY <1>1 DEF vars
<1>2. CASE Next
  BY <1>2 DEF Next, Resting, Monitor, PreSignHook, Evaluation, Charge, VaultSigner, Settlement,
     PreCheck, Probing, Command, Publication, Binding, Fulfilment, Wrapping, Counselling
<1>3. QED
  BY <1>1, <1>2

(* So a behaviour of the whole is one of every machine. *)
LEMMA MachinesRun ==
  Spec => /\ PinSpec /\ GateSpec /\ EvalSpec /\ MppSpec /\ DeskSpec /\ SettleSpec /\ SafeSpec
          /\ ColdSpec /\ CommandSpec /\ EvidenceSpec /\ BindSpec /\ FulfilSpec /\ WrapSpec
          /\ CounselSpec
<1>1. Init => /\ PinInit /\ GateInit /\ EvalInit /\ MppInit /\ DeskInit /\ SettleInit /\ SafeInit
              /\ ColdInit /\ CommandInit /\ EvidenceInit /\ BindInit /\ FulfilInit /\ WrapInit
              /\ CounselInit
  BY DEF Init
<1>2. QED
  BY <1>1, MachinesMove, PTL DEF Spec, PinSpec, GateSpec, EvalSpec, MppSpec, DeskSpec, SettleSpec,
     SafeSpec, ColdSpec, CommandSpec, EvidenceSpec, BindSpec, FulfilSpec, WrapSpec, CounselSpec

-----------------------------------------------------------------------------
(* The seller's settle guard, for any payloads, screens and options. *)

GuardOpt == settle.opt[1]
GuardPay == settle.pay[1]

\* Nothing was answered or reported yet.
Unanswered == settle.answer = None /\ settle.reports = <<>>

\* The budget ran out: the answer is the guard's way to fail, and reported.
TimedOut ==
  /\ settle.answer = <<~FailsOpen(GuardOpt)>>
  /\ \E payer : settle.reports =
       <<[abort |-> ~FailsOpen(GuardOpt), reason |-> "screen_timeout", payer |-> payer]>>

\* The fields of the guard, and how far it has come.
GuardFields == {"at", "pay", "opt", "screen", "payer", "answer", "reports"}

GuardProgress ==
  \/ settle.at = "idle" /\ settle = SettleIdle
  \/ settle.at = "extracting" /\ GuardPay \in Payments /\ settle.payer = None
       /\ (Unanswered \/ TimedOut)
  \/ settle.at = "screening" /\ GuardPay \in Payments
       /\ settle.payer = ExtractPayer(GuardPay, GuardOpt.peer) /\ settle.payer # None
       /\ (Unanswered \/ TimedOut)
  \/ settle.at = "ended" /\ SettlesOnEvidence

SettleInv ==
  /\ settle = [f \in GuardFields |-> settle[f]]
  /\ GuardProgress

-----------------------------------------------------------------------------
(* A payer that is taken from a payload with a signed scheme is one that the
   scheme names, never an alias beside it. *)
LEMMA SignedPayer ==
  ASSUME NEW pay \in Payments, NEW peer, Authoritative(pay), ExtractPayer(pay, peer) # None
  PROVE  ExtractPayer(pay, peer)[1] \in Signers(pay)
<1>1. ASSUME NEW scheme \in {pay.authorization, pay.permit2, pay.transaction},
             WalletIn(scheme) # None
      PROVE  WalletIn(scheme)[1] \in Signers(pay)
  <2>1. DOMAIN WalletIn(scheme) = {1}
    BY <1>1, PaymentsAssumption DEF WalletIn
  <2>2. WalletIn(scheme)[1] \in ToSet(WalletIn(scheme))
    BY <2>1 DEF ToSet
  <2>3. QED
    BY <2>2 DEF Signers
<1>2. \E scheme \in {pay.authorization, pay.permit2, pay.transaction} :
        WalletIn(scheme) # None /\ ExtractPayer(pay, peer) = WalletIn(scheme)
  BY DEF ExtractPayer, Or, SvmPayer, Authoritative
<1>3. QED
  BY <1>1, <1>2

-----------------------------------------------------------------------------
(* What a decision needs when it is the one that counts.                    *)

\* The decision rests on what is known of the payer.
Grounded(abort, reason) ==
  /\ ~FailsOpen(GuardOpt) /\ ~abort =>
       /\ settle.payer # None
       /\ Authoritative(GuardPay) => settle.payer[1] \in Signers(GuardPay)
       /\ PassedScreen(settle.payer[1]) /\ reason = "payer_ok"
  /\ FailsOpen(GuardOpt) /\ abort => settle.payer # None /\ Incriminated(settle.payer[1], reason)

(* To fail the way the guard was told to fail needs no evidence. *)
LEMMA FailsGrounded ==
  ASSUME NEW reason
  PROVE  (~FailsOpen(GuardOpt)) \in BOOLEAN /\ Grounded(~FailsOpen(GuardOpt), reason)
<1>1. (~FailsOpen(GuardOpt)) \in BOOLEAN
  OBVIOUS
<1>2. Grounded(~FailsOpen(GuardOpt), reason)
  BY DEF Grounded
<1>3. QED
  BY <1>1, <1>2

(* A guard that gave up answered so; what is reported after it is no decision. *)
LEMMA GivenUp ==
  ASSUME TimedOut
  PROVE  /\ settle.answer # None /\ settle.reports[1].abort = settle.answer[1]
         /\ settle.answer[1] <=> ~FailsOpen(GuardOpt)
         /\ Len(settle.reports) = 1
<1>1. PICK payer : settle.reports =
        <<[abort |-> ~FailsOpen(GuardOpt), reason |-> "screen_timeout", payer |-> payer]>>
  BY DEF TimedOut
<1>2. settle.answer = <<~FailsOpen(GuardOpt)>>
  BY DEF TimedOut
<1>3. settle.reports[1].abort = settle.answer[1] /\ settle.answer # None
  BY <1>1, <1>2 DEF None
<1>4. Len(settle.reports) = 1
  BY <1>1
<1>5. settle.answer[1] = ~FailsOpen(GuardOpt)
  BY <1>2
<1>6. settle.answer[1] <=> ~FailsOpen(GuardOpt)
  BY <1>5
<1>7. QED
  BY <1>3, <1>4, <1>6

\* The fields a step that ends the guard or spends its budget leaves alone.
SameCall ==
  /\ settle'.pay = settle.pay /\ settle'.opt = settle.opt
  /\ settle'.screen = settle.screen /\ settle'.payer = settle.payer

(* While nothing changes of the call, neither does what is known of a wallet. *)
LEMMA SameKnowledge ==
  ASSUME SameCall, NEW wallet, NEW reason
  PROVE  (PassedScreen(wallet)' <=> PassedScreen(wallet)) /\ (Incriminated(wallet, reason)' <=> Incriminated(wallet, reason))
BY DEF SameCall, PassedScreen, Incriminated, Says

(* The first report is the only one. *)
LEMMA FirstReport ==
  ASSUME NEW report
  PROVE  Append(<<>>, report) = <<report>>
OBVIOUS

(* A report that comes after the budget does not change the decision; one
   that comes in time is the decision. *)
LEMMA ConcludesGood ==
  ASSUME SettleInv, settle.at \in {"extracting", "screening"}, NEW abort \in BOOLEAN, NEW reason,
         Concludes(abort, reason), settle.answer = None => Grounded(abort, reason)
  PROVE  SettleInv'
<1> USE DEF SettleInv, GuardFields
<1>1. settle' = [f \in GuardFields |-> settle'[f]]
  BY DEF Concludes
<1>2. SameCall /\ settle'.at = "ended"
  BY DEF Concludes, SameCall
<1>3. CASE Unanswered
  <2>1. settle'.answer = <<abort>>
    BY <1>3 DEF Concludes, Unanswered, Or
  <2>2. settle'.reports = <<Report(abort, reason)>>
    <3>1. settle'.reports = Append(<<>>, Report(abort, reason))
      BY <1>3 DEF Concludes, Unanswered
    <3>2. QED
      BY <3>1, FirstReport
  <2>3. /\ settle'.reports[1].abort = abort /\ settle'.reports[1].payer = settle'.payer
        /\ settle'.reports[1].reason = reason /\ Len(settle'.reports) = 1
    BY <2>2, <1>2 DEF Report, SameCall
  <2>4. Grounded(abort, reason)
    BY <1>3 DEF Unanswered
  <2>5. /\ PassedScreen(settle.payer[1])' <=> PassedScreen(settle.payer[1])
        /\ Incriminated(settle.payer[1], reason)' <=> Incriminated(settle.payer[1], reason)
    BY <1>2 DEF SameCall, PassedScreen, Incriminated, Says
  <2>6. SettlesOnEvidence'
    BY <2>1, <2>3, <2>4, <2>5, <1>2 DEF SettlesOnEvidence, Grounded, SameCall, GuardOpt, GuardPay
  <2>7. QED
    BY <1>1, <1>2, <2>6 DEF GuardProgress
<1>4. CASE TimedOut
  <2>1. settle'.answer = settle.answer
    BY <1>4 DEF Concludes, TimedOut, Or, None
  <2>2. PICK payer : settle.reports =
          <<[abort |-> ~FailsOpen(GuardOpt), reason |-> "screen_timeout", payer |-> payer]>>
    BY <1>4 DEF TimedOut
  <2>3. settle'.reports = Append(settle.reports, Report(abort, reason))
    BY DEF Concludes
  <2>4. settle'.reports[1] = settle.reports[1]
    BY <2>2, <2>3
  <2>5. /\ settle'.reports[1].abort = ~FailsOpen(GuardOpt) 
        /\ settle'.reports[1].reason = "screen_timeout"
    BY <2>2, <2>4
  <2>6. settle'.answer[1] = ~FailsOpen(GuardOpt)
    BY <2>1, <1>4 DEF TimedOut
  <2>7. SettlesOnEvidence'
    BY <2>5, <2>6, <1>2 DEF SettlesOnEvidence, SameCall, GuardOpt
  <2>8. QED
    BY <1>1, <1>2, <2>7 DEF GuardProgress
<1>5. QED
  BY <1>3, <1>4 DEF GuardProgress

-----------------------------------------------------------------------------
(* The steps of the guard.                                                  *)

\* A payload is presented to an idle guard: nothing is decided yet.
LEMMA PresentedGood ==
  ASSUME SettleInv, Presented
  PROVE  SettleInv'
<1>1. PICK pay \in Payments, opt \in SettleOptions, screen \in Screens :
        settle' = [SettleIdle EXCEPT !.at = "extracting", !.pay = <<pay>>, !.opt = <<opt>>,
                                     !.screen = <<screen>>]
  BY DEF Presented
<1>2. settle' = [f \in GuardFields |-> settle'[f]]
  BY <1>1 DEF SettleIdle, GuardFields
<1>3. /\ settle'.at = "extracting" /\ settle'.pay = <<pay>> /\ settle'.payer = None
      /\ settle'.answer = None /\ settle'.reports = <<>>
  BY <1>1 DEF SettleIdle
<1>4. GuardPay' \in Payments /\ Unanswered'
  BY <1>3 DEF GuardPay, Unanswered
<1>5. QED
  BY <1>2, <1>3, <1>4 DEF SettleInv, GuardProgress

(* Without a payer there is nothing to be incriminated. *)
LEMMA ExtractsGood ==
  ASSUME SettleInv, Extracts
  PROVE  SettleInv'
<1>1. settle.at = "extracting" /\ settle.payer = None
  BY DEF SettleInv, GuardProgress, Extracts
<1>2. CASE ExtractPayer(GuardPay, GuardOpt.peer) = None
  <2>1. PICK reason : Concludes(~FailsOpen(GuardOpt), reason)
    BY <1>2 DEF Extracts, WithoutScreen, GuardPay, GuardOpt
  <2>2. (~FailsOpen(GuardOpt)) \in BOOLEAN /\ Grounded(~FailsOpen(GuardOpt), reason)
    BY FailsGrounded
  <2>3. QED
    BY <1>1, <2>1, <2>2, ConcludesGood
<1>3. CASE ExtractPayer(GuardPay, GuardOpt.peer) # None
  <2>1. settle' = [settle EXCEPT !.at = "screening", !.payer = ExtractPayer(GuardPay, GuardOpt.peer)]
    BY <1>3 DEF Extracts, GuardPay, GuardOpt
  <2>2. settle' = [f \in GuardFields |-> settle'[f]]
    BY <2>1 DEF SettleInv, GuardFields
  <2>3. /\ settle'.at = "screening" /\ settle'.pay = settle.pay /\ settle'.opt = settle.opt
        /\ settle'.payer = ExtractPayer(GuardPay, GuardOpt.peer)
        /\ settle'.answer = settle.answer /\ settle'.reports = settle.reports
    BY <2>1 DEF SettleInv, GuardFields
  <2>4. GuardPay \in Payments /\ (Unanswered \/ TimedOut)
    BY <1>1 DEF SettleInv, GuardProgress
  <2>5. GuardProgress'
    BY <1>3, <2>3, <2>4 DEF GuardProgress, GuardPay, GuardOpt, Unanswered, TimedOut
  <2>6. QED
    BY <2>2, <2>5 DEF SettleInv
<1>4. QED
  BY <1>2, <1>3

\* The payer that is screened is the payload's own.
LEMMA ScreenedPayer ==
  ASSUME SettleInv, settle.at = "screening"
  PROVE  /\ settle.payer # None
         /\ Authoritative(GuardPay) => settle.payer[1] \in Signers(GuardPay)
BY SignedPayer DEF SettleInv, GuardProgress

(* The screen's answer is what is known of the wallet. *)
LEMMA ScreenAnswersGood ==
  ASSUME SettleInv, ScreenAnswers
  PROVE  SettleInv'
<1>1. settle.at = "screening"
  BY DEF ScreenAnswers
<1> DEFINE screen == Says(settle.payer[1])
           reason == AbortReason(screen[1], GuardOpt)
<1>2. CASE screen = None
  <2>1. Concludes(~FailsOpen(GuardOpt), "screen_unavailable")
    BY <1>2 DEF ScreenAnswers, WithoutScreen, GuardOpt
  <2>2. (~FailsOpen(GuardOpt)) \in BOOLEAN /\ Grounded(~FailsOpen(GuardOpt), "screen_unavailable")
    BY FailsGrounded
  <2>3. QED
    BY <1>1, <2>1, <2>2, ConcludesGood
<1>3. CASE screen # None
  <2>1. Concludes(reason # None, IF reason = None THEN "payer_ok" ELSE reason[1])
    BY <1>3 DEF ScreenAnswers, GuardOpt
  <2>2. /\ PassedScreen(settle.payer[1]) <=> reason = None
        /\ reason # None => Incriminated(settle.payer[1], reason[1])
    <3>1. reason # None => reason = <<reason[1]>>
      BY DEF AbortReason
    <3>2. QED
      BY <1>3, <3>1 DEF PassedScreen, Incriminated, GuardOpt
  <2>3. /\ (reason # None) \in BOOLEAN
        /\ Grounded(reason # None, IF reason = None THEN "payer_ok" ELSE reason[1])
    BY <1>1, <2>2, ScreenedPayer DEF Grounded
  <2>4. QED
    BY <1>1, <2>1, <2>3, ConcludesGood
<1>4. QED
  BY <1>2, <1>3

(* A screen that throws in time is a failure; later it is nobody's. *)
LEMMA ScreenThrowsGood ==
  ASSUME SettleInv, ScreenThrows
  PROVE  SettleInv'
<1>1. settle.at = "screening"
  BY DEF ScreenThrows
<1>2. CASE settle.answer = None
  <2>1. Concludes(~FailsOpen(GuardOpt), "screen_error")
    BY <1>2 DEF ScreenThrows, WithoutScreen, GuardOpt
  <2>2. (~FailsOpen(GuardOpt)) \in BOOLEAN /\ Grounded(~FailsOpen(GuardOpt), "screen_error")
    BY FailsGrounded
  <2>3. QED
    BY <1>1, <2>1, <2>2, ConcludesGood
<1>3. CASE settle.answer # None
  <2>1. settle' = [settle EXCEPT !.at = "ended"]
    BY <1>3 DEF ScreenThrows
  <2>2. settle' = [f \in GuardFields |-> settle'[f]]
    BY <2>1 DEF SettleInv, GuardFields
  <2>3. /\ settle'.at = "ended" /\ settle'.opt = settle.opt
        /\ settle'.answer = settle.answer /\ settle'.reports = settle.reports
    BY <2>1 DEF SettleInv, GuardFields
  <2>4. TimedOut
    BY <1>1, <1>3 DEF SettleInv, GuardProgress, Unanswered
  <2>5. SettlesOnEvidence'
    <3>1. /\ settle'.answer[1] <=> ~FailsOpen(GuardOpt)
          /\ settle'.reports[1].abort = settle'.answer[1] /\ Len(settle'.reports) = 1
      BY <2>3, <2>4, GivenUp
    <3>2. QED
      BY <2>3, <3>1 DEF SettlesOnEvidence, GuardOpt
  <2>6. QED
    BY <2>2, <2>3, <2>5 DEF SettleInv, GuardProgress
<1>4. QED
  BY <1>2, <1>3

(* The budget answers with the way the guard fails, and takes nothing back. *)
LEMMA TimesOutGood ==
  ASSUME SettleInv, TimesOut
  PROVE  SettleInv'
<1>1. Unanswered
  <2>1. settle.at \in {"extracting", "screening"} /\ settle.answer = None
    BY DEF TimesOut
  <2>2. Unanswered \/ TimedOut
    BY <2>1 DEF SettleInv, GuardProgress
  <2>3. QED
    BY <2>1, <2>2, GivenUp
<1>2. settle' = [settle EXCEPT !.answer = <<~FailsOpen(GuardOpt)>>,
                   !.reports = Append(@, Report(~FailsOpen(GuardOpt), "screen_timeout"))]
  BY DEF TimesOut, GuardOpt
<1>3. settle' = [f \in GuardFields |-> settle'[f]]
  BY <1>2 DEF SettleInv, GuardFields
<1>4. /\ settle'.at = settle.at /\ settle'.pay = settle.pay /\ settle'.opt = settle.opt
      /\ settle'.payer = settle.payer /\ settle'.answer = <<~FailsOpen(GuardOpt)>>
      /\ settle'.reports = Append(<<>>, Report(~FailsOpen(GuardOpt), "screen_timeout"))
  BY <1>1, <1>2 DEF SettleInv, GuardFields, Unanswered
<1>5. settle'.reports = <<Report(~FailsOpen(GuardOpt), "screen_timeout")>>
  BY <1>4, FirstReport
<1>6. TimedOut'
  BY <1>4, <1>5 DEF TimedOut, Report, GuardOpt
<1>7. GuardProgress'
  BY <1>4, <1>6 DEF SettleInv, GuardProgress, TimesOut, GuardPay, GuardOpt
<1>8. QED
  BY <1>3, <1>7 DEF SettleInv

-----------------------------------------------------------------------------
(* createTwzrdSettleGuard settles on evidence: one that fails closed settles only
   a payer whom its screen answered for and cleared, within the budget, and one
   that fails open aborts only on such an answer; a late report never changes the
   decision that was taken. *)
THEOREM DecidesOnEvidence == SettleSpec => []SettlesOnEvidence
<1>1. SettleInit => SettleInv
  BY DEF SettleInit, SettleIdle, SettleInv, GuardProgress, GuardFields
<1>2. SettleInv /\ [SettleNext]_settleVars => SettleInv'
  <2> SUFFICES ASSUME SettleInv, [SettleNext]_settleVars PROVE SettleInv'
    OBVIOUS
  <2>1. CASE Presented
    BY <2>1, PresentedGood
  <2>2. CASE Extracts
    BY <2>2, ExtractsGood
  <2>3. CASE ScreenAnswers
    BY <2>3, ScreenAnswersGood
  <2>4. CASE ScreenThrows
    BY <2>4, ScreenThrowsGood
  <2>5. CASE TimesOut
    BY <2>5, TimesOutGood
  <2>6. CASE UNCHANGED settleVars
    BY <2>6 DEF SettleInv, GuardProgress, Unanswered, TimedOut, GuardPay, GuardOpt, SettlesOnEvidence, PassedScreen,
                Incriminated, Says, settleVars
  <2>7. QED
    BY <2>1, <2>2, <2>3, <2>4, <2>5, <2>6 DEF SettleNext
<1>3. SettleInv => SettlesOnEvidence
  <2>1. CASE settle.at = "ended" \/ settle.answer = None
    BY <2>1 DEF SettleInv, GuardProgress, SettlesOnEvidence
  <2>2. CASE TimedOut
    BY <2>2, GivenUp DEF SettlesOnEvidence, GuardOpt
  <2>3. QED
    BY <2>1, <2>2 DEF SettleInv, GuardProgress, Unanswered, SettleIdle
<1>4. QED
  BY <1>1, <1>2, <1>3, PTL DEF SettleSpec

-----------------------------------------------------------------------------
(* The monitor's pin store, for any number of observations, any heads and
   any answers of the log's consistency endpoint. *)

-----------------------------------------------------------------------------
(* What merkle.ts makes of the histories: a tree's entries are the first of the
   history, as many as its size. *)
LEMMA FirstEntries ==
  ASSUME NEW hist \in Histories, NEW n \in 0 .. Len(hist)
  PROVE  /\ Len(hist) \in Nat /\ SubSeq(hist, 1, n) \in Seq(ToSet(hist)) /\ Len(SubSeq(hist, 1, n)) = n
         /\ SubSeq(hist, 1, n) = [i \in 1 .. n |-> hist[i]]
<1>1. hist \in Seq(ToSet(hist)) /\ Len(hist) \in Nat
  BY HistoriesAssumption, LenProperties DEF IsList
<1>2. 1 \in 1 .. Len(hist) + 1 /\ n \in 1 - 1 .. Len(hist)
  BY <1>1
<1>3. /\ SubSeq(hist, 1, n) \in Seq(ToSet(hist))
      /\ Len(SubSeq(hist, 1, n)) = n
      /\ SubSeq(hist, 1, n) = [i \in 1 .. n |-> hist[i]]
  <2> DEFINE prefix == SubSeq(hist, 1, n)
  <2>0. n \in Int /\ \A i \in 1 .. n : hist[i] \in ToSet(hist)
    BY <1>1, ElementOfSeq
  <2>1. prefix \in Seq(ToSet(hist)) /\ Len(prefix) = (IF 1 <= n THEN n - 1 + 1 ELSE 0)
        /\ \A i \in 1 .. n - 1 + 1 : prefix[i] = hist[1 + i - 1]
    BY <2>0, SubSeqProperties
  <2>2. DOMAIN prefix = 1 .. Len(prefix) /\ prefix = [i \in 1 .. Len(prefix) |-> prefix[i]]
    BY <2>1, LenProperties
  <2> HIDE DEF prefix
  <2>3. Len(prefix) = n /\ \A i \in 1 .. n : prefix[i] = hist[i]
    BY <1>1, <2>1
  <2>4. prefix = [i \in 1 .. n |-> hist[i]]
    BY <2>2, <2>3
  <2>5. QED
    BY <2>1, <2>3, <2>4 DEF prefix
<1>4. QED
  BY <1>1, <1>3

(* An inclusion proof that verifies against a history's root is of the entry at its index. *)
LEMMA InclusionsAreSound ==
  ASSUME NEW hist \in Histories, NEW n \in 0 .. Len(hist), NEW leaf, NEW index, NEW path, IsList(path),
         VerifyInclusion(leaf, index, n, path, RootAt(hist, n))
  PROVE  index \in 0 .. n - 1 /\ leaf = hist[index + 1] /\ leaf \in ToSet(SubSeq(hist, 1, n))
<1> DEFINE tree == SubSeq(hist, 1, n)
<1>1. Len(tree) = n /\ Len(tree) \in Nat /\ tree \in Seq(ToSet(hist))
  BY FirstEntries
<1>2. Len(path) \in Nat
  BY LenProperties DEF IsList
<1> HIDE DEF tree
<1>3. VerifyInclusion(leaf, index, Len(tree), path, MerkleRoot(tree))
  BY <1>1 DEF RootAt, tree
<1>4. index \in 0 .. n - 1 /\ tree[index + 1] = leaf
  BY <1>1, <1>2, <1>3, InclusionIsSound
<1>5. index + 1 \in 1 .. n /\ index + 1 \in DOMAIN tree
  BY <1>1, <1>4, LenProperties
<1>6. leaf \in ToSet(tree)
  BY <1>4, <1>5 DEF ToSet
<1>7. tree[index + 1] = hist[index + 1]
  BY <1>1, <1>5 DEF tree
<1>8. QED
  BY <1>4, <1>6, <1>7 DEF tree

(* A consistency proof that verifies against the roots of two histories is of
   histories that begin alike. *)
LEMMA ProofsAreSound ==
  ASSUME NEW one \in Histories, NEW a \in 0 .. Len(one), NEW hist \in Histories, NEW b \in 0 .. Len(hist),
         NEW path, IsList(path), VerifyConsistency(a, RootAt(one, a), b, RootAt(hist, b), path)
  PROVE  a <= b /\ RootAt(hist, a) = RootAt(one, a)
<1> DEFINE A == SubSeq(one, 1, a)
           B == SubSeq(hist, 1, b)
<1>1. /\ Len(A) = a /\ Len(A) \in Nat /\ A = [i \in 1 .. a |-> one[i]]
      /\ Len(B) = b /\ Len(B) \in Nat /\ B = [i \in 1 .. b |-> hist[i]]
  BY FirstEntries
<1> HIDE DEF A, B
<1>2. VerifyConsistency(Len(A), MerkleRoot(A), Len(B), MerkleRoot(B), path)
  BY <1>1 DEF RootAt, A, B
<1>3. Len(A) <= Len(B) /\ AgreesTo(A, B, Len(A))
  <2>1. path \in Seq(ToSet(path))
    BY DEF IsList
  <2>2. QED
    BY <1>1, <1>2, <2>1, ConsistencyIsSound
<1>4. a <= b /\ a \in 0 .. Len(hist)
  <2>1. Len(hist) \in Nat
    BY FirstEntries
  <2>2. QED
    BY <1>1, <1>3, <2>1
<1>5. SubSeq(hist, 1, a) = [i \in 1 .. a |-> hist[i]]
  BY <1>4, FirstEntries
<1>6. \A i \in 1 .. a : hist[i] = one[i]
  BY <1>1, <1>3, <1>4 DEF AgreesTo
<1>7. SubSeq(hist, 1, a) = A
  BY <1>1, <1>5, <1>6
<1>8. QED
  BY <1>4, <1>7 DEF RootAt, A

(* The proof that the log makes of two trees of a history verifies. *)
LEMMA ProofsAreComplete ==
  ASSUME NEW hist \in Histories, NEW b \in 0 .. Len(hist), NEW a \in 0 .. b
  PROVE  VerifyConsistency(a, RootAt(hist, a), b, RootAt(hist, b), ConsistencyProof(SubSeq(hist, 1, b), a))
<1> DEFINE A == SubSeq(hist, 1, a)
           B == SubSeq(hist, 1, b)
<1>1. Len(hist) \in Nat /\ Len(hist) <= MaxTreeSize /\ a \in 0 .. Len(hist) /\ a <= b
  <2>1. Len(hist) \in Nat
    BY FirstEntries
  <2>2. QED
    BY <2>1, HistoriesAssumption
<1>2. /\ Len(A) = a /\ Len(A) \in Nat /\ A = [i \in 1 .. a |-> hist[i]]
      /\ Len(B) = b /\ Len(B) \in Nat /\ B = [i \in 1 .. b |-> hist[i]]
  BY <1>1, FirstEntries
<1> HIDE DEF A, B
<1>3. Len(A) <= Len(B) /\ Len(B) <= MaxTreeSize
  <2>1. b \in Nat /\ b <= Len(hist)
    BY <1>1
  <2>2. MaxTreeSize \in Int
    BY SMT DEF MaxTreeSize
  <2>3. QED
    BY <1>1, <1>2, <2>1, <2>2
<1>4. AgreesTo(A, B, Len(A))
  BY <1>1, <1>2 DEF AgreesTo
<1>5. VerifyConsistency(Len(A), MerkleRoot(A), Len(B), MerkleRoot(B), ConsistencyProof(B, Len(A)))
  BY <1>2, <1>3, <1>4, ConsistencyIsComplete
<1>6. QED
  BY <1>2, <1>5 DEF RootAt, A, B

(* A head that extends another is of every history the newer one is of. *)
LEMMA ExtensionIncludes ==
  ASSUME NEW a \in Heads, NEW b \in Heads, NEW path \in Paths,
         ProvesExtension(a, b, Trusted, <<path>>), b.tree_size > a.tree_size,
         NEW hist \in Histories, Describes(hist, b)
  PROVE  Describes(hist, a)
<1>1. Valid(a) /\ Valid(b)
  BY DEF ProvesExtension, Valid
<1>2. a \in Genuine /\ b \in Genuine
  BY <1>1, SignedAssumption DEF Valid
<1>3. PICK one \in Histories : Describes(one, a)
  BY <1>2, GenuineAssumption
<1>4. VerifyConsistency(a.tree_size, a.root, b.tree_size, b.root, path)
  <2>1. a.tree_size \in Nat /\ b.tree_size \in Nat /\ ~(b.tree_size < a.tree_size) /\ a.tree_size < b.tree_size
    BY HeadsAssumption
  <2>2. Older(a, b) = a /\ Newer(a, b) = b /\ <<path>>[1] = path
    BY <2>1 DEF Older, Newer
  <2>3. QED
    BY <2>2 DEF ProvesExtension
<1>5. /\ a.tree_size \in 0 .. Len(one) /\ a.root = RootAt(one, a.tree_size)
      /\ b.tree_size \in 0 .. Len(hist) /\ b.root = RootAt(hist, b.tree_size)
  <2>1. a.tree_size \in Nat /\ b.tree_size \in Nat
    BY HeadsAssumption
  <2>2. QED
    BY <1>3, <2>1 DEF Describes
<1>6. a.tree_size <= b.tree_size /\ RootAt(hist, a.tree_size) = RootAt(one, a.tree_size)
  BY <1>4, <1>5, PathsAssumption, ProofsAreSound
<1>7. a.tree_size <= Len(hist)
  <2>1. Len(hist) \in Nat /\ a.tree_size \in Nat /\ b.tree_size \in Nat
    BY <1>5, HeadsAssumption, FirstEntries
  <2>2. QED
    BY <1>5, <1>6, <2>1
<1>8. QED
  BY <1>5, <1>6, <1>7 DEF Describes

(* One observation moves. *)
LEMMA OneMoves ==
  ASSUME PinTypes, NEW o \in Observers, NEW r \in Observations, Becomes(o, r)
  PROVE  /\ obs' \in [Observers -> Observations] /\ obs'[o] = r
         /\ \A p \in Observers \ {o} : obs'[p] = obs[p]
BY DEF PinTypes, Becomes

(* What observe does before its first await, for one head. *)
LEMMA ShownGood ==
  ASSUME PinInv, NEW o \in Observers, NEW h \in Heads, obs[o].at = "idle",
         \/ ShownInvalid(o, h) \/ ShownFirst(o, h) \/ ShownOtherLog(o, h)
         \/ ShownSameSize(o, h) \/ ShownOtherSize(o, h),
         overlapped' \in BOOLEAN,
         overlapped' <=> (overlapped \/ \E p \in Observers : obs[p].at \in UnderWay),
         UNCHANGED <<saved, accepted>>
  PROVE  PinInv'
<1> USE DEF OptionalHead
<1>1. PICK at \in {"error", "unchanged", "equivocation", "pinning", "fetching"},
           bundle \in {None} \cup {<<a, b>> : a \in Heads, b \in Heads} :
        Shown(o, h, at, bundle)
  <2>1. CASE ShownSameSize(o, h)
    <3>1. <<pin[1], h>> \in {<<a, b>> : a \in Heads, b \in Heads}
      BY <2>1 DEF ShownSameSize, OfPinnedLog, PinInv, PinTypes
    <3>2. QED
      BY <2>1, <3>1 DEF ShownSameSize
  <2>2. CASE ShownInvalid(o, h) \/ ShownFirst(o, h) \/ ShownOtherLog(o, h) \/ ShownOtherSize(o, h)
    BY <2>2 DEF ShownInvalid, ShownFirst, ShownOtherLog, ShownOtherSize
  <2>3. QED
    BY <2>1, <2>2
<1> DEFINE r == [at |-> at, head |-> <<h>>, previous |-> pin, path |-> None, bundle |-> bundle]
<1>2. r \in Observations /\ Becomes(o, r)
  BY <1>1 DEF Observations, UnderWay, Shown, PinInv, PinTypes
<1> HIDE DEF r
<1>3. /\ obs' \in [Observers -> Observations] /\ obs'[o] = r
      /\ \A p \in Observers \ {o} : obs'[p] = obs[p]
  BY <1>2, OneMoves DEF PinInv
<1>4. /\ r.at = at /\ r.head = <<h>> /\ r.head[1] = h /\ r.previous = pin /\ r.path = None
  BY DEF r
<1>5. \/ at = "pinning" /\ Valid(h) /\ pin = None /\ pin' = <<h>>
      \/ at = "fetching" /\ pin' = pin /\ pin # None /\ Valid(h) /\ pin[1].log_id = h.log_id
           /\ pin[1].tree_size # h.tree_size
      \/ at \in {"error", "unchanged", "equivocation"} /\ pin' = pin
  <2>1. obs'[o].at = at
    BY <1>3, <1>4
  <2>2. QED
    BY <2>1 DEF ShownInvalid, ShownFirst, ShownOtherLog, ShownSameSize, ShownOtherSize, OfPinnedLog,
              Shown, Becomes, SetPin, Valid, PinInv, PinTypes
<1>6. PinTypes'
  BY <1>3, <1>5 DEF PinInv, PinTypes
<1>7. VerifiedPin'
  BY <1>3, <1>4, <1>5 DEF PinInv, VerifiedPin, None
<1>8. Asked'
  BY <1>3, <1>4, <1>5 DEF PinInv, Asked, Asking, VerifiedPin, None
<1>9. ASSUME ~overlapped' PROVE Alone' /\ Unbroken'
  <2>1. ~overlapped /\ \A p \in Observers : obs[p].at \notin UnderWay
    BY <1>9 DEF PinInv, PinTypes
  <2>2. Alone'
    BY <2>1, <1>3, <1>4, <1>5 DEF Alone, UnderWay
  <2>3. Unbroken'
    BY <2>1, <1>3, <1>4, <1>5 DEF PinInv, Unbroken, Includes, None
  <2>4. QED
    BY <2>2, <2>3
<1>10. QED
  BY <1>6, <1>7, <1>8, <1>9 DEF PinInv

(* An observation that ends without the pin. *)
LEMMA StopsGood ==
  ASSUME PinInv, NEW o \in Observers, NEW r \in Observations, r.at \notin UnderWay, Becomes(o, r),
         UNCHANGED <<pin, saved, accepted, overlapped>>
  PROVE  PinInv'
<1>1. /\ obs' \in [Observers -> Observations] /\ obs'[o] = r
      /\ \A p \in Observers \ {o} : obs'[p] = obs[p]
  BY OneMoves DEF PinInv
<1>2. PinTypes' /\ VerifiedPin' /\ Asked'
  BY <1>1 DEF PinInv, PinTypes, VerifiedPin, Asked, UnderWay, OptionalHead
<1>3. ~overlapped' => Alone' /\ Unbroken'
  BY <1>1 DEF PinInv, Alone, Unbroken, Includes, UnderWay
<1>4. QED
  BY <1>2, <1>3 DEF PinInv

\* The proof arrives: observe convicts, gives up or moves its pin.
LEMMA AnswerGood ==
  ASSUME PinInv, NEW o \in Observers, ProofAnswers(o)
  PROVE  PinInv'
<1>1. PICK path \in Paths :
        LET with == [obs[o] EXCEPT !.path = <<path>>]
        IN \/ /\ Convicts(obs[o].previous[1], obs[o].head[1], Trusted, <<path>>)
              /\ Becomes(o, [with EXCEPT !.at = "equivocation",
                                         !.bundle = <<obs[o].previous[1], obs[o].head[1]>>])
              /\ UNCHANGED pin
           \/ Becomes(o, [with EXCEPT !.at = "error"]) /\ UNCHANGED pin
           \/ Becomes(o, [with EXCEPT !.at = "lagging"]) /\ UNCHANGED pin
           \/ /\ ProofStands(o, path) /\ Growing(o)
              /\ SetPin(obs[o].head[1])
              /\ Becomes(o, [with EXCEPT !.at = "advancing"])
  BY DEF ProofAnswers
<1>2. obs[o].at = "fetching" /\ UNCHANGED <<saved, accepted, overlapped>>
  BY DEF ProofAnswers
<1>3. obs[o] \in Observations /\ Asking(obs[o])
  BY <1>2 DEF PinInv, PinTypes, Asked
<1> DEFINE head == obs[o].head[1]
           previous == obs[o].previous[1]
           with == [obs[o] EXCEPT !.path = <<path>>]
<1>4. head \in Heads /\ previous \in Heads /\ obs[o].head = <<head>> /\ obs[o].previous = <<previous>>
  BY <1>3 DEF Observations, OptionalHead, Asking
<1>5. /\ <<path>> \in {None} \cup {<<p>> : p \in Paths}
      /\ <<previous, head>> \in {None} \cup {<<a, b>> : a \in Heads, b \in Heads}
  BY <1>4
<1>6. with \in Observations /\ with.head = obs[o].head
  BY <1>3, <1>5 DEF Observations
<1> HIDE DEF with
<1>7. ASSUME NEW at \in {"error", "lagging", "advancing"}
      PROVE  /\ [with EXCEPT !.at = at] \in Observations
             /\ [with EXCEPT !.at = at].at = at /\ [with EXCEPT !.at = at].head = obs[o].head
  BY <1>6 DEF Observations, UnderWay
<1>8. /\ [with EXCEPT !.at = "equivocation", !.bundle = <<previous, head>>] \in Observations
      /\ [with EXCEPT !.at = "equivocation", !.bundle = <<previous, head>>].at = "equivocation"
  <2>1. [with EXCEPT !.at = "equivocation"] \in Observations
    BY <1>6 DEF Observations
  <2>2. [with EXCEPT !.at = "equivocation", !.bundle = <<previous, head>>]
          = [[with EXCEPT !.at = "equivocation"] EXCEPT !.bundle = <<previous, head>>]
    BY <1>6 DEF Observations
  <2> DEFINE convicted == [with EXCEPT !.at = "equivocation"]
  <2>3. convicted \in Observations /\ convicted.at = "equivocation"
    BY <2>1, <1>6 DEF Observations
  <2> HIDE DEF convicted
  <2>4. /\ [convicted EXCEPT !.bundle = <<previous, head>>] \in Observations
        /\ [convicted EXCEPT !.bundle = <<previous, head>>].at = "equivocation"
    BY <2>3, <1>5 DEF Observations
  <2>5. QED
    BY <2>2, <2>4 DEF convicted
<1>9. "error" \notin UnderWay /\ "lagging" \notin UnderWay /\ "equivocation" \notin UnderWay
  BY DEF UnderWay
<1>10. CASE \E r \in Observations : r.at \notin UnderWay /\ Becomes(o, r) /\ UNCHANGED pin
  BY <1>10, <1>2, StopsGood
<1>11. CASE /\ ProofStands(o, path) /\ Growing(o) /\ SetPin(head)
           /\ Becomes(o, [with EXCEPT !.at = "advancing"])
  <2> DEFINE r == [with EXCEPT !.at = "advancing"]
  <2>1. r \in Observations /\ r.at = "advancing" /\ r.head = <<head>>
    BY <1>4, <1>7
  <2> HIDE DEF r
  <2>2. /\ obs' \in [Observers -> Observations] /\ obs'[o] = r
        /\ \A p \in Observers \ {o} : obs'[p] = obs[p]
    BY <1>11, <2>1, OneMoves DEF PinInv, r
  <2>3. pin' = <<head>>
    BY <1>11 DEF SetPin
  <2>4. PinTypes'
    BY <1>2, <1>4, <2>2, <2>3 DEF PinInv, PinTypes, OptionalHead
  <2>5. VerifiedPin' /\ Asked'
    BY <1>2, <1>3, <2>1, <2>2, <2>3 DEF PinInv, VerifiedPin, Asked, Asking, None
  <2>6. ASSUME ~overlapped PROVE Alone' /\ Unbroken'
    <3>1. Alone /\ Unbroken /\ pin = <<previous>>
      BY <2>6, <1>2, <1>4 DEF PinInv, Alone
    <3>2. Alone'
      BY <3>1, <1>2, <2>1, <2>2, <2>3 DEF Alone, UnderWay
    <3>3. Includes(previous)
      BY <3>1 DEF Unbroken, None
    <3>4. Includes(head)
      <4>1. ProvesExtension(previous, head, Trusted, <<path>>) /\ head.tree_size > previous.tree_size
        BY <1>11 DEF ProofStands, Growing
      <4>2. ASSUME NEW hist \in Histories, Describes(hist, head) PROVE Describes(hist, previous)
        BY <2>6, <4>1, <4>2, <1>4, ExtensionIncludes
      <4>3. QED
        BY <4>2, <3>3 DEF Includes
    <3>5. Unbroken'
      BY <3>1, <3>4, <1>2, <2>3 DEF Unbroken, Includes, None
    <3>6. QED
      BY <3>2, <3>5
  <2>7. QED
    BY <1>2, <2>4, <2>5, <2>6 DEF PinInv
<1>12. QED
  <2>1. CASE Becomes(o, [with EXCEPT !.at = "error"]) /\ UNCHANGED pin
    BY <2>1, <1>7, <1>9, <1>10
  <2>2. CASE Becomes(o, [with EXCEPT !.at = "lagging"]) /\ UNCHANGED pin
    BY <2>2, <1>7, <1>9, <1>10
  <2>3. CASE /\ Becomes(o, [with EXCEPT !.at = "equivocation", !.bundle = <<previous, head>>])
             /\ UNCHANGED pin
    BY <2>3, <1>8, <1>9, <1>10
  <2>4. QED
    BY <1>1, <1>11, <2>1, <2>2, <2>3 DEF with

(* The pin in memory and the file agree once the save came through. *)
LEMMA SavesGood ==
  ASSUME PinInv, NEW o \in Observers, Saves(o)
  PROVE  PinInv'
<1>1. PICK at \in {"pinned", "advanced"} : Becomes(o, [obs[o] EXCEPT !.at = at])
  BY DEF Saves, Ends
<1>2. obs[o] \in Observations /\ [obs[o] EXCEPT !.at = at] \in Observations
  BY DEF PinInv, PinTypes, Observations
<1>3. [obs[o] EXCEPT !.at = at].at = at
  BY <1>2 DEF Observations
<1> DEFINE r == [obs[o] EXCEPT !.at = at]
<1> HIDE DEF r
<1>4. /\ obs' \in [Observers -> Observations] /\ obs'[o] = r
      /\ \A p \in Observers \ {o} : obs'[p] = obs[p]
  BY <1>1, <1>2, OneMoves DEF PinInv, r
<1>5. r.at \notin UnderWay
  BY <1>3 DEF r, UnderWay
<1>6. /\ obs[o].at \in {"pinning", "advancing"} /\ saved' = obs[o].head
      /\ accepted' = accepted \cup {obs[o].head[1]} /\ pin' = pin /\ overlapped' = overlapped
  BY DEF Saves
<1>7. obs[o].head # None /\ obs[o].head \in OptionalHead /\ obs[o].head[1] \in Heads
  BY <1>2, <1>6 DEF PinInv, VerifiedPin, Observations, OptionalHead
<1>8. PinTypes'
  BY <1>4, <1>6, <1>7 DEF PinInv, PinTypes, OptionalHead
<1>9. VerifiedPin' /\ Asked'
  BY <1>4, <1>5, <1>6, <1>7 DEF PinInv, VerifiedPin, Asked, UnderWay
<1>10. ASSUME ~overlapped PROVE Alone' /\ Unbroken'
  <2>1. Alone /\ Unbroken /\ obs[o].head = pin
    BY <1>10, <1>6 DEF PinInv, Alone
  <2>2. Alone'
    BY <2>1, <1>4, <1>5, <1>6 DEF Alone, UnderWay
  <2>3. Includes(pin[1])
    BY <2>1, <1>7 DEF Unbroken
  <2>4. Unbroken'
    BY <2>1, <2>3, <1>6, <1>7 DEF Unbroken, Includes
  <2>5. QED
    BY <2>2, <2>4
<1>11. QED
  BY <1>6, <1>8, <1>9, <1>10 DEF PinInv

(* The next process starts from the last pin that was saved. *)
LEMMA RestartGood ==
  ASSUME PinInv, Restart
  PROVE  PinInv'
<1>1. \A o \in Observers : obs'[o].at \notin UnderWay /\ obs'[o] \in Observations
  <2> TAKE o \in Observers
  <2>1. obs[o] \in Observations
    BY DEF PinInv, PinTypes
  <2>2. obs'[o] = IF obs[o].at \in UnderWay THEN [obs[o] EXCEPT !.at = "lost"] ELSE obs[o]
    BY DEF Restart
  <2>3. /\ [obs[o] EXCEPT !.at = "lost"] \in Observations
        /\ [obs[o] EXCEPT !.at = "lost"].at = "lost"
    BY <2>1 DEF Observations
  <2>4. QED
    BY <2>1, <2>2, <2>3 DEF UnderWay
<1>2. obs' \in [Observers -> Observations]
  <2>1. obs' = [o \in Observers |-> obs'[o]]
    BY DEF Restart
  <2>2. QED
    BY <1>1, <2>1
<1>3. pin' = saved /\ UNCHANGED <<saved, accepted, overlapped>>
  BY DEF Restart
<1>4. PinTypes' /\ VerifiedPin' /\ Asked'
  BY <1>1, <1>2, <1>3 DEF PinInv, PinTypes, VerifiedPin, Asked, UnderWay
<1>5. ~overlapped => Alone' /\ Unbroken'
  BY <1>1, <1>3 DEF PinInv, Alone, Unbroken, Includes, UnderWay
<1>6. QED
  BY <1>3, <1>4, <1>5 DEF PinInv

-----------------------------------------------------------------------------
(* The store as observe and the monitor's state file run it: whatever the
   order of heads, lost processes and failed saves, while no two
   observations overlap and proofs are sound, what is in memory and what is on
   the disk extend everything that was accepted. *)
THEOREM PinInvariance == PinSpec => []PinInv
<1>1. PinInit => PinInv
  <2> SUFFICES ASSUME PinInit PROVE PinInv
    OBVIOUS
  <2>1. Idle \in Observations /\ Idle.at \notin UnderWay /\ Idle.at = "idle"
    BY DEF Idle, Observations, OptionalHead, UnderWay
  <2>2. \A o \in Observers : obs[o] = Idle
    BY DEF PinInit
  <2>3. PinTypes
    BY <2>1 DEF PinInit, PinTypes, OptionalHead
  <2>4. VerifiedPin /\ Asked /\ Alone /\ Unbroken
    BY <2>1, <2>2 DEF PinInit, VerifiedPin, Asked, Alone, Unbroken, UnderWay
  <2>5. QED
    BY <2>3, <2>4 DEF PinInv
<1>2. PinInv /\ [PinNext]_pinVars => PinInv'
  <2> SUFFICES ASSUME PinInv, [PinNext]_pinVars PROVE PinInv'
    OBVIOUS
  <2>1. ASSUME NEW o \in Observers, Observe(o) PROVE PinInv'
    <3>1. overlapped' \in BOOLEAN
          /\ (overlapped' <=> (overlapped \/ \E p \in Observers : obs[p].at \in UnderWay))
      BY <2>1 DEF Observe, PinInv, PinTypes
    <3>2. QED
      BY <2>1, <3>1, ShownGood DEF Observe
  <2>2. ASSUME NEW o \in Observers, FetchFails(o) \/ SaveFails(o) PROVE PinInv'
    <3>1. PICK at \in {"error", "threw"} : Becomes(o, [obs[o] EXCEPT !.at = at])
      BY <2>2 DEF FetchFails, SaveFails, Ends
    <3>2. obs[o] \in Observations
      BY DEF PinInv, PinTypes
    <3>3. [obs[o] EXCEPT !.at = at] \in Observations /\ [obs[o] EXCEPT !.at = at].at = at
      BY <3>2 DEF Observations
    <3>4. at \notin UnderWay /\ UNCHANGED <<pin, saved, accepted, overlapped>>
      BY <2>2 DEF UnderWay, FetchFails, SaveFails
    <3>5. QED
      BY <3>1, <3>3, <3>4, StopsGood
  <2>3. ASSUME NEW o \in Observers, ProofAnswers(o) PROVE PinInv'
    BY <2>3, AnswerGood
  <2>4. ASSUME NEW o \in Observers, Saves(o) PROVE PinInv'
    BY <2>4, SavesGood
  <2>5. CASE Restart
    BY <2>5, RestartGood
  <2>6. CASE UNCHANGED pinVars
    BY <2>6 DEF PinInv, PinTypes, VerifiedPin, Asked, Asking, Alone, Unbroken, Includes, pinVars
  <2>7. QED
    BY <2>1, <2>2, <2>3, <2>4, <2>5, <2>6 DEF PinNext
<1>3. QED
  BY <1>1, <1>2, PTL DEF PinSpec

(* observe pins only heads that verify, and the state file holds only such. *)
THEOREM PinsVerified == PinSpec => []PinTypeOK
<1>1. PinInv => PinTypeOK
  <2> SUFFICES ASSUME PinInv PROVE PinTypeOK
    OBVIOUS
  <2>1. \A h \in Heads : <<h>> \in {pin, saved} => ValidHead(h, Trusted)
    BY DEF PinInv, VerifiedPin, Valid, None
  <2>2. \A o \in Observers :
          /\ obs[o].head \in OptionalHead /\ obs[o].previous \in OptionalHead
          /\ obs[o].at = "fetching" => obs[o].head # None /\ obs[o].previous # None
    BY DEF PinInv, PinTypes, Asked, Asking, Observations
  <2>3. QED
    BY <2>1, <2>2 DEF PinInv, PinTypes, PinTypeOK
<1>2. QED
  BY <1>1, PinInvariance, PTL

(* The heads that observe ever came back pinned or advanced on are of one
   history, as long as observations do not overlap. *)
THEOREM OneHistoryAccepted == PinSpec => []AcceptedFormOneHistory
<1>1. PinInv => AcceptedFormOneHistory
  <2> SUFFICES ASSUME PinInv, ~overlapped, NEW a \in accepted, NEW b \in accepted
               PROVE  OneHistory(a, b)
    BY DEF AcceptedFormOneHistory
  <2>1. saved # None /\ Includes(saved[1]) /\ saved[1] \in Heads /\ Valid(saved[1])
    BY DEF PinInv, Unbroken, PinTypes, OptionalHead, VerifiedPin
  <2>2. PICK hist \in Histories : Describes(hist, saved[1])
    BY <2>1, SignedAssumption, GenuineAssumption DEF Valid
  <2>3. Describes(hist, a) /\ Describes(hist, b)
    BY <2>1, <2>2 DEF Includes
  <2>4. QED
    BY <2>3 DEF OneHistory
<1>2. QED
  BY <1>1, PinInvariance, PTL

-----------------------------------------------------------------------------
(* The verdicts.                                                            *)

\* An equivocation has two heads that the log signed, of one size; an error is
\* no answer to a head of the pinned history that came with its proof.
Judged(r) ==
  /\ r.at = "equivocation" =>
       /\ r.bundle # None
       /\ r.bundle[1] \in Genuine /\ r.bundle[2] \in Genuine
       /\ r.bundle[1].tree_size = r.bundle[2].tree_size
       /\ r.bundle[1].root # r.bundle[2].root
  /\ r.at = "error" /\ r.path # None =>
       ~(/\ OneHistory(r.previous[1], r.head[1])
         /\ r.path[1] = HonestPath(r.previous[1], r.head[1]))

AllJudged == \A o \in Observers : Judged(obs[o])

(* Two verified heads of one log convict it only if the log signed both. *)
LEMMA ConvictedIsJudged ==
  ASSUME NEW a \in Heads, NEW b \in Heads, NEW path, Convicts(a, b, Trusted, path),
         NEW r, r.at = "equivocation", r.bundle = <<a, b>>
  PROVE  Judged(r)
<1>1. a \in Genuine /\ b \in Genuine /\ a.tree_size = b.tree_size /\ a.root # b.root
  BY SignedAssumption DEF Convicts
<1>2. QED
  BY <1>1 DEF Judged, None

\* A head that is judged at once is judged on what is in hand.
LEMMA ShownIsJudged ==
  ASSUME PinInv, AllJudged, NEW o \in Observers, Observe(o)
  PROVE  AllJudged'
<1>1. PICK h \in Heads : \/ ShownInvalid(o, h) \/ ShownFirst(o, h) \/ ShownOtherLog(o, h)
                        \/ ShownSameSize(o, h) \/ ShownOtherSize(o, h)
  BY DEF Observe
<1>2. CASE ShownSameSize(o, h) /\ pin[1].root # h.root
  <2>1. /\ Valid(h) /\ Valid(pin[1]) /\ pin[1] \in Heads /\ pin[1].log_id = h.log_id
        /\ pin[1].tree_size = h.tree_size
    BY <1>2 DEF ShownSameSize, OfPinnedLog, PinInv, PinTypes, VerifiedPin, OptionalHead, Valid
  <2>2. Convicts(pin[1], h, Trusted, None)
    BY <1>2, <2>1 DEF Convicts, Valid
  <2> DEFINE r == [at |-> "equivocation", head |-> <<h>>, previous |-> pin, path |-> None,
                   bundle |-> <<pin[1], h>>]
  <2>3. Becomes(o, r)
    BY <1>2, <2>2 DEF ShownSameSize, Shown
  <2>4. r.at = "equivocation" /\ r.bundle = <<pin[1], h>>
    OBVIOUS
  <2> HIDE DEF r
  <2>5. Judged(r)
    BY <2>1, <2>2, <2>4, ConvictedIsJudged
  <2>6. QED
    BY <2>3, <2>5 DEF AllJudged, Becomes, PinInv, PinTypes
<1>3. CASE ~(ShownSameSize(o, h) /\ pin[1].root # h.root)
  <2>1. PICK at \in {"error", "unchanged", "pinning", "fetching"} : Shown(o, h, at, None)
    BY <1>1, <1>3 DEF ShownInvalid, ShownFirst, ShownOtherLog, ShownSameSize, ShownOtherSize
  <2> DEFINE r == [at |-> at, head |-> <<h>>, previous |-> pin, path |-> None, bundle |-> None]
  <2>2. Becomes(o, r) /\ r.at # "equivocation" /\ r.path = None
    BY <2>1 DEF Shown
  <2> HIDE DEF r
  <2>3. Judged(r)
    BY <2>2 DEF Judged
  <2>4. QED
    BY <2>2, <2>3 DEF AllJudged, Becomes, PinInv, PinTypes
<1>4. QED
  BY <1>2, <1>3

(* The proof that the log owes is never the reason to turn a head away. *)
LEMMA HonestStands ==
  ASSUME PinInv, NEW o \in Observers, obs[o].at = "fetching",
         NEW path, OneHistory(obs[o].previous[1], obs[o].head[1]),
         path = HonestPath(obs[o].previous[1], obs[o].head[1])
  PROVE  ProofStands(o, path)
<1>1. Asking(obs[o]) /\ obs[o].previous[1] \in Heads /\ obs[o].head[1] \in Heads
  <2>1. Asking(obs[o]) /\ obs[o] \in Observations
    BY DEF PinInv, Asked, PinTypes
  <2>2. QED
    BY <2>1 DEF Asking, Observations, OptionalHead
<1> DEFINE a == obs[o].previous[1]
           b == obs[o].head[1]
           old == Older(a, b)
           new == Newer(a, b)
           hist == CHOOSE hist \in Histories : Describes(hist, a) /\ Describes(hist, b)
<1>2. hist \in Histories /\ Describes(hist, a) /\ Describes(hist, b)
  BY DEF OneHistory
<1>3. path = ConsistencyProof(SubSeq(hist, 1, new.tree_size), old.tree_size)
  BY DEF HonestPath
<1>4. a.tree_size \in Nat /\ b.tree_size \in Nat
  BY <1>1, HeadsAssumption
<1>5. {old, new} = {a, b} /\ old.tree_size <= new.tree_size
  BY <1>4 DEF Older, Newer
<1> HIDE DEF a, b, old, new, hist
<1>6. Len(hist) \in Nat
  <2>1. hist \in Seq(ToSet(hist))
    BY <1>2, HistoriesAssumption DEF IsList
  <2>2. QED
    BY <2>1, LenProperties
<1>7. /\ Describes(hist, old) /\ Describes(hist, new)
      /\ old.tree_size \in Nat /\ new.tree_size \in Nat
  BY <1>2, <1>4, <1>5
<1>8. /\ new.tree_size \in 0 .. Len(hist) /\ old.tree_size \in 0 .. new.tree_size
      /\ old.root = RootAt(hist, old.tree_size) /\ new.root = RootAt(hist, new.tree_size)
  BY <1>5, <1>6, <1>7 DEF Describes
<1>9. VerifyConsistency(old.tree_size, old.root, new.tree_size, new.root, path)
  BY <1>2, <1>3, <1>8, ProofsAreComplete
<1>10. <<path>> # None /\ <<path>>[1] = path
  BY DEF None
<1>11. ValidHead(a, Trusted) /\ ValidHead(b, Trusted) /\ a.log_id = b.log_id /\ a.tree_size # b.tree_size
  BY <1>1 DEF Asking, Valid, a, b
<1>12. ProvesExtension(a, b, Trusted, <<path>>)
  BY <1>9, <1>10, <1>11 DEF ProvesExtension, old, new
<1>13. QED
  BY <1>12 DEF ProofStands, a, b

\* So is one that was judged on a proof.
LEMMA AnswerIsJudged ==
  ASSUME PinInv, AllJudged, NEW o \in Observers, ProofAnswers(o)
  PROVE  AllJudged'
<1>1. PICK path \in Paths :
        LET with == [obs[o] EXCEPT !.path = <<path>>]
        IN \/ /\ Convicts(obs[o].previous[1], obs[o].head[1], Trusted, <<path>>)
              /\ Becomes(o, [with EXCEPT !.at = "equivocation",
                                         !.bundle = <<obs[o].previous[1], obs[o].head[1]>>])
           \/ Becomes(o, [with EXCEPT !.at = "error"]) /\ ~ProofStands(o, path)
           \/ Becomes(o, [with EXCEPT !.at = "lagging"])
           \/ Becomes(o, [with EXCEPT !.at = "advancing"])
  BY DEF ProofAnswers
<1>2. obs[o].at = "fetching" /\ obs[o] \in Observations
  BY DEF ProofAnswers, PinInv, PinTypes
<1> DEFINE head == obs[o].head[1]
           previous == obs[o].previous[1]
           with == [obs[o] EXCEPT !.path = <<path>>]
<1>3. head \in Heads /\ previous \in Heads
  <2>1. Asking(obs[o])
    BY <1>2 DEF PinInv, Asked
  <2>2. QED
    BY <1>2, <2>1 DEF Observations, OptionalHead, Asking
<1>4. /\ with.head[1] = head /\ with.previous[1] = previous /\ with.path = <<path>>
      /\ with = [f \in {"at", "head", "previous", "path", "bundle"} |-> with[f]]
  BY <1>2 DEF Observations
<1> HIDE DEF with
<1>5. ASSUME NEW r, Becomes(o, r), Judged(r) PROVE AllJudged'
  BY <1>5 DEF AllJudged, Becomes, PinInv, PinTypes
<1>6. CASE /\ Convicts(previous, head, Trusted, <<path>>)
           /\ Becomes(o, [with EXCEPT !.at = "equivocation", !.bundle = <<previous, head>>])
  <2> DEFINE r == [with EXCEPT !.at = "equivocation", !.bundle = <<previous, head>>]
  <2>1. r.at = "equivocation" /\ r.bundle = <<previous, head>>
    BY <1>4
  <2> HIDE DEF r
  <2>2. Judged(r)
    BY <1>3, <1>6, <2>1, ConvictedIsJudged
  <2>3. QED
    BY <1>5, <1>6, <2>2 DEF r
<1>7. CASE Becomes(o, [with EXCEPT !.at = "error"]) /\ ~ProofStands(o, path)
  <2> DEFINE r == [with EXCEPT !.at = "error"]
  <2>1. /\ r.at = "error" /\ r.head[1] = head /\ r.previous[1] = previous /\ r.path[1] = path
    BY <1>4
  <2> HIDE DEF r
  <2>2. Judged(r)
    BY <1>2, <1>7, <2>1, HonestStands DEF Judged
  <2>3. QED
    BY <1>5, <1>7, <2>2 DEF r
<1>8. CASE \E at \in {"lagging", "advancing"} : Becomes(o, [with EXCEPT !.at = at])
  <2>1. PICK at \in {"lagging", "advancing"} : Becomes(o, [with EXCEPT !.at = at])
    BY <1>8
  <2> DEFINE r == [with EXCEPT !.at = at]
  <2>2. r.at = at
    BY <1>4
  <2> HIDE DEF r
  <2>3. Judged(r)
    BY <2>2 DEF Judged
  <2>4. QED
    BY <1>5, <2>1, <2>3 DEF r
<1>9. QED
  BY <1>1, <1>6, <1>7, <1>8 DEF with

(* observe convicts only a log that signed two roots for one size, with the
   heads to publish, and never turns away a head of the pinned history that
   comes with the proof of it. *)
THEOREM VerdictsEarned == PinSpec => []PinVerdictsAreEarned
<1>1. PinInit => AllJudged
  BY DEF PinInit, AllJudged, Idle, Judged
<1>2. PinInv /\ AllJudged /\ [PinNext]_pinVars => AllJudged'
  <2> SUFFICES ASSUME PinInv, AllJudged, [PinNext]_pinVars PROVE AllJudged'
    OBVIOUS
  <2>1. ASSUME NEW o \in Observers, Observe(o) PROVE AllJudged'
    BY <2>1, ShownIsJudged
  <2>2. ASSUME NEW o \in Observers, ProofAnswers(o) PROVE AllJudged'
    BY <2>2, AnswerIsJudged
  <2>3. ASSUME NEW o \in Observers, FetchFails(o) PROVE AllJudged'
    <3>1. obs[o].path = None /\ obs[o] \in Observations
      BY <2>3 DEF FetchFails, PinInv, Asked, Asking, PinTypes
    <3> DEFINE r == [obs[o] EXCEPT !.at = "error"]
    <3>2. r.at = "error" /\ r.path = None
      BY <3>1 DEF Observations
    <3>3. Becomes(o, r)
      BY <2>3 DEF FetchFails, Ends
    <3> HIDE DEF r
    <3>4. Judged(r)
      BY <3>2 DEF Judged
    <3>5. QED
      BY <3>3, <3>4 DEF AllJudged, Becomes, PinInv, PinTypes
  <2>4. ASSUME NEW o \in Observers, Saves(o) \/ SaveFails(o) PROVE AllJudged'
    <3>1. PICK at \in {"threw", "pinned", "advanced"} : Becomes(o, [obs[o] EXCEPT !.at = at])
      BY <2>4 DEF Saves, SaveFails, Ends
    <3> DEFINE r == [obs[o] EXCEPT !.at = at]
    <3>2. r.at = at
      BY DEF PinInv, PinTypes, Observations
    <3>3. Becomes(o, r)
      BY <3>1
    <3> HIDE DEF r
    <3>4. Judged(r)
      BY <3>2 DEF Judged
    <3>5. QED
      BY <3>3, <3>4 DEF AllJudged, Becomes, PinInv, PinTypes
  <2>5. CASE Restart
    <3> SUFFICES ASSUME NEW o \in Observers PROVE Judged(obs'[o])
      BY DEF AllJudged
    <3>1. \/ obs'[o] = obs[o]
          \/ obs'[o] = [obs[o] EXCEPT !.at = "lost"]
      BY <2>5 DEF Restart
    <3>2. [obs[o] EXCEPT !.at = "lost"].at = "lost"
      BY DEF PinInv, PinTypes, Observations
    <3>3. Judged([obs[o] EXCEPT !.at = "lost"])
      BY <3>2 DEF Judged
    <3>4. QED
      BY <3>1, <3>3 DEF AllJudged
  <2>6. CASE UNCHANGED pinVars
    BY <2>6 DEF AllJudged, pinVars
  <2>7. QED
    BY <2>1, <2>2, <2>3, <2>4, <2>5, <2>6 DEF PinNext
<1>3. AllJudged => PinVerdictsAreEarned
  BY DEF AllJudged, Judged, PinVerdictsAreEarned, OnlyForksConvict, HonestProofAccepted
<1>4. QED
  BY <1>1, <1>2, <1>3, PinInvariance, PTL DEF PinSpec

-----------------------------------------------------------------------------
(* The vault signer, for any items, any number of concurrent calls and any
   moves of the host's ledger. *)

-----------------------------------------------------------------------------
(* What the authorization checks establish.                                 *)

(* A slot holds nothing or the instruction at its place. *)
LEMMA HeldIs ==
  ASSUME NEW tx, NEW at, NEW kind
  PROVE  \/ Held(tx, at, kind) = None /\ Len(Held(tx, at, kind)) = 0
         \/ /\ at \in DOMAIN tx /\ tx[at].kind = kind
            /\ Held(tx, at, kind) = <<tx[at]>>
            /\ Held(tx, at, kind) # None /\ Len(Held(tx, at, kind)) = 1
            /\ Held(tx, at, kind)[1] = tx[at]
BY DEF Held, None

(* Rounding up keeps the fee from exceeding what it is rounded to. *)
LEMMA RoundedUp ==
  ASSUME NEW lamports \in Nat, NEW budget \in Int,
         (lamports + LamportScale - 1) \div LamportScale <= budget
  PROVE  lamports <= budget * LamportScale
BY DEF LamportScale

\* What a message that passed spends and pays: its last instruction is its only
\* spend, and a price stands behind a limit that keeps it within the fee.
Bounded(tx, budget) ==
  /\ \A i \in DOMAIN tx : tx[i].kind = "spend" <=> i = Len(tx)
  /\ \A i \in DOMAIN tx : tx[i].kind = "price" =>
       \E j \in DOMAIN tx : tx[j].kind = "limit" /\ tx[i].price * tx[j].units <= budget * LamportScale

(* A message of one instruction. *)
LEMMA LoneSpend ==
  ASSUME NEW tx, IsMessage(tx), Len(tx) = 1, tx[Len(tx)].kind = "spend", NEW budget
  PROVE  Bounded(tx, budget)
BY DEF Bounded, IsMessage

(* The places of the slots that are filled, and of the spend behind them. *)
LEMMA Positions ==
  ASSUME NEW limits \in {0, 1}, NEW prices \in {0, 1}, NEW memos \in {0, 1},
         prices = 1 => limits = 1, NEW i \in 1 .. (limits + prices + memos + 1)
  PROVE  \/ i = limits + prices + memos + 1
         \/ limits = 1 /\ i = 1
         \/ prices = 1 /\ i = 2
         \/ memos = 1 /\ i = 1 + limits + prices
OBVIOUS

(* A message of slots, whose priority fee leaves the budget. *)
LEMMA SlottedSpend ==
  ASSUME NEW a, NEW tx, IsMessage(tx), ShapeV2_1(a, tx), tx[Len(tx)].kind = "spend",
         NEW fee \in Nat, NEW ceiling \in Nat, fee + PriorityFee(tx) <= ceiling
  PROVE  Bounded(tx, ceiling - fee)
<1> DEFINE limit == Held(tx, 1, "limit")
           price == Held(tx, 1 + Len(limit), "price")
           memo == Held(tx, 1 + Len(limit) + Len(price), "memo")
           budget == ceiling - fee
<1>1. /\ Slots(tx).limit = limit /\ Slots(tx).price = price /\ Slots(tx).memo = memo
  BY DEF Slots
<1>2. /\ Len(tx) = Len(limit) + Len(price) + Len(memo) + 1
      /\ price # None => limit # None
  BY <1>1 DEF ShapeV2_1
<1>3. PriorityFee(tx) =
        IF None \in {limit, price} THEN 0
        ELSE (limit[1].units * price[1].price + LamportScale - 1) \div LamportScale
  BY <1>1 DEF PriorityFee
<1>4. \/ limit = None /\ Len(limit) = 0
      \/ 1 \in DOMAIN tx /\ tx[1].kind = "limit" /\ limit # None /\ Len(limit) = 1 /\ limit[1] = tx[1]
  BY HeldIs
<1>5. \/ price = None /\ Len(price) = 0
      \/ /\ 1 + Len(limit) \in DOMAIN tx /\ tx[1 + Len(limit)].kind = "price"
         /\ price # None /\ Len(price) = 1 /\ price[1] = tx[1 + Len(limit)]
  BY HeldIs
<1>6. \/ memo = None /\ Len(memo) = 0
      \/ /\ 1 + Len(limit) + Len(price) \in DOMAIN tx
         /\ tx[1 + Len(limit) + Len(price)].kind = "memo" /\ Len(memo) = 1
  BY HeldIs
<1> HIDE DEF limit, price, memo
<1>7. \A i \in DOMAIN tx :
        \/ i = Len(tx)
        \/ limit # None /\ i = 1
        \/ price # None /\ i = 2
        \/ Len(memo) = 1 /\ i = 1 + Len(limit) + Len(price)
  <2> TAKE i \in DOMAIN tx
  <2>1. i \in 1 .. Len(tx) /\ Len(tx) \in Nat
    BY DEF IsMessage
  <2>2. Len(limit) \in {0, 1} /\ Len(price) \in {0, 1} /\ Len(memo) \in {0, 1}
    BY <1>4, <1>5, <1>6
  <2>3. (limit # None <=> Len(limit) = 1) /\ (price # None <=> Len(price) = 1)
    <3>1. limit # None <=> Len(limit) = 1
      BY <1>4
    <3>2. price # None <=> Len(price) = 1
      BY <1>5
    <3>3. QED
      BY <3>1, <3>2
  <2>4. Len(price) = 1 => Len(limit) = 1
    BY <1>2, <2>3
  <2>5. Len(tx) = Len(limit) + Len(price) + Len(memo) + 1
    BY <1>2
  <2>6. \/ i = Len(limit) + Len(price) + Len(memo) + 1
        \/ Len(limit) = 1 /\ i = 1
        \/ Len(price) = 1 /\ i = 2
        \/ Len(memo) = 1 /\ i = 1 + Len(limit) + Len(price)
    BY <2>1, <2>2, <2>4, <2>5, Positions
  <2>7. QED
    BY <2>3, <2>5, <2>6
<1>8. \A i \in DOMAIN tx : tx[i].kind = "spend" <=> i = Len(tx)
  BY <1>2, <1>4, <1>5, <1>6, <1>7 DEF IsMessage
<1>9. ASSUME NEW i \in DOMAIN tx, tx[i].kind = "price"
      PROVE  \E j \in DOMAIN tx :
               tx[j].kind = "limit" /\ tx[i].price * tx[j].units <= budget * LamportScale
  <2>1. i = 2 /\ price # None /\ limit # None /\ Len(limit) = 1
    BY <1>2, <1>4, <1>5, <1>6, <1>7, <1>9
  <2>2. /\ 1 \in DOMAIN tx /\ tx[1].kind = "limit" /\ limit[1] = tx[1] /\ price[1] = tx[i]
        /\ tx[1].units \in Nat /\ tx[i].price \in Nat
    BY <2>1, <1>4, <1>5, <1>9 DEF IsMessage
  <2> DEFINE lamports == tx[1].units * tx[i].price
  <2>3. lamports \in Nat
    BY <2>2
  <2>4. fee + ((lamports + LamportScale - 1) \div LamportScale) <= ceiling
    BY <2>1, <2>2, <1>3
  <2> HIDE DEF lamports
  <2>5. (lamports + LamportScale - 1) \div LamportScale <= budget
    BY <2>3, <2>4 DEF LamportScale
  <2>6. lamports <= budget * LamportScale
    BY <2>3, <2>5, RoundedUp
  <2>7. tx[i].price * tx[1].units = lamports
    BY <2>2 DEF lamports
  <2>8. QED
    BY <2>2, <2>6, <2>7
<1>10. QED
  BY <1>8, <1>9 DEF Bounded

(* Whatever verifies on a message spends the local intent. *)
LEMMA VerifiedSpends ==
  ASSUME NEW item \in DeskItems, NEW tx, IsMessage(tx), Verified(item, tx)
  PROVE  SpendsTheIntent(tx, item) /\ desk.now < item.authorization.expires
<1> DEFINE a == item.authorization
           e == [item.expectation EXCEPT !.instructions = tx]
<1>1. Authorized(a, e, desk.now)
  BY DEF Verified
<1>2. /\ e.instructions = tx /\ e.trusted = item.expectation.trusted
      /\ e.intent = item.expectation.intent /\ e.networkFee = item.expectation.networkFee
      /\ e.receipt = item.expectation.receipt
  BY ItemsAssumption DEF ExpectationFields
<1>3. a.maxFee \in Nat /\ e.networkFee \in Nat
  BY <1>2, ItemsAssumption
<1> HIDE DEF a, e
<1>4. /\ a.desk \in e.trusted /\ a.signature = [by |-> a.desk, over |-> AuthorizationPreimage(a)]
      /\ Current(a, e, desk.now) /\ IntentBound(a) = e.intent
      /\ IF a.version = "2.1.0" THEN ShapeV2_1(a, tx) ELSE Len(tx) = 1
      /\ Last(tx).kind = "spend" /\ ExactSpend(a, e, Last(tx))
      /\ e.networkFee + (IF a.version = "2.1.0" THEN PriorityFee(tx) ELSE 0) <= a.maxFee
  BY <1>1, <1>2 DEF Authorized
<1>5. a.signature.by \in e.trusted /\ desk.now < a.expires
  BY <1>4 DEF Current
<1>6. <<Last(tx).recipient, Last(tx).amount, Last(tx).mint>>
        = <<e.intent.recipient, e.intent.amount, e.intent.mint>>
  BY <1>4 DEF ExactSpend, IntentBound
<1>7. Bounded(tx, a.maxFee - e.networkFee)
  <2>1. CASE a.version # "2.1.0"
    BY <2>1, <1>4, LoneSpend DEF Last
  <2>2. CASE a.version = "2.1.0"
    <3>1. ShapeV2_1(a, tx) /\ tx[Len(tx)].kind = "spend" /\ e.networkFee + PriorityFee(tx) <= a.maxFee
      BY <2>2, <1>4 DEF Last
    <3>2. QED
      BY <3>1, <1>3, SlottedSpend
  <2>3. QED
    BY <2>1, <2>2
<1>8. QED
  BY <1>2, <1>5, <1>6, <1>7 DEF a, Bounded, SpendsTheIntent, Spend

-----------------------------------------------------------------------------
(* The steps.                                                               *)

(* A signature on a hash that is not up: the earlier ones had other approvals. *)
LEMMA SigningUsesUp ==
  ASSUME NEW on \in Seq(Signings), NEW cleared \in Nat, NEW state \in LedgerStates,
         state \notin ReplayStates, UsedUp(on, cleared, state),
         \A i, j \in DOMAIN on : i < j /\ on[i].state = "approved" => on[j].cleared > on[i].cleared,
         NEW marked, marked = IF state = "approved" THEN "signing" ELSE state,
         NEW more, more = Append(on, [state |-> state, cleared |-> cleared])
  PROVE  /\ more \in Seq(Signings) /\ marked \in LedgerStates
         /\ UsedUp(more, cleared, marked)
         /\ \A i, j \in DOMAIN more : i < j /\ more[i].state = "approved" => more[j].cleared > more[i].cleared
<1> DEFINE new == [state |-> state, cleared |-> cleared]
<1>1. new \in Signings
  BY DEF Signings
<1> HIDE DEF new
<1>2. /\ more \in Seq(Signings) /\ Len(more) = Len(on) + 1 /\ Len(on) \in Nat
      /\ \A i \in 1 .. Len(on) : more[i] = on[i]
      /\ more[Len(on) + 1] = new
      /\ DOMAIN on = 1 .. Len(on) /\ DOMAIN more = 1 .. Len(on) + 1
  BY <1>1, AppendProperties DEF new
<1>3. marked \in LedgerStates /\ (state = "approved" => marked \in ReplayStates)
  BY DEF LedgerStates, Ledger!States, Ledger!UnresolvedStates, ReplayStates
<1>4. \A i \in DOMAIN on : on[i].cleared \in Nat /\ on[i].cleared <= cleared
                           /\ (on[i].state = "approved" => on[i].cleared # cleared)
  <2> TAKE i \in DOMAIN on
  <2>1. on[i] \in Signings
    BY <1>2
  <2>2. on[i].cleared \in Nat
    BY <2>1 DEF Signings
  <2>3. QED
    BY <2>2 DEF UsedUp
<1>5. new.state = state /\ new.cleared = cleared
  BY DEF new
<1>6. UsedUp(more, cleared, marked)
  BY <1>2, <1>3, <1>4, <1>5 DEF UsedUp
<1>7. ASSUME NEW i \in DOMAIN more, NEW j \in DOMAIN more, i < j, more[i].state = "approved"
      PROVE  more[j].cleared > more[i].cleared
  <2>1. i \in DOMAIN on /\ more[i] = on[i]
    BY <1>2, <1>7
  <2>2. CASE j = Len(on) + 1
    BY <2>1, <2>2, <1>2, <1>4, <1>5, <1>7
  <2>3. CASE j # Len(on) + 1
    <3>1. j \in DOMAIN on /\ more[j] = on[j]
      BY <2>3, <1>2
    <3>2. QED
      BY <2>1, <3>1, <1>7
  <2>4. QED
    BY <2>2, <2>3
<1>8. QED
  BY <1>2, <1>3, <1>6, <1>7

\* A call that has ended is a state of a call.
LEMMA OverIs == DeskOver \in CallStates /\ DeskOver.at = "over"
BY DEF DeskOver, Call, CallStates

(* A call that moves to a state that holds vouched items, or none. *)
LEMMA CallMoves ==
  ASSUME DeskTypes, HoldsVouched, NEW c \in DeskCalls, NEW call \in CallStates,
         call.at = "signing" => Ready(call), desk'.calls = [desk.calls EXCEPT ![c] = call]
  PROVE  desk'.calls \in [DeskCalls -> CallStates] /\ HoldsVouched'
<1>1. desk'.calls \in [DeskCalls -> CallStates]
  BY DEF DeskTypes
<1>2. ASSUME NEW d \in DeskCalls, desk'.calls[d].at = "signing" PROVE Ready(desk'.calls[d])
  <2>1. desk'.calls[d] = IF d = c THEN call ELSE desk.calls[d]
    BY DEF DeskTypes
  <2>2. QED
    BY <1>2, <2>1 DEF HoldsVouched
<1>3. \A d \in DeskCalls : desk'.calls[d].at = "signing" => Ready(desk'.calls[d])
  BY <1>2
<1>4. QED
  BY <1>1, <1>3 DEF HoldsVouched, Ready, Vouched, SpendsTheIntent

\* A call that ends signs nothing.
LEMMA OverGood ==
  ASSUME DeskInv, NEW c \in DeskCalls, Over(c)
  PROVE  DeskInv'
<1>1. desk' = [desk EXCEPT !.calls = [@ EXCEPT ![c] = DeskOver]]
  BY DEF Over
<1>2. /\ desk' = [f \in DeskFields |-> desk'[f]] /\ desk'.calls = [desk.calls EXCEPT ![c] = DeskOver]
      /\ desk'.now = desk.now /\ desk'.ledger = desk.ledger /\ desk'.cleared = desk.cleared
      /\ desk'.on = desk.on /\ desk'.signed = desk.signed /\ desk'.sent = desk.sent
  BY <1>1 DEF DeskInv, DeskTypes, DeskFields
<1>3. desk'.calls \in [DeskCalls -> CallStates] /\ HoldsVouched'
  BY <1>2, OverIs, CallMoves DEF DeskInv
<1>4. DeskTypes'
  BY <1>2, <1>3 DEF DeskInv, DeskTypes
<1>5. AllUsedUp' /\ SignedOncePerApproval'
  BY <1>2 DEF DeskInv, AllUsedUp, UsedUp, SignedOncePerApproval
<1>6. SignedVouched' /\ SentInTime'
  BY <1>2 DEF DeskInv, SignedVouched, Vouched, SentInTime
<1>7. QED
  BY <1>3, <1>4, <1>5, <1>6 DEF DeskInv

(* The signer is called on an item that is vouched for and not up. *)
LEMMA SignsNowGood ==
  ASSUME DeskInv, NEW c \in DeskCalls, NEW call \in CallStates, Ready(call),
         NotReplayed(call.items[call.next].hash), SignsNow(c, call)
  PROVE  DeskInv'
<1> DEFINE item == call.items[call.next]
           hash == item.hash
           signing == [call EXCEPT !.at = "signing"]
           new == [state |-> desk.ledger[hash], cleared |-> desk.cleared[hash]]
<1>1. item \in DeskItems /\ Vouched(item) /\ hash \in DeskHashes
  BY ItemsAssumption DEF Ready
<1>2. signing \in CallStates /\ signing.items = call.items /\ signing.next = call.next
  BY DEF CallStates
<1>3. Ready(signing)
  BY <1>2 DEF Ready
<1>4. desk' = [desk EXCEPT !.ledger = Marked(hash), !.calls[c] = signing,
                           !.signed = @ \cup {item}, !.on[hash] = Append(@, new)]
  BY DEF SignsNow
<1> HIDE DEF item, signing, new
<1>5. /\ desk' = [f \in DeskFields |-> desk'[f]] /\ desk'.calls = [desk.calls EXCEPT ![c] = signing]
      /\ desk'.now = desk.now /\ desk'.cleared = desk.cleared
      /\ desk'.ledger = Marked(hash) /\ desk'.signed = desk.signed \cup {item}
      /\ desk'.on = [desk.on EXCEPT ![hash] = Append(desk.on[hash], new)] /\ desk'.sent = desk.sent
  BY <1>4 DEF DeskInv, DeskTypes, DeskFields
<1>6. desk'.calls \in [DeskCalls -> CallStates] /\ HoldsVouched'
  BY <1>2, <1>3, <1>5, CallMoves DEF DeskInv
<1>7. /\ desk.on[hash] \in Seq(Signings) /\ desk.cleared[hash] \in Nat
      /\ desk.ledger[hash] \in LedgerStates /\ desk.ledger[hash] \notin ReplayStates
      /\ UsedUp(desk.on[hash], desk.cleared[hash], desk.ledger[hash])
      /\ \A i, j \in DOMAIN desk.on[hash] :
           i < j /\ desk.on[hash][i].state = "approved" => desk.on[hash][j].cleared > desk.on[hash][i].cleared
  BY <1>1 DEF DeskInv, DeskTypes, AllUsedUp, SignedOncePerApproval, NotReplayed, item
<1>8. new = [state |-> desk.ledger[hash], cleared |-> desk.cleared[hash]]
  BY DEF new
<1>9. /\ desk'.ledger[hash] = (IF desk.ledger[hash] = "approved" THEN "signing" ELSE desk.ledger[hash])
      /\ desk'.on[hash] = Append(desk.on[hash], new)
      /\ \A h \in DeskHashes \ {hash} : desk'.ledger[h] = desk.ledger[h] /\ desk'.on[h] = desk.on[h]
  BY <1>1, <1>5 DEF DeskInv, DeskTypes, Marked
<1>10. /\ desk'.on[hash] \in Seq(Signings) /\ desk'.ledger[hash] \in LedgerStates
      /\ UsedUp(desk'.on[hash], desk.cleared[hash], desk'.ledger[hash])
      /\ \A i, j \in DOMAIN desk'.on[hash] :
           i < j /\ desk'.on[hash][i].state = "approved"
             => desk'.on[hash][j].cleared > desk'.on[hash][i].cleared
  <2> DEFINE on == desk.on[hash]
             more == desk'.on[hash]
             cleared == desk.cleared[hash]
             state == desk.ledger[hash]
             marked == desk'.ledger[hash]
  <2>1. /\ on \in Seq(Signings) /\ cleared \in Nat
        /\ state \in LedgerStates /\ state \notin ReplayStates
        /\ UsedUp(on, cleared, state)
        /\ \A i, j \in DOMAIN on : i < j /\ on[i].state = "approved" => on[j].cleared > on[i].cleared
    BY <1>7
  <2>2. /\ marked = IF state = "approved" THEN "signing" ELSE state
        /\ more = Append(on, [state |-> state, cleared |-> cleared])
    BY <1>9, <1>8
  <2> HIDE DEF on, more, cleared, state, marked
  <2>3. /\ more \in Seq(Signings) /\ marked \in LedgerStates
        /\ UsedUp(more, cleared, marked)
        /\ \A i, j \in DOMAIN more : i < j /\ more[i].state = "approved" => more[j].cleared > more[i].cleared
    BY <2>1, <2>2, SigningUsesUp
  <2>4. QED
    BY <2>3 DEF more, cleared, marked
<1>11. AllUsedUp'
  <2>1. ASSUME NEW h \in DeskHashes PROVE UsedUp(desk'.on[h], desk'.cleared[h], desk'.ledger[h])
    BY <1>5, <1>9, <1>10 DEF DeskInv, AllUsedUp
  <2>2. ASSUME NEW h \in DeskHashes, NEW i \in DOMAIN desk'.on[h]
        PROVE  /\ desk'.on[h][i].cleared <= desk'.cleared[h]
               /\ desk'.on[h][i].state = "approved" /\ desk'.on[h][i].cleared = desk'.cleared[h] =>
                    desk'.ledger[h] \in ReplayStates
    BY ONLY <2>1, h \in DeskHashes, i \in DOMAIN desk'.on[h] DEF UsedUp
  <2>3. QED
    BY ONLY <2>2, Zenon DEF AllUsedUp, UsedUp
<1>12. SignedOncePerApproval'
  BY <1>9, <1>10 DEF DeskInv, SignedOncePerApproval
<1>13. DeskTypes'
  <2>1. desk'.on \in [DeskHashes -> Seq(Signings)]
    <3>1. desk.on \in [DeskHashes -> Seq(Signings)] /\ desk'.on[hash] \in Seq(Signings)
      BY <1>10 DEF DeskInv, DeskTypes
    <3>2. QED
      BY ONLY <1>5, <1>9, <3>1
  <2>2. desk'.ledger \in [DeskHashes -> LedgerStates]
    <3>1. desk.ledger \in [DeskHashes -> LedgerStates] /\ desk'.ledger = Marked(hash)
      BY <1>5 DEF DeskInv, DeskTypes
    <3>2. desk'.ledger[hash] \in LedgerStates
      BY <1>10
    <3>3. QED
      BY ONLY <1>1, <3>1, <3>2 DEF Marked
  <2>3. QED
    BY <2>1, <2>2, <1>1, <1>5, <1>6 DEF DeskInv, DeskTypes
<1>14. SignedVouched' /\ SentInTime'
  BY <1>1, <1>5 DEF DeskInv, SignedVouched, Vouched, SentInTime
<1>15. QED
  BY <1>6, <1>11, <1>12, <1>13, <1>14 DEF DeskInv

(* An approval that lapsed is not used, and nothing is signed under it. *)
LEMMA LapsesGood ==
  ASSUME DeskInv, NEW c \in DeskCalls, NEW hash \in DeskHashes, desk.ledger[hash] = "approved",
         desk' = [desk EXCEPT !.ledger[hash] = "expired", !.calls[c] = DeskOver]
  PROVE  DeskInv'
<1>1. /\ desk' = [f \in DeskFields |-> desk'[f]] /\ desk'.calls = [desk.calls EXCEPT ![c] = DeskOver]
      /\ desk'.now = desk.now /\ desk'.ledger = [desk.ledger EXCEPT ![hash] = "expired"]
      /\ desk'.cleared = desk.cleared
      /\ desk'.on = desk.on /\ desk'.signed = desk.signed /\ desk'.sent = desk.sent
  BY DEF DeskInv, DeskTypes, DeskFields
<1>2. desk'.calls \in [DeskCalls -> CallStates] /\ HoldsVouched'
  BY <1>1, OverIs, CallMoves DEF DeskInv
<1>3. "expired" \in LedgerStates /\ "approved" \notin ReplayStates
  BY DEF LedgerStates, Ledger!States, Ledger!TerminalStates, ReplayStates
<1>4. desk.ledger \in [DeskHashes -> LedgerStates]
  BY DEF DeskInv, DeskTypes
<1>5. desk'.ledger \in [DeskHashes -> LedgerStates]
  BY <1>1, <1>3, <1>4
<1>6. DeskTypes'
  BY <1>1, <1>2, <1>5 DEF DeskInv, DeskTypes
<1>7. AllUsedUp'
  <2>1. ASSUME NEW h \in DeskHashes PROVE UsedUp(desk'.on[h], desk'.cleared[h], desk'.ledger[h])
    <3>1. UsedUp(desk.on[h], desk.cleared[h], desk.ledger[h])
      BY DEF DeskInv, AllUsedUp
    <3>2. CASE h = hash
      BY <3>1, <3>2, <1>1, <1>3 DEF UsedUp
    <3>3. CASE h # hash
      <4>1. desk'.ledger[h] = desk.ledger[h]
        BY <3>3, <1>1, <1>4
      <4>2. QED
        BY <3>1, <4>1, <1>1
    <3>4. QED
      BY <3>2, <3>3
  <2>2. QED
    BY <2>1 DEF AllUsedUp, UsedUp
<1>8. AllUsedUp' /\ SignedOncePerApproval'
  BY <1>1, <1>7 DEF DeskInv, SignedOncePerApproval
<1>9. SignedVouched' /\ SentInTime'
  BY <1>1 DEF DeskInv, SignedVouched, Vouched, SentInTime
<1>10. QED
  BY <1>2, <1>6, <1>8, <1>9 DEF DeskInv

\* An item is sent to the signer under the approval the ledger still shows.
LEMMA SignsGood ==
  ASSUME DeskInv, NEW c \in DeskCalls, NEW call \in CallStates, Ready(call), Signs(c, call)
  PROVE  DeskInv'
<1>1. call.items[call.next].hash \in DeskHashes
  BY ItemsAssumption DEF Ready
<1>2. CASE ~NotReplayed(call.items[call.next].hash)
  BY <1>2, OverGood DEF Signs
<1>3. CASE NotReplayed(call.items[call.next].hash)
  BY <1>1, <1>3, SignsNowGood, LapsesGood DEF Signs
<1>4. QED
  BY <1>2, <1>3

(* A call starts with items that are verified here. *)
LEMMA CallsGood ==
  ASSUME DeskInv, NEW c \in DeskCalls, Calls(c)
  PROVE  DeskInv'
<1>1. ASSUME NEW item \in DeskItems, Verified(item, item.tx) PROVE Vouched(item)
  BY <1>1, VerifiedSpends, ItemsAssumption DEF Vouched
<1>2. ASSUME NEW kind \in {"one", "send", "batch"}, NEW items \in Seq(DeskItems), items # <<>>,
             \A i \in DOMAIN items : Vouched(items[i])
      PROVE  Call("signing", kind, items) \in CallStates /\ Ready(Call("signing", kind, items))
  <2>1. 1 \in DOMAIN items /\ \A i \in DOMAIN items : items[i] \in DeskItems
    BY <1>2
  <2>2. QED
    BY <1>2, <2>1 DEF Call, CallStates, Ready
<1>3. CASE Over(c)
  BY <1>3, OverGood
<1>4. CASE \E kind \in {"one", "send"}, item \in DeskItems :
             Verified(item, item.tx) /\ Signs(c, Call("signing", kind, <<item>>))
  <2>1. PICK kind \in {"one", "send"}, item \in DeskItems :
          Verified(item, item.tx) /\ Signs(c, Call("signing", kind, <<item>>))
    BY <1>4
  <2>2. <<item>> \in Seq(DeskItems) /\ <<item>> # <<>> /\ \A i \in DOMAIN <<item>> : Vouched(<<item>>[i])
    BY <2>1, <1>1
  <2>3. QED
    BY <2>1, <2>2, <1>2, SignsGood
<1>5. CASE \E first, second \in DeskItems :
             /\ Verified(first, first.tx) /\ Verified(second, second.tx)
             /\ Signs(c, Call("signing", "batch", <<first, second>>))
  <2>1. PICK first, second \in DeskItems :
             /\ Verified(first, first.tx) /\ Verified(second, second.tx)
             /\ Signs(c, Call("signing", "batch", <<first, second>>))
    BY <1>5
  <2>2. /\ <<first, second>> \in Seq(DeskItems) /\ <<first, second>> # <<>>
        /\ \A i \in DOMAIN <<first, second>> : Vouched(<<first, second>>[i])
    BY <2>1, <1>1
  <2>3. QED
    BY <2>1, <2>2, <1>2, SignsGood
<1>6. QED
  BY <1>3, <1>4, <1>5 DEF Calls

\* What is sent was verified at the instant it is sent.
LEMMA SendsGood ==
  ASSUME DeskInv, NEW c \in DeskCalls, NEW item \in DeskItems, NEW tx \in {other.tx : other \in DeskItems},
         Verified(item, tx),
         desk' = [desk EXCEPT !.calls[c] = DeskOver,
                              !.sent = @ \cup {[tx |-> tx, item |-> item, at |-> desk.now]}]
  PROVE  DeskInv'
<1>1. SpendsTheIntent(tx, item) /\ desk.now < item.authorization.expires
  BY VerifiedSpends, ItemsAssumption
<1>2. /\ desk' = [f \in DeskFields |-> desk'[f]] /\ desk'.calls = [desk.calls EXCEPT ![c] = DeskOver]
      /\ desk'.now = desk.now /\ desk'.ledger = desk.ledger /\ desk'.cleared = desk.cleared
      /\ desk'.on = desk.on /\ desk'.signed = desk.signed
      /\ desk'.sent = desk.sent \cup {[tx |-> tx, item |-> item, at |-> desk.now]}
  BY DEF DeskInv, DeskTypes, DeskFields
<1>3. desk'.calls \in [DeskCalls -> CallStates] /\ HoldsVouched'
  BY <1>2, OverIs, CallMoves DEF DeskInv
<1>4. DeskTypes'
  BY <1>2, <1>3 DEF DeskInv, DeskTypes
<1>5. AllUsedUp' /\ SignedOncePerApproval'
  BY <1>2 DEF DeskInv, AllUsedUp, UsedUp, SignedOncePerApproval
<1>6. SignedVouched' /\ SentInTime'
  BY <1>1, <1>2 DEF DeskInv, SignedVouched, Vouched, SentInTime
<1>7. QED
  BY <1>3, <1>4, <1>5, <1>6 DEF DeskInv

\* The signer answers: the item is signed, and the next one is looked at.
LEMMA AnsweredGood ==
  ASSUME DeskInv, NEW c \in DeskCalls, Answered(c)
  PROVE  DeskInv'
<1> DEFINE call == desk.calls[c]
           item == call.items[call.next]
<1>1. call \in CallStates /\ Ready(call) /\ item \in DeskItems
  BY DEF Answered, DeskInv, DeskTypes, HoldsVouched, Ready
<1>2. CASE Over(c)
  BY <1>2, OverGood
<1>3. CASE call.next < Len(call.items) /\ Signs(c, [call EXCEPT !.next = @ + 1])
  <2>1. /\ [call EXCEPT !.next = @ + 1] \in CallStates
        /\ [call EXCEPT !.next = @ + 1].next = call.next + 1
        /\ [call EXCEPT !.next = @ + 1].items = call.items
    BY <1>1 DEF CallStates
  <2>2. call.next + 1 \in DOMAIN call.items
    BY <1>1, <1>3 DEF CallStates, Ready
  <2>3. Ready([call EXCEPT !.next = @ + 1])
    BY <2>1, <2>2, <1>1 DEF Ready
  <2>4. QED
    BY <2>1, <2>3, <1>3, SignsGood
<1>4. CASE \E tx \in {other.tx : other \in DeskItems} :
             /\ Verified(item, tx)
             /\ desk' = [desk EXCEPT !.calls[c] = DeskOver,
                            !.sent = @ \cup {[tx |-> tx, item |-> item, at |-> desk.now]}]
  BY <1>1, <1>4, SendsGood
<1>5. QED
  BY <1>2, <1>3, <1>4 DEF Answered

(* The host approves again only what is settled, and an attempt under way is
   over only when it is recorded so. *)
LEMMA HostGood ==
  ASSUME DeskInv, NEW hash \in DeskHashes, HostMoves(hash)
  PROVE  DeskInv'
<1>1. PICK to \in Ledger!States, more \in {0, 1} :
        /\ desk' = [desk EXCEPT !.ledger[hash] = to, !.cleared[hash] = @ + more]
        /\ more = 1 \/ (<<desk.ledger[hash], to>> \in Ledger!LEGAL /\ to # "not_settled")
  <2>1. CASE desk' = [desk EXCEPT !.ledger[hash] = "approved", !.cleared[hash] = @ + 1]
    <3>1. "approved" \in Ledger!States
      BY DEF Ledger!States, Ledger!UnresolvedStates
    <3>2. QED
      BY <2>1, <3>1
  <2>2. CASE \E to \in Ledger!States :
               /\ <<desk.ledger[hash], to>> \in Ledger!LEGAL
               /\ desk' = [desk EXCEPT !.ledger[hash] = to,
                              !.cleared[hash] = @ + (IF to = "not_settled" THEN 1 ELSE 0)]
    <3>1. PICK to \in Ledger!States :
               /\ <<desk.ledger[hash], to>> \in Ledger!LEGAL
               /\ desk' = [desk EXCEPT !.ledger[hash] = to,
                              !.cleared[hash] = @ + (IF to = "not_settled" THEN 1 ELSE 0)]
      BY <2>2
    <3>2. CASE to = "not_settled"
      <4>1. desk' = [desk EXCEPT !.ledger[hash] = to, !.cleared[hash] = @ + 1]
        BY <3>1, <3>2
      <4>2. QED
        BY <4>1, <3>1
    <3>3. CASE to # "not_settled"
      <4>1. desk' = [desk EXCEPT !.ledger[hash] = to, !.cleared[hash] = @ + 0]
        BY <3>1, <3>3
      <4>2. QED
        BY <4>1, <3>1, <3>3
    <3>4. QED
      BY <3>2, <3>3
  <2>3. QED
    BY <2>1, <2>2 DEF HostMoves
<1>2. /\ desk' = [f \in DeskFields |-> desk'[f]] /\ desk'.calls = desk.calls
      /\ desk'.now = desk.now /\ desk'.ledger = [desk.ledger EXCEPT ![hash] = to]
      /\ desk'.cleared = [desk.cleared EXCEPT ![hash] = desk.cleared[hash] + more]
      /\ desk'.on = desk.on /\ desk'.signed = desk.signed /\ desk'.sent = desk.sent
  BY <1>1 DEF DeskInv, DeskTypes, DeskFields
<1>3. /\ desk'.ledger[hash] = to /\ desk'.cleared[hash] = desk.cleared[hash] + more
      /\ \A h \in DeskHashes \ {hash} : desk'.ledger[h] = desk.ledger[h] /\ desk'.cleared[h] = desk.cleared[h]
      /\ desk.cleared[hash] \in Nat
  BY <1>2 DEF DeskInv, DeskTypes
<1>4. desk'.ledger \in [DeskHashes -> LedgerStates]
  BY <1>2, <1>3 DEF DeskInv, DeskTypes, LedgerStates
<1>5. desk'.cleared \in [DeskHashes -> Nat]
  BY <1>2, <1>3 DEF DeskInv, DeskTypes
<1>6. DeskTypes'
  BY <1>2, <1>4, <1>5 DEF DeskInv, DeskTypes
<1>7. UsedUp(desk.on[hash], desk'.cleared[hash], to)
  <2>1. UsedUp(desk.on[hash], desk.cleared[hash], desk.ledger[hash])
    BY DEF DeskInv, AllUsedUp
  <2>2. \A i \in DOMAIN desk.on[hash] : desk.on[hash][i].cleared \in Nat
    <3>1. desk.on[hash] \in Seq(Signings)
      BY DEF DeskInv, DeskTypes
    <3>2. \A i \in DOMAIN desk.on[hash] : desk.on[hash][i] \in Signings
      BY <3>1
    <3>3. QED
      BY <3>2 DEF Signings
  <2>3. CASE more = 1
    BY <2>1, <2>2, <2>3, <1>3 DEF UsedUp
  <2>4. CASE more = 0
    <3>1. desk.ledger[hash] \in ReplayStates => to \in ReplayStates
      BY <1>1, <2>4 DEF Ledger!LEGAL, Ledger!SettledStates, ReplayStates
    <3>2. QED
      BY <2>1, <2>4, <3>1, <1>3 DEF UsedUp
  <2>5. QED
    BY <2>3, <2>4
<1>8. AllUsedUp'
  <2>1. ASSUME NEW h \in DeskHashes PROVE UsedUp(desk'.on[h], desk'.cleared[h], desk'.ledger[h])
    BY <1>2, <1>3, <1>7 DEF DeskInv, AllUsedUp
  <2>2. QED
    BY <2>1 DEF AllUsedUp, UsedUp
<1>9. SignedOncePerApproval' /\ SignedVouched' /\ SentInTime' /\ HoldsVouched'
  BY <1>2 DEF DeskInv, SignedOncePerApproval, SignedVouched, Vouched, SentInTime, HoldsVouched, Ready
<1>10. QED
  BY <1>6, <1>8, <1>9 DEF DeskInv

-----------------------------------------------------------------------------
(* What the wallet keeps at every step. *)
LEMMA DeskInvariance == DeskSpec => []DeskInv
<1>1. DeskInit => DeskInv
  <2> SUFFICES ASSUME DeskInit PROVE DeskInv
    OBVIOUS
  <2>1. /\ desk = [f \in DeskFields |-> desk[f]] /\ desk.now = 0
        /\ desk.ledger = [h \in DeskHashes |-> "none"] /\ desk.cleared = [h \in DeskHashes |-> 0]
        /\ desk.calls = [c \in DeskCalls |-> DeskIdle] /\ desk.signed = {} /\ desk.sent = {}
        /\ desk.on = [h \in DeskHashes |-> <<>>]
    BY DEF DeskInit, DeskStart, DeskFields
  <2>2. DeskIdle \in CallStates /\ DeskIdle.at = "idle"
    BY DEF DeskIdle, Call, CallStates
  <2>3. DeskTypes
    <3>1. desk.ledger \in [DeskHashes -> LedgerStates]
      BY <2>1 DEF LedgerStates
    <3>2. desk.on \in [DeskHashes -> Seq(Signings)]
      <4>1. <<>> \in Seq(Signings)
        OBVIOUS
      <4>2. QED
        BY <4>1, <2>1
    <3>3. desk.now \in 0 .. DeskClock
      BY <2>1, ClockAssumption
    <3>4. desk.calls \in [DeskCalls -> CallStates] /\ desk.cleared \in [DeskHashes -> Nat]
      BY <2>1, <2>2
    <3>5. QED
      BY <3>1, <3>2, <3>3, <3>4, <2>1 DEF DeskTypes
  <2>4. HoldsVouched
    BY <2>1, <2>2 DEF HoldsVouched
  <2>5. AllUsedUp /\ SignedOncePerApproval /\ SignedVouched /\ SentInTime
    <3>1. \A h \in DeskHashes : DOMAIN desk.on[h] = {}
      BY <2>1
    <3>2. QED
      BY <2>1, <3>1 DEF AllUsedUp, UsedUp, SignedOncePerApproval, SignedVouched, SentInTime
  <2>6. QED
    BY <2>3, <2>4, <2>5 DEF DeskInv
<1>2. DeskInv /\ [DeskNext]_deskVars => DeskInv'
  <2> SUFFICES ASSUME DeskInv, [DeskNext]_deskVars PROVE DeskInv'
    OBVIOUS
  <2>1. ASSUME NEW c \in DeskCalls, Calls(c) \/ Answered(c) PROVE DeskInv'
    BY <2>1, CallsGood, AnsweredGood
  <2>2. ASSUME NEW hash \in DeskHashes, HostMoves(hash) PROVE DeskInv'
    BY <2>2, HostGood
  <2>3. CASE DeskTick \/ Revoke
    <3>1. /\ desk' = [f \in DeskFields |-> desk'[f]] /\ desk'.calls = desk.calls
          /\ desk'.now \in 0 .. DeskClock /\ desk'.ledger = desk.ledger
          /\ desk'.cleared = desk.cleared
          /\ desk'.on = desk.on /\ desk'.signed = desk.signed /\ desk'.sent = desk.sent
      BY <2>3, ClockAssumption DEF DeskTick, Revoke, DeskInv, DeskTypes, DeskFields
    <3>2. DeskTypes' /\ AllUsedUp' /\ SignedOncePerApproval'
      BY <3>1 DEF DeskInv, DeskTypes, AllUsedUp, UsedUp, SignedOncePerApproval
    <3>3. SignedVouched' /\ SentInTime' /\ HoldsVouched'
      BY <3>1 DEF DeskInv, SignedVouched, Vouched, SentInTime, HoldsVouched, Ready
    <3>4. QED
      BY <3>2, <3>3 DEF DeskInv
  <2>4. CASE UNCHANGED deskVars
    BY <2>4 DEF deskVars, DeskInv, DeskTypes, AllUsedUp, UsedUp, SignedOncePerApproval, SignedVouched, Vouched,
                SentInTime, HoldsVouched, Ready
  <2>5. QED
    BY <2>1, <2>2, <2>3, <2>4 DEF DeskNext
<1>3. QED
  BY <1>1, <1>2, PTL DEF DeskSpec

(* createDemandDeskWallet over the host's ledger: a hash is signed again only
   under a new approval or after a first signature that moved nothing, every
   signature spends what the desk authorized within its fee, and what is sent
   is authorized when it is sent, however the calls overlap. *)
THEOREM SpendsOnce == DeskSpec => []DeskSpendsOnce
<1>1. DeskInv => DeskSpendsOnce
  BY DEF DeskInv, DeskSpendsOnce, SignedVouched, Vouched, SentInTime
<1>2. QED
  BY <1>1, DeskInvariance, PTL

-----------------------------------------------------------------------------
(* The commands of the log verifier, for any files and any answers of an RPC. *)

(* A leaf that was found included is where its proof says in a history of the head. *)
LEMMA IncludedIsLogged ==
  ASSUME NEW sth \in CommandHeads, NEW given \in Inclusions, IncludedUnder(sth, given)
  PROVE  /\ sth \in Genuine
         /\ \E hist \in Histories :
              /\ Describes(hist, sth)
              /\ given.proof.leaf_index \in 0 .. sth.tree_size - 1
              /\ (CHOOSE l \in given.leaves : TRUE) = hist[given.proof.leaf_index + 1]
<1> DEFINE leaf == CHOOSE l \in given.leaves : TRUE
<1>1. ValidHead(sth, CommandTrust)
  BY DEF IncludedUnder, InclusionHolds
<1>2. sth \in Genuine
  BY <1>1, CommandHeadsAssumption
<1>3. PICK hist \in Histories : Describes(hist, sth)
  BY <1>2, GenuineAssumption
<1>4. VerifyInclusion(leaf, given.proof.leaf_index, sth.tree_size, given.proof.audit_path, sth.root)
  BY DEF IncludedUnder, InclusionHolds, TargetsHead, None
<1>5. sth.tree_size \in Nat
  BY <1>4 DEF VerifyInclusion
<1>6. sth.tree_size \in 0 .. Len(hist) /\ sth.root = RootAt(hist, sth.tree_size)
  BY <1>3, <1>5 DEF Describes
<1>7. given.proof.leaf_index \in 0 .. sth.tree_size - 1 /\ leaf = hist[given.proof.leaf_index + 1]
  <2>1. IsList(given.proof.audit_path)
    BY InclusionsAssumption
  <2>2. QED
    BY <1>3, <1>4, <1>6, <2>1, InclusionsAreSound
<1>8. QED
  BY <1>2, <1>3, <1>7

(* A new head that extends a genuine old one by a proof holds all the old one
   did. *)
LEMMA ExtendedIsLogged ==
  ASSUME NEW old \in CommandHeads, NEW new \in CommandHeads, NEW path \in CommandPaths,
         Extends(old, new, path)
  PROVE  /\ old \in Genuine /\ new \in Genuine
         /\ \E hist \in Histories : Describes(hist, old) /\ Describes(hist, new)
<1>1. old \in Genuine /\ new \in Genuine
  BY CommandHeadsAssumption DEF Extends
<1>2. PICK hist \in Histories : Describes(hist, new)
  BY <1>1, GenuineAssumption
<1>3. VerifyConsistency(old.tree_size, old.root, new.tree_size, new.root, path)
  BY DEF Extends
<1>4. new.tree_size \in 0 .. Len(hist) /\ new.root = RootAt(hist, new.tree_size)
  <2>1. new.tree_size \in Nat
    BY <1>3 DEF VerifyConsistency
  <2>2. QED
    BY <1>2, <2>1 DEF Describes
<1>5. Describes(hist, old)
  <2>1. PICK one \in Histories : Describes(one, old)
    BY <1>1, GenuineAssumption
  <2>2. old.tree_size \in Nat /\ new.tree_size \in Nat
    BY <1>3 DEF VerifyConsistency
  <2>3. old.tree_size \in 0 .. Len(one) /\ old.root = RootAt(one, old.tree_size)
    BY <2>1, <2>2 DEF Describes
  <2>4. old.tree_size <= new.tree_size /\ RootAt(hist, old.tree_size) = RootAt(one, old.tree_size)
    BY <1>3, <1>4, <2>3, CommandPathsAssumption, ProofsAreSound
  <2>5. Len(hist) \in Nat
    BY <1>4, FirstEntries
  <2>6. old.tree_size <= Len(hist)
    BY <1>4, <2>2, <2>4, <2>5
  <2>7. QED
    BY <2>3, <2>4, <2>6 DEF Describes
<1>6. QED
  BY <1>1, <1>2, <1>5

(* Two heads that convict are of no one history: a history has one root at a size. *)
LEMMA ConvictedIsForked ==
  ASSUME NEW a \in CommandHeads, NEW b \in CommandHeads, NEW path, Convicts(a, b, CommandTrust, path)
  PROVE  /\ a \in Genuine /\ b \in Genuine
         /\ ~\E hist \in Histories : Describes(hist, a) /\ Describes(hist, b)
BY CommandHeadsAssumption DEF Convicts, Describes

(* What the RPC answered cannot have been signed by anybody but the authority. *)
LEMMA AnchoredIsSigned ==
  ASSUME NEW sth \in CommandHeads, NEW tx, NEW ledger, NEW answer \in RpcAnswers,
         AnchorHolds(sth, tx, ledger, answer)
  PROVE  /\ sth \in Genuine
         /\ \E message \in AuthoritySigned : Binds(message, sth, ledger)
<1> DEFINE raw == answer[1].raw
<1>1. sth \in Genuine
  BY CommandHeadsAssumption DEF AnchorHolds
<1>2. answer \in RpcAnswers \ {None} /\ Len(raw.signatures) = raw.message.required
      /\ SignaturesVerify(raw)
  BY DEF AnchorHolds, Fetched, Parses
<1>3. PICK i \in 1 .. raw.message.required : raw.message.keys[i] = Authority
  BY DEF AnchorHolds, SignersOf
<1>4. raw.signatures[i].by = Authority /\ raw.signatures[i].over = raw.message
  <2>1. raw.signatures[i] = [by |-> raw.message.keys[i], over |-> raw.message]
    BY ONLY <1>2, <1>3 DEF SignaturesVerify
  <2>2. QED
    BY ONLY <1>3, <2>1
<1>5. raw.message \in AuthoritySigned
  BY <1>2, <1>3, <1>4, AuthorityAssumption
<1>6. QED
  BY <1>1, <1>5 DEF AnchorHolds

-----------------------------------------------------------------------------
CommandFields == {"at", "heads", "leaf", "index", "tx", "ledger", "convicts"}

\* Nothing was found yet; the heads are files the user holds.
CommandInv ==
  /\ command = [f \in CommandFields |-> command[f]]
  /\ command.at \in {"idle", "asked", "inclusion", "consistency", "equivocation", "anchor"}
  /\ command.at = "idle" => command = CommandIdle
  /\ command.at = "asked" => command.heads[1] \in CommandHeads /\ ~command.convicts
  /\ CommandsProve

(* twzrd-log-verifier inclusion keeps what a passing command proves. *)
LEMMA InclusionGood == ASSUME CommandInv, Inclusion PROVE CommandInv'
<1> USE DEF CommandIdle
<1>1. PICK sth \in CommandHeads, given \in Inclusions :
        command' = IF IncludedUnder(sth, given)
          THEN [command EXCEPT !.at = "inclusion", !.heads = <<sth>>,
                  !.leaf = <<CHOOSE l \in given.leaves : TRUE>>, !.index = <<given.proof.leaf_index>>]
          ELSE [command EXCEPT !.at = "inclusion", !.heads = <<>>]
  BY DEF Inclusion, Exits
<1>2. command = CommandIdle
  BY DEF Inclusion
<1>3. CASE IncludedUnder(sth, given)
  <2>1. command' = [CommandIdle EXCEPT !.at = "inclusion", !.heads = <<sth>>,
                      !.leaf = <<CHOOSE l \in given.leaves : TRUE>>, !.index = <<given.proof.leaf_index>>]
    BY <1>1, <1>2, <1>3
  <2>2. CommandsProve'
    <3>1. PICK hist \in Histories :
            /\ sth \in Genuine /\ Describes(hist, sth)
            /\ given.proof.leaf_index \in 0 .. sth.tree_size - 1
            /\ (CHOOSE l \in given.leaves : TRUE) = hist[given.proof.leaf_index + 1]
      BY <1>3, IncludedIsLogged
    <3>2. /\ command'.at = "inclusion" /\ command'.heads[1] = sth /\ ~command'.convicts
          /\ command'.leaf = <<hist[given.proof.leaf_index + 1]>> /\ command'.index[1] = given.proof.leaf_index
      BY <2>1, <3>1
    <3>3. QED
      BY <3>1, <3>2 DEF CommandsProve, Found
  <2>3. command' = [f \in CommandFields |-> command'[f]] /\ command'.at = "inclusion"
    <3> DEFINE leaf == <<CHOOSE l \in given.leaves : TRUE>>
               index == <<given.proof.leaf_index>>
    <3>1. command' = [at |-> "inclusion", heads |-> <<sth>>, leaf |-> leaf, index |-> index, tx |-> None,
                      ledger |-> None, convicts |-> FALSE]
      BY <2>1
    <3> HIDE DEF leaf, index, CommandIdle
    <3>2. QED
      BY ONLY <3>1 DEF CommandFields
  <2>4. QED
    BY <2>2, <2>3 DEF CommandInv
<1>4. CASE ~IncludedUnder(sth, given)
  BY <1>1, <1>2, <1>4 DEF CommandInv, CommandFields, CommandsProve, Found
<1>5. QED
  BY <1>3, <1>4

(* So does consistency, of two heads and one path. *)
LEMMA ConsistencyGood == ASSUME CommandInv, Consistency PROVE CommandInv'
<1>1. PICK old \in CommandHeads, new \in CommandHeads, path \in CommandPaths :
        command' = [CommandIdle EXCEPT !.at = "consistency",
                      !.heads = IF Extends(old, new, path) THEN <<old, new>> ELSE <<>>]
  BY DEF Consistency, Exits
<1>2. CASE Extends(old, new, path)
  <2>1. command' = [CommandIdle EXCEPT !.at = "consistency", !.heads = <<old, new>>]
    BY <1>1, <1>2
  <2>2. ToSet(<<old, new>>) = {old, new}
    BY DEF ToSet
  <2>3. CommandsProve'
    BY <1>2, <2>1, <2>2, ExtendedIsLogged DEF CommandsProve, Found, CommandIdle
  <2>4. QED
    BY <2>1, <2>3 DEF CommandInv, CommandFields, CommandIdle
<1>3. CASE ~Extends(old, new, path)
  BY <1>1, <1>3 DEF CommandInv, CommandFields, CommandsProve, Found, CommandIdle
<1>4. QED
  BY <1>2, <1>3

(* So does equivocation, with a path or without one. *)
LEMMA EquivocationGood == ASSUME CommandInv, Equivocation PROVE CommandInv'
<1>1. PICK a \in CommandHeads, b \in CommandHeads, path \in {None} \cup {<<p>> : p \in CommandPaths} :
        \E checked \in BOOLEAN :
        /\ Convicts(a, b, CommandTrust, path) => checked
        /\ command' = [CommandIdle EXCEPT !.at = "equivocation",
                      !.heads = IF checked THEN <<a, b>> ELSE <<>>,
                      !.convicts = Convicts(a, b, CommandTrust, path)]
  BY DEF Equivocation, Convicts
<1>2. PICK checked \in BOOLEAN :
        /\ Convicts(a, b, CommandTrust, path) => checked
        /\ command' = [CommandIdle EXCEPT !.at = "equivocation",
                      !.heads = IF checked THEN <<a, b>> ELSE <<>>,
                      !.convicts = Convicts(a, b, CommandTrust, path)]
  BY <1>1
<1>3. command'.at = "equivocation" /\ command'.convicts = Convicts(a, b, CommandTrust, path)
      /\ command'.heads = IF checked THEN <<a, b>> ELSE <<>>
  BY <1>2 DEF CommandIdle
<1>4. CommandsProve'
  <2>1. CASE Convicts(a, b, CommandTrust, path)
    <3>1. command'.heads = <<a, b>> /\ ToSet(<<a, b>>) = {a, b}
      BY <1>2, <1>3, <2>1 DEF ToSet
    <3>2. QED
      BY <1>3, <2>1, <3>1, ConvictedIsForked DEF CommandsProve, Found
  <2>2. CASE ~Convicts(a, b, CommandTrust, path)
    BY <1>3, <2>2 DEF CommandsProve, Found
  <2>3. QED
    BY <2>1, <2>2
<1>5. command' = [f \in CommandFields |-> command'[f]]
  BY <1>2 DEF CommandFields, CommandIdle
<1>6. QED
  BY <1>3, <1>4, <1>5 DEF CommandInv

(* anchor reads the transaction before it concludes. *)
LEMMA AsksRpcGood == ASSUME CommandInv, AsksRpc PROVE CommandInv'
<1>1. PICK sth \in CommandHeads, answer \in RpcAnswers \ {None}, ledger \in Ledgers :
        command' = [CommandIdle EXCEPT !.at = "asked", !.heads = <<sth>>,
                      !.tx = <<Identity(answer[1].raw)>>, !.ledger = ledger]
  BY DEF AsksRpc
<1>2. command'.at = "asked" /\ command'.heads = <<sth>> /\ ~command'.convicts
      /\ command' = [f \in CommandFields |-> command'[f]]
  BY <1>1 DEF CommandIdle, CommandFields
<1>3. CommandsProve'
  BY <1>2 DEF CommandsProve, Found
<1>4. QED
  BY <1>2, <1>3 DEF CommandInv

(* It passes on the head it read the transaction for. *)
LEMMA AnchorGood == ASSUME CommandInv, Anchor PROVE CommandInv'
<1>1. PICK answer \in RpcAnswers :
        command' = [command EXCEPT !.at = "anchor",
          !.heads = IF AnchorHolds(command.heads[1], command.tx[1], command.ledger, answer)
                      THEN command.heads ELSE <<>>]
  BY DEF Anchor, Exits
<1>2. command.heads[1] \in CommandHeads /\ ~command.convicts
  BY DEF Anchor, CommandInv
<1>3. command' = [f \in CommandFields |-> command'[f]]
  BY <1>1 DEF CommandInv, CommandFields
<1>4. command'.at = "anchor" /\ ~command'.convicts /\ command'.ledger = command.ledger
  BY <1>1, <1>2 DEF CommandInv, CommandFields
<1>5. command'.heads = IF AnchorHolds(command.heads[1], command.tx[1], command.ledger, answer)
                      THEN command.heads ELSE <<>>
  BY <1>1 DEF CommandInv, CommandFields
<1>6. CommandsProve'
  <2>1. CASE AnchorHolds(command.heads[1], command.tx[1], command.ledger, answer)
    BY <1>2, <1>4, <1>5, <2>1, AnchoredIsSigned DEF CommandsProve, Found
  <2>2. CASE ~AnchorHolds(command.heads[1], command.tx[1], command.ledger, answer)
    BY <1>4, <1>5, <2>2 DEF CommandsProve, Found
  <2>3. QED
    BY <2>1, <2>2
<1>7. QED
  BY <1>3, <1>4, <1>6 DEF CommandInv

(* Whatever files a command of the log verifier is given and whatever an RPC
   answers, a VALID names a leaf, two heads or an anchor that the log or its
   authority really signed, and only a log that signed two roots for one size is
   convicted. *)
THEOREM CommandsAreEarned == CommandSpec => []CommandsProve
<1>1. CommandInit => CommandInv
  BY DEF CommandInit, CommandInv, CommandIdle, CommandFields, CommandsProve, Found
<1>2. CommandInv /\ [CommandNext]_commandVars => CommandInv'
  <2>1. ASSUME CommandInv, [CommandNext]_commandVars PROVE CommandInv'
    <3>1. CASE UNCHANGED commandVars
      BY <2>1, <3>1 DEF commandVars, CommandInv, CommandsProve, Found
    <3>2. QED
      BY <2>1, <3>1, InclusionGood, ConsistencyGood, EquivocationGood, AsksRpcGood, AnchorGood
      DEF CommandNext
  <2>2. QED
    BY <2>1
<1>3. CommandInv => CommandsProve
  BY DEF CommandInv
<1>4. QED
  BY <1>1, <1>2, <1>3, PTL DEF CommandSpec

-----------------------------------------------------------------------------
(* The counsel fold, for any decision record and any agent directory.        *)

Places == 1 .. 7

(* The seven roles, as ROLE_ORDER lists them. *)
LEMMA RolesInOrder ==
  /\ DOMAIN ROLE_ORDER = Places /\ Len(ROLE_ORDER) = 7
  /\ ROLE_ORDER[1] = "gate_drought" /\ ROLE_ORDER[2] = "inscription"
  /\ ROLE_ORDER[3] = "settlement_not_delivery" /\ ROLE_ORDER[4] = "familiar_face"
  /\ ROLE_ORDER[5] = "collapsed_time" /\ ROLE_ORDER[6] = "one_eyed_verifier"
  /\ ROLE_ORDER[7] = "evidence_only"
BY DEF ROLE_ORDER, Places

(* No role is listed twice. *)
LEMMA RolesDiffer ==
  \A i, j \in Places : ROLE_ORDER[i] = ROLE_ORDER[j] => i = j
BY DEF ROLE_ORDER, Places

\* A role that can read what it needs and has nothing against it.
RolePasses(role, record) ==
  /\ Required[role] \subseteq DOMAIN record
  /\ Untyped(role, record) = {}
  /\ ~Objects(role, record)

(* A role refuses unless it passes, and only one that passes hands over. *)
LEMMA OutcomeIs ==
  ASSUME NEW role, NEW record
  PROVE  /\ Outcome(role, record).role = role
         /\ Outcome(role, record).verdict =
              IF RolePasses(role, record)
                THEN IF HandsOver(role, record) THEN "hand_to_human" ELSE "allow"
              ELSE "refuse"
BY DEF Outcome, RolePasses

(* A supported record passes every role, and a record that passes them all is
   supported. *)
LEMMA SupportedPasses ==
  ASSUME NEW record, Supported(record), NEW i \in Places
  PROVE  RolePasses(ROLE_ORDER[i], record)
<1> DEFINE role == ROLE_ORDER[i]
<1>1. Required[role] \subseteq RecordFields \ Observed("gate_drought")
  BY RolesInOrder DEF RecordFields, Required, Observed, Places
<1>2. Required[role] \subseteq DOMAIN record
  BY <1>1 DEF Supported
<1>3. (Required[role] \cup Observed(role)) \subseteq RecordFields
  BY RolesInOrder DEF RecordFields, Required, Places
<1>4. Untyped(role, record) = {}
  BY <1>3 DEF Untyped, Present, Supported, Flags
<1>5. ~Objects(role, record)
  <2>1. i = 1 \/ i = 2 \/ i = 3 \/ i = 4 \/ i = 5 \/ i = 6 \/ i = 7
    BY DEF Places
  <2> USE RolesInOrder DEF Objects, Supported, Shows
  <2>2. CASE i = 1
    BY <2>2
  <2>3. CASE i = 2
    BY <2>3 DEF Credential
  <2>4. CASE i = 3
    BY <2>4
  <2>5. CASE i = 4
    BY <2>5
  <2>6. CASE i = 5
    BY <2>6
  <2>7. CASE i = 6
    BY <2>7
  <2>8. CASE i = 7
    BY <2>8 DEF Required
  <2>9. QED
    BY <2>1, <2>2, <2>3, <2>4, <2>5, <2>6, <2>7, <2>8
<1>6. QED
  BY <1>2, <1>4, <1>5 DEF RolePasses

(* A record that every role passes is supported. *)
LEMMA PassesSupported ==
  ASSUME NEW record, \A i \in Places : RolePasses(ROLE_ORDER[i], record)
  PROVE  Supported(record)
<1>1. /\ RolePasses("gate_drought", record) /\ RolePasses("inscription", record)
      /\ RolePasses("settlement_not_delivery", record) /\ RolePasses("familiar_face", record)
      /\ RolePasses("collapsed_time", record) /\ RolePasses("one_eyed_verifier", record)
      /\ RolePasses("evidence_only", record)
  BY RolesInOrder DEF Places
<1>2. \A role \in DOMAIN Required : RolePasses(role, record)
  BY <1>1 DEF Required
<1>3. RecordFields \ Observed("gate_drought") \subseteq DOMAIN record
  BY <1>2 DEF RolePasses, RecordFields, Observed
<1>4. \A field \in Flags(record) \cap RecordFields : record[field] \in {"true", "false"}
  BY <1>2 DEF RolePasses, RecordFields, Untyped, Present, Flags
<1>5. /\ \A field \in {"parses_cleanly", "signature_valid", "signer_verified", "signer_pinned"} :
           field \in DOMAIN record /\ record[field] = "true"
      /\ "self_attested" \in DOMAIN record /\ record["self_attested"] # "true"
  BY <1>1 DEF RolePasses, Objects, Credential, Required
<1>6. "delivery_evidence" \in DOMAIN record /\ record["delivery_evidence"] = "true"
  BY <1>1 DEF RolePasses, Objects, Required
<1>7. "pressure_requests_override" \in DOMAIN record /\ record["pressure_requests_override"] = "false"
  BY <1>1 DEF RolePasses, Objects, Required
<1>8. /\ "unknown_key" \in DOMAIN record /\ "unknown_key_verified" \in DOMAIN record
      /\ record["unknown_key"] # "true" \/ record["unknown_key_verified"] = "true"
  BY <1>1 DEF RolePasses, Objects, Required
<1>9. "check_scope" \in DOMAIN record /\ record["check_scope"] = "full"
  BY <1>1 DEF RolePasses, Objects, Required
<1>10. \A field \in {"claim_wider_than_evidence", "quick_integration_called_traction"} :
           field \in DOMAIN record /\ record[field] # "true"
  BY <1>1 DEF RolePasses, Objects, Required
<1>11. {"self_attested", "unknown_key", "claim_wider_than_evidence", "quick_integration_called_traction"}
         \subseteq RecordFields
  BY DEF RecordFields, Required
<1>12. \A field \in {"self_attested", "unknown_key", "claim_wider_than_evidence",
                     "quick_integration_called_traction"} :
         field \in DOMAIN record => record[field] \in {"true", "false"}
  BY <1>4, <1>11 DEF Flags
<1>13. QED
  BY <1>3, <1>4, <1>5, <1>6, <1>7, <1>8, <1>9, <1>10, <1>12 DEF Supported, Shows

(* Only one role hands over, and it can do so only of a record it could read. *)
LEMMA HandOverIsRush ==
  ASSUME NEW record, NEW i \in Places
  PROVE  /\ HandsOver(ROLE_ORDER[i], record) => i = 5 /\ record["must_decide_now"] = "true"
         /\ RolePasses(ROLE_ORDER[5], record) => /\ "must_decide_now" \in DOMAIN record
                                             /\ record["must_decide_now"] \in {"true", "false"}
         /\ record["must_decide_now"] = "true" => HandsOver(ROLE_ORDER[5], record)
<1>1. HandsOver(ROLE_ORDER[i], record) => i = 5 /\ record["must_decide_now"] = "true"
  BY RolesInOrder, RolesDiffer DEF HandsOver, Places
<1>2. record["must_decide_now"] = "true" => HandsOver(ROLE_ORDER[5], record)
  BY RolesInOrder DEF HandsOver
<1>3. RolePasses(ROLE_ORDER[5], record) => /\ "must_decide_now" \in DOMAIN record
                                       /\ record["must_decide_now"] \in {"true", "false"}
  BY RolesInOrder DEF RolePasses, Untyped, Present, Required
<1>4. QED
  BY <1>1, <1>2, <1>3

-----------------------------------------------------------------------------
CounselFields == {"at", "record", "index", "checked", "refusing", "handoff", "skipped", "authorized"}

\* The roles before the current one were read and passed, in their order; a
\* hand-over among them is remembered.
Folding ==
  /\ counsel.at = "folding" /\ counsel.index \in 1 .. 8 /\ ~counsel.authorized /\ counsel.skipped = {}
  /\ counsel.checked \in Seq({Outcome(ROLE_ORDER[i], counsel.record[1]) : i \in Places})
  /\ Len(counsel.checked) = counsel.index - 1
  /\ \A i \in 1 .. counsel.index - 1 :
       /\ counsel.checked[i].role = ROLE_ORDER[i]
       /\ RolePasses(ROLE_ORDER[i], counsel.record[1])
  /\ counsel.handoff # None <=>
       5 < counsel.index /\ HandsOver(ROLE_ORDER[5], counsel.record[1])

CounselInv ==
  /\ counsel = [f \in CounselFields |-> counsel[f]]
  /\ \/ counsel = CounselIdle
     \/ Folding
     \/ counsel.at \in {"refuse", "hand_to_human", "allow"} /\ CounselFailsClosed

\* The roles before a place, and those from it on.
Before(k) == {ROLE_ORDER[i] : i \in {n \in Places : n < k}}
From(k) == {ROLE_ORDER[i] : i \in {n \in Places : n >= k}}

(* The roles before a place and those from it on are all of them, each once.
   *)
LEMMA AllAreRead ==
  ASSUME NEW k \in 1 .. 8
  PROVE  Before(k) \cap From(k) = {} /\ Before(k) \cup From(k) = ToSet(ROLE_ORDER)
<1>1. Before(k) \cap From(k) = {}
  BY RolesDiffer DEF Before, From, Places
<1>2. ToSet(ROLE_ORDER) = {ROLE_ORDER[i] : i \in Places}
  BY RolesInOrder DEF ToSet
<1>3. Before(k) \cup From(k) = {ROLE_ORDER[i] : i \in Places}
  BY DEF Before, From, Places
<1>4. QED
  BY <1>1, <1>2, <1>3

(* twzrd_counsel answers for a call that it could not read, or starts the fold. *)
LEMMA AsksGood == ASSUME CounselInv, Asks PROVE CounselInv'
<1>1. PICK case \in CounselCases :
        counsel' = IF case.record = None
                     THEN Stopped([CounselIdle EXCEPT !.record = case.record], "refuse", "input", 1)
                   ELSE IF ~Discovered(case.files)
                     THEN Stopped([CounselIdle EXCEPT !.record = case.record], "refuse", "discovery", 1)
                   ELSE [[CounselIdle EXCEPT !.record = case.record] EXCEPT !.at = "folding"]
  BY DEF Asks
<1>2. ASSUME NEW role,
             counsel' = Stopped([CounselIdle EXCEPT !.record = case.record], "refuse", role, 1)
      PROVE  CounselInv'
  <2>1. /\ counsel'.at = "refuse" /\ counsel'.checked = <<>> /\ ~counsel'.authorized
        /\ counsel' = [f \in CounselFields |-> counsel'[f]]
        /\ counsel'.skipped = {ROLE_ORDER[n] : n \in {k \in DOMAIN ROLE_ORDER : k >= 1}}
    BY <1>2 DEF Stopped, CounselIdle, CounselFields
  <2>2. counsel'.skipped = ToSet(ROLE_ORDER)
    BY <2>1, RolesInOrder DEF ToSet, Places
  <2>3. {counsel'.checked[n].role : n \in DOMAIN counsel'.checked} = {}
    BY <2>1
  <2>4. CounselFailsClosed'
    BY <2>1, <2>2, <2>3 DEF CounselFailsClosed
  <2>5. QED
    BY <2>1, <2>4 DEF CounselInv
<1>3. ASSUME counsel' = [[CounselIdle EXCEPT !.record = case.record] EXCEPT !.at = "folding"]
      PROVE  CounselInv'
  <2>1. /\ counsel'.at = "folding" /\ counsel'.checked = <<>> /\ ~counsel'.authorized
        /\ counsel' = [f \in CounselFields |-> counsel'[f]]
        /\ counsel'.index = 1 /\ counsel'.handoff = None /\ counsel'.skipped = {}
    BY <1>3 DEF CounselIdle, CounselFields
  <2>2. Folding'
    BY <2>1 DEF Folding
  <2>3. QED
    BY <2>1, <2>2 DEF CounselInv
<1>4. QED
  BY <1>1, <1>2, <1>3

(* A role refuses and stops the rest, or passes and may hand over. *)
LEMMA RoleReadsGood == ASSUME CounselInv, RoleReads PROVE CounselInv'
<1> DEFINE i == counsel.index
           record == counsel.record[1]
           outcome == Outcome(ROLE_ORDER[i], record)
           state == [counsel EXCEPT !.checked = Append(counsel.checked, outcome), !.index = i + 1]
<1>1. Folding /\ counsel = [f \in CounselFields |-> counsel[f]]
  BY DEF RoleReads, CounselInv, CounselIdle
<1>2. i \in Places
  BY RolesInOrder DEF RoleReads
<1>3. /\ outcome.role = ROLE_ORDER[i]
      /\ outcome.verdict = IF RolePasses(ROLE_ORDER[i], record)
                THEN IF HandsOver(ROLE_ORDER[i], record) THEN "hand_to_human" ELSE "allow"
              ELSE "refuse"
  BY OutcomeIs
<1>4. /\ counsel' = IF outcome.verdict = "refuse" THEN Stopped(state, "refuse", outcome.role, i + 1)
                   ELSE IF outcome.verdict = "hand_to_human"
                     THEN [state EXCEPT !.handoff = Or(counsel.handoff, <<outcome.role>>)]
                   ELSE state
  <2>1. state.handoff = counsel.handoff /\ state.index = i + 1
    BY <1>1 DEF CounselFields
  <2>2. QED
    BY <2>1 DEF RoleReads
<1>5. /\ counsel'.checked = Append(counsel.checked, outcome) /\ counsel'.index = i + 1
      /\ ~counsel'.authorized /\ counsel'.record = counsel.record
      /\ counsel' = [f \in CounselFields |-> counsel'[f]]
  BY <1>1, <1>4 DEF CounselFields, Stopped, Folding
<1>6. /\ counsel'.checked \in Seq({Outcome(ROLE_ORDER[n], counsel'.record[1]) : n \in Places})
      /\ Len(counsel'.checked) = i
      /\ \A n \in 1 .. i : counsel'.checked[n].role = ROLE_ORDER[n]
  <2> DEFINE Outcomes1 == {Outcome(ROLE_ORDER[n], record) : n \in Places}
  <2>1. counsel.checked \in Seq(Outcomes1) /\ Len(counsel.checked) = i - 1
        /\ \A n \in 1 .. i - 1 : counsel.checked[n].role = ROLE_ORDER[n]
    BY <1>1 DEF Folding
  <2>2. outcome \in Outcomes1
    BY <1>2
  <2> HIDE DEF Outcomes1, outcome
  <2>3. /\ Append(counsel.checked, outcome) \in Seq(Outcomes1)
        /\ Len(Append(counsel.checked, outcome)) = i
        /\ \A n \in 1 .. i - 1 : Append(counsel.checked, outcome)[n] = counsel.checked[n]
        /\ Append(counsel.checked, outcome)[i] = outcome
    BY <1>2, <2>1, <2>2 DEF Places
  <2>4. \A n \in 1 .. i : n \in 1 .. i - 1 \/ n = i
    BY <1>2 DEF Places
  <2>5. QED
    BY <1>3, <1>5, <2>1, <2>3, <2>4 DEF Outcomes1
<1>7. CASE outcome.verdict = "refuse"
  <2>1. /\ counsel'.at = "refuse" /\ counsel'.refusing = <<ROLE_ORDER[i]>>
        /\ counsel'.skipped = {ROLE_ORDER[n] : n \in {k \in DOMAIN ROLE_ORDER : k >= i + 1}}
    BY <1>1, <1>3, <1>4, <1>7 DEF CounselFields, Stopped
  <2>2. counsel'.skipped = From(i + 1)
    BY <2>1, RolesInOrder DEF From
  <2>3. DOMAIN counsel'.checked = 1 .. i
    BY <1>6
  <2>4. {counsel'.checked[n].role : n \in DOMAIN counsel'.checked} = Before(i + 1)
    BY <1>2, <1>6, <2>3 DEF Before, Places
  <2>5. ~Supported(record)
    BY <1>2, <1>3, <1>7, SupportedPasses
  <2>6. Last(counsel'.checked).role = ROLE_ORDER[i]
    BY <1>2, <1>6 DEF Last, Places
  <2>7. i + 1 \in 1 .. 8
    BY <1>2 DEF Places
  <2>8. CounselFailsClosed'
    <3>1. Before(i + 1) \cap From(i + 1) = {} /\ Before(i + 1) \cup From(i + 1) = ToSet(ROLE_ORDER)
      BY <2>7, AllAreRead
    <3> HIDE DEF i, record
    <3>2. counsel'.refusing[1] = ROLE_ORDER[i] /\ ~Supported(counsel'.record[1])
      BY <1>5, <2>1, <2>5 DEF record
    <3>3. QED
      BY <1>5, <2>1, <2>2, <2>4, <2>6, <3>1, <3>2 DEF CounselFailsClosed
  <2>9. QED
    BY <1>5, <2>1, <2>8 DEF CounselInv
<1>8. CASE outcome.verdict # "refuse"
  <2>1. /\ counsel'.at = "folding" /\ counsel'.skipped = {}
        /\ counsel'.handoff = IF outcome.verdict = "hand_to_human"
                                THEN Or(counsel.handoff, <<outcome.role>>) ELSE counsel.handoff
    BY <1>1, <1>4, <1>8 DEF CounselFields, Folding
  <2>2. RolePasses(ROLE_ORDER[i], record)
    BY <1>3, <1>8
  <2>3. \A n \in 1 .. i : RolePasses(ROLE_ORDER[n], record)
    <3>1. \A n \in 1 .. i - 1 : RolePasses(ROLE_ORDER[n], record)
      BY <1>1 DEF Folding
    <3>2. \A n \in 1 .. i : n \in 1 .. i - 1 \/ n = i
      BY <1>2 DEF Places
    <3>3. QED
      BY ONLY <2>2, <3>1, <3>2
  <2>4. counsel'.handoff # None <=> 5 < i + 1 /\ HandsOver(ROLE_ORDER[5], record)
    <3>1. outcome.verdict = "hand_to_human" <=> HandsOver(ROLE_ORDER[i], record)
      BY <1>3, <2>2
    <3>2. HandsOver(ROLE_ORDER[i], record) <=> i = 5 /\ HandsOver(ROLE_ORDER[5], record)
      BY <1>2, HandOverIsRush
    <3>3. counsel.handoff # None <=> 5 < i /\ HandsOver(ROLE_ORDER[5], record)
      BY <1>1 DEF Folding
    <3>4. counsel'.handoff # None <=> counsel.handoff # None \/ outcome.verdict = "hand_to_human"
      BY <2>1 DEF Or, None
    <3>5. QED
      BY <1>2, <3>1, <3>2, <3>3, <3>4 DEF Places
  <2>5. i + 1 \in 1 .. 8 /\ (i + 1) - 1 = i
    BY <1>2 DEF Places
  <2>6. Folding'
    BY <1>5, <1>6, <2>1, <2>3, <2>4, <2>5 DEF Folding
  <2>7. QED
    BY <1>5, <2>6 DEF CounselInv
<1>9. QED
  BY <1>7, <1>8

(* The fold ends after the last role, in what the roles have said. *)
LEMMA ConcludedGood == ASSUME CounselInv, Concluded PROVE CounselInv'
<1> DEFINE record == counsel.record[1]
<1>1. Folding /\ counsel = [f \in CounselFields |-> counsel[f]]
  BY DEF Concluded, CounselInv, CounselIdle
<1>2. counsel.index = 8
  BY <1>1, RolesInOrder DEF Concluded, Folding
<1>3. \A n \in Places : RolePasses(ROLE_ORDER[n], record) /\ counsel.checked[n].role = ROLE_ORDER[n]
  <2>1. \A n \in 1 .. 8 - 1 :
          counsel.checked[n].role = ROLE_ORDER[n] /\ RolePasses(ROLE_ORDER[n], record)
    BY <1>1, <1>2 DEF Folding
  <2>2. QED
    BY <2>1 DEF Places
<1>4. Supported(record)
  BY <1>3, PassesSupported
<1>5. "must_decide_now" \in DOMAIN record /\ record["must_decide_now"] \in {"true", "false"}
      /\ (record["must_decide_now"] = "true" <=> HandsOver(ROLE_ORDER[5], record))
  BY <1>3, HandOverIsRush DEF Places
<1>6. DOMAIN counsel.checked = Places
  BY <1>1, <1>2 DEF Folding, Places
<1>7. {counsel.checked[n].role : n \in DOMAIN counsel.checked} = ToSet(ROLE_ORDER)
  BY <1>3, <1>6, RolesInOrder DEF ToSet
<1>8. counsel' = IF counsel.handoff # None
                   THEN Stopped(counsel, "hand_to_human", counsel.handoff[1], counsel.index)
                 ELSE [counsel EXCEPT !.at = "allow", !.authorized = TRUE]
  BY DEF Concluded
<1>9. /\ counsel'.checked = counsel.checked /\ counsel'.record = counsel.record
      /\ counsel' = [f \in CounselFields |-> counsel'[f]]
  BY <1>1, <1>8 DEF CounselFields, Stopped
<1>10. CASE counsel.handoff # None
  <2>1. /\ counsel'.at = "hand_to_human" /\ ~counsel'.authorized
        /\ counsel'.skipped = {ROLE_ORDER[n] : n \in {k \in DOMAIN ROLE_ORDER : k >= 8}}
    BY <1>1, <1>2, <1>8, <1>10 DEF CounselFields, Stopped, Folding
  <2>2. counsel'.skipped = {}
    BY <2>1, RolesInOrder DEF Places
  <2>3. Shows(record, "must_decide_now", "true")
    BY <1>1, <1>5, <1>10 DEF Folding, Shows
  <2>4. CounselFailsClosed'
    BY <1>4, <1>7, <1>9, <2>1, <2>2, <2>3 DEF CounselFailsClosed
  <2>5. QED
    BY <1>9, <2>1, <2>4 DEF CounselInv
<1>11. CASE counsel.handoff = None
  <2>1. counsel'.at = "allow" /\ counsel'.authorized /\ counsel'.skipped = counsel.skipped
    BY <1>1, <1>8, <1>11 DEF CounselFields
  <2>2. Shows(record, "must_decide_now", "false")
    BY <1>1, <1>2, <1>5, <1>11 DEF Folding, Shows
  <2>3. counsel'.skipped = {}
    BY <1>1, <2>1 DEF Folding
  <2>4. CounselFailsClosed'
    BY <1>4, <1>7, <1>9, <2>1, <2>2, <2>3 DEF CounselFailsClosed
  <2>5. QED
    BY <1>9, <2>1, <2>4 DEF CounselInv
<1>12. QED
  BY <1>10, <1>11

(* What the counsel fold keeps at every step. *)
LEMMA CounselInvariance == CounselSpec => []CounselInv
<1>1. CounselInit => CounselInv
  BY DEF CounselInit, CounselInv, CounselIdle, CounselFields
<1>2. CounselInv /\ [CounselNext]_counselVars => CounselInv'
  <2> SUFFICES ASSUME CounselInv, [CounselNext]_counselVars PROVE CounselInv'
    OBVIOUS
  <2>1. CASE UNCHANGED counselVars
    BY <2>1 DEF counselVars, CounselInv, Folding, CounselFailsClosed
  <2>2. QED
    BY <2>1, AsksGood, RoleReadsGood, ConcludedGood DEF CounselNext
<1>3. QED
  BY <1>1, <1>2, PTL DEF CounselSpec

(* decide() authorizes a payout, hands it to a human or refuses it exactly as
   the record supports it, of whatever record and whatever agent files it was
   given: no refusal is lost after a hand-over, and no role is read twice or
   left out. *)
THEOREM CounselClosed == CounselSpec => []CounselFailsClosed
<1>1. CounselInv => CounselFailsClosed
  <2>1. CASE counsel = CounselIdle
    <3>1. counsel.at = "idle" /\ ~counsel.authorized
      BY <2>1 DEF CounselIdle
    <3>2. QED
      BY <3>1 DEF CounselFailsClosed
  <2>2. CASE Folding
    <3>1. counsel.at = "folding" /\ ~counsel.authorized
      BY <2>2 DEF Folding
    <3>2. QED
      BY <3>1 DEF CounselFailsClosed
  <2>3. QED
    BY <2>1, <2>2 DEF CounselInv
<1>2. QED
  BY <1>1, CounselInvariance, PTL

-----------------------------------------------------------------------------
(* The free approval, for any entry, flags and answers of intel.             *)

(* The price of an entry is a number, if it has one. *)
LEMMA PriceIsNumber ==
  ASSUME NEW req, Numeric(req)
  PROVE  /\ PriceUsdc(req) # None => PriceUsdc(req)[1] \in Int
         /\ Amount(req) # None => Amount(req)[1] \in Int
BY DEF Numeric, PriceUsdc, Amount, WrittenAmount, Or, None

(* An approval that wash left standing was one before, and the seller is not
   flagged above the ceiling. *)
LEMMA TightenedStands ==
  ASSUME NEW v, NEW lookup, NEW price, NEW cfg, NEW onScored,
         Tightened(v, lookup, price, cfg, onScored).approved
  PROVE  /\ v.approved
         /\ ~(cfg.refuseWashFlagged /\ ~lookup.reachable /\ ~cfg.failOpen /\ onScored)
         /\ cfg.refuseWashFlagged /\ lookup.card # None /\ lookup.card[1].washFlagged = <<TRUE>>
              => WashCapped(cfg.washMax, price)
<1> DEFINE flagged == IF cfg.refuseWashFlagged /\ lookup.card # None THEN lookup.card[1].washFlagged ELSE None
           outage == cfg.refuseWashFlagged /\ ~lookup.reachable /\ ~cfg.failOpen /\ onScored
           allows == WashAllows(cfg.refuseWashFlagged, flagged, cfg.washMax, price)
<1>1. \A w : ~Result(Verdict(FALSE, "block", v.unevaluated, w), onScored, flagged).approved
  BY DEF Result, Verdict
<1>2. v.approved
  <2> SUFFICES ASSUME ~v.approved PROVE FALSE
    OBVIOUS
  <2>1. Tightened(v, lookup, price, cfg, onScored).approved = v.approved
    BY DEF Tightened, Result
  <2>2. QED
    BY <2>1
<1>3. ~outage /\ allows
  BY <1>1, <1>2 DEF Tightened
<1>4. QED
  BY <1>2, <1>3 DEF WashAllows

(* A card that approves neither blocks nor leaves an unknown seller uncapped. *)
LEMMA CardStands ==
  ASSUME NEW card, NEW price, NEW cfg, EvaluateReadinessCard(card, price, cfg).approved
  PROVE  /\ CardDecision(card) \notin cfg.blocks
         /\ IsUnevaluatedCard(card) => ~cfg.refuseUnevaluated /\ price # None /\ card.cap # None
<1>1. CardDecision(card) \notin cfg.blocks
  BY DEF EvaluateReadinessCard, Verdict
<1>2. ASSUME IsUnevaluatedCard(card)
      PROVE  ~cfg.refuseUnevaluated /\ price # None /\ card.cap # None
  <2>1. UnevaluatedVerdict(card, price, cfg).approved
    BY <1>1, <1>2 DEF EvaluateReadinessCard
  <2>2. ~cfg.refuseUnevaluated /\ WithinCap(price, Cap(card))
    BY <2>1 DEF UnevaluatedVerdict, Verdict
  <2>3. QED
    BY <2>2 DEF WithinCap, Cap
<1>3. QED
  BY <1>1, <1>2

(* What the gate approves of an entry without a conflict is within every bound
   that its operator and intel have set. *)
LEMMA ApprovedIsBounded ==
  ASSUME NEW req, NEW cfg, NEW preflight \in Preflights, NEW lookup,
         Numeric(req), ~Conflicted(req),
         ApprovePayment(Context(req), cfg, preflight, lookup).approved
  PROVE  WithinFreeBounds(req, cfg, [preflight |-> preflight, lookup |-> lookup])
<1> DEFINE ctx == Context(req)
           price == PriceUsdc(req)
           scored == IsScored(req, cfg)
<1>1. ctx.payTo = PayTo(req) /\ ctx.price = price /\ ctx.network = req.network /\ ctx.asset = req.asset
  BY DEF Context
<1>2. \A why : ~Refused(why).approved
  BY DEF Refused, Result, Verdict
<1>3. /\ PayTo(req) # None
      /\ ~scored => ApproveUnscored(ctx, cfg, lookup).approved
      /\ scored => /\ req.asset # None => IsUsdc(req.network, PayTo(req), req.asset)
                   /\ ApproveScored(ctx, cfg, preflight, lookup).approved
  BY <1>1, <1>2 DEF ApprovePayment, IsScored
<1>4. OnePrice(req, cfg)
  <2>1. PayTo(req) = RawRecipient(req)
    BY DEF PayTo, Conflicted, RawRecipient
  <2>2. QED
    BY <1>3, <2>1 DEF OnePrice, PriceUsdc
<1>5. CASE ~scored
  <2> DEFINE observed == Verdict(cfg.mode = "observe", "unknown", FALSE, "not_scored")
  <2>1. ~cfg.refuseWashFlagged \/ Tightened(observed, lookup, price, cfg, FALSE).approved
    BY <1>1, <1>3, <1>5 DEF ApproveUnscored, Result, Verdict
  <2> HIDE DEF observed
  <2>2. WashIsCapped(req, cfg, preflight, lookup)
    BY <2>1, TightenedStands DEF WashIsCapped, WashCapped
  <2>3. NoSilentOutage(req, cfg, preflight, lookup) /\ CeilingsOfCard(req, cfg, preflight)
    BY <1>5 DEF NoSilentOutage, CeilingsOfCard
  <2>4. QED
    BY <1>4, <2>2, <2>3 DEF WithinFreeBounds
<1>6. CASE scored /\ preflight = None
  <2>1. cfg.failOpen
    BY <1>3, <1>6 DEF ApproveScored, Outage, Result, Verdict
  <2>2. NoSilentOutage(req, cfg, preflight, lookup) /\ CeilingsOfCard(req, cfg, preflight)
        /\ WashIsCapped(req, cfg, preflight, lookup)
    BY <1>6, <2>1 DEF NoSilentOutage, CeilingsOfCard, WashIsCapped
  <2>3. QED
    BY <1>4, <2>2 DEF WithinFreeBounds
<1>7. CASE scored /\ preflight # None
  <2> DEFINE card == preflight[1]
             v == EvaluateReadinessCard(card, price, cfg)
  <2>1. Tightened(v, lookup, price, cfg, TRUE).approved
        /\ ~(v.approved /\ OverRecommendedCap(card, price))
    <3>1. ~Result(Verdict(FALSE, "block", v.unevaluated, "over_cap"), TRUE, None).approved
      BY DEF Result, Verdict
    <3>2. ApproveScored(ctx, cfg, preflight, lookup).approved
      BY <1>3, <1>7
    <3>3. QED
      BY <1>1, <1>7, <3>1, <3>2 DEF ApproveScored
  <2>2. v.approved /\ ~OverRecommendedCap(card, price)
    BY <2>1, TightenedStands
  <2>3. CardDecision(card) \notin cfg.blocks
        /\ (IsUnevaluatedCard(card) => ~cfg.refuseUnevaluated /\ price # None /\ card.cap # None)
    BY <2>2, CardStands
  <2>4. card.cap # None /\ price # None => price[1] <= card.cap[1]
    <3> SUFFICES ASSUME card.cap # None, price # None PROVE price[1] <= card.cap[1]
      OBVIOUS
    <3>1. price[1] \in Int
      BY PriceIsNumber
    <3>2. card.cap[1] \in Int
      BY <1>7, PreflightsAssumption
    <3>3. ~(price[1] > card.cap[1])
      BY <2>2 DEF OverRecommendedCap
    <3> HIDE DEF card, price
    <3>4. QED
      BY <3>1, <3>2, <3>3
  <2>5. CeilingsOfCard(req, cfg, preflight)
    BY <2>3, <2>4 DEF CeilingsOfCard
  <2>6. NoSilentOutage(req, cfg, preflight, lookup)
    BY <1>7, <2>1, TightenedStands DEF NoSilentOutage
  <2>7. WashIsCapped(req, cfg, preflight, lookup)
    BY <1>7, <2>1, TightenedStands DEF WashIsCapped, WashCapped
  <2>8. QED
    BY <1>4, <2>5, <2>6, <2>7 DEF WithinFreeBounds
<1>8. QED
  BY <1>5, <1>6, <1>7

(* What is recorded of an approval, whichever it is, is coherent. *)
LEMMA RecordedAsDecided ==
  ASSUME NEW r
  PROVE  LET issued == DecisionFromApproval(r) IN
         /\ Coherent(issued[1], issued[2])
         /\ issued[1] \in {"allow", "warn"} => r.approved /\ r.scored
         /\ r.why \in {"fail_open", "fail_closed", "card_unreachable"} => issued[1] = "unavailable"
BY DEF DecisionFromApproval, Coherent, ReasonCodes

-----------------------------------------------------------------------------
(* The pre-sign hook, for any entries, options and answers.                  *)

(* A record that cleared an entry is the issuer's word about that entry. *)
LEMMA ClearsIsIssued ==
  ASSUME NEW policy, NEW rec, Chosen, Opt.clearance # None, policy = Opt.clearance[1], Clears(policy, rec)
  PROVE  /\ rec.decision \in {"allow", "warn"} /\ Coherent(rec.decision, rec.reason)
         /\ HookTime < rec.expires_at
         /\ rec.sig = RecordFor(gate.req, rec.decision, rec.reason, rec.expires_at, None, "issuer", IssuerKey).sig
<1> DEFINE keys == policy.keys[1]
<1>1. /\ policy.keys # None /\ rec.decision \in {"allow", "warn"}
      /\ Coherent(rec.decision, rec.reason) /\ HookTime < rec.expires_at
      /\ SignatureHolds(rec, keys) /\ BoundTo(rec, gate.req, None)
  BY DEF Clears, VerifiesFor
<1>2. rec.key_id = "issuer" /\ rec.sig = [by |-> IssuerKey, over |-> RecordPreimage(rec)]
  <2>1. Opt \in HookOptions
    BY DEF Chosen
  <2>2. \A name \in DOMAIN keys : name = "issuer" /\ keys[name] = IssuerKey
    BY <1>1, <2>1, KeysAssumption
  <2>3. QED
    BY <1>1, <2>2 DEF SignatureHolds
<1>3. /\ rec.challenge_hash = LeafOf(gate.req, None) /\ rec.merchant = MerchantOf(gate.req)
      /\ rec.network = Caip2[gate.req.network]
  BY <1>1 DEF BoundTo
<1>4. RecordFor(gate.req, rec.decision, rec.reason, rec.expires_at, None, "issuer", IssuerKey).sig
        = [by |-> IssuerKey, over |-> RecordPreimage(rec)]
  BY <1>2, <1>3 DEF RecordFor, RecordPreimage
<1>5. QED
  BY <1>1, <1>2, <1>4

(* What was decided stands while none of it is touched. *)
SameEntry == gate'.req = gate.req /\ gate'.opt = gate.opt
SameDecision == SameEntry /\ gate'.asked = gate.asked /\ gate'.approval = gate.approval

(* The entry, its options and a clearance record keep what is known of them.
   *)
LEMMA EntryStands ==
  ASSUME SameEntry
  PROVE  /\ Opt' = Opt /\ Cfg' = Cfg
         /\ Chosen => Chosen'
         /\ gate'.clearance = gate.clearance /\ ClearedByIssuer => ClearedByIssuer'
BY DEF SameEntry, Opt, Cfg, Chosen, ClearedByIssuer

(* So do the answers of intel, the approval and the spend. *)
LEMMA DecisionStands ==
  ASSUME SameDecision
  PROVE  /\ Approval' = Approval
         /\ AskedIntel => AskedIntel'
         /\ gate'.spent = gate.spent /\ Taken => Taken'
<1>1. Opt' = Opt /\ Cfg' = Cfg /\ (Chosen => Chosen') /\ gate'.req = gate.req
  BY EntryStands DEF SameDecision, SameEntry
<1>2. Approval' = Approval
  BY DEF SameDecision, Approval
<1>3. AskedIntel => AskedIntel'
  BY <1>1 DEF SameDecision, AskedIntel
<1>4. QED
  BY <1>1, <1>2, <1>3 DEF Taken

(* An entry whose fields name two recipients ends the hook before intel is
   asked. *)
LEMMA HookOpens == ASSUME HookInv, Opens PROVE HookInv'
<1>1. PICK req \in Reqs, opt \in HookOptions :
        gate' = [GateIdle EXCEPT !.req = req, !.opt = <<opt>>,
                   !.at = IF Conflicted(req) THEN "abort" ELSE "opened"]
  <2>1. gate = GateIdle
    BY DEF Opens
  <2>2. PICK req \in Reqs, opt \in HookOptions :
          LET g == [gate EXCEPT !.req = req, !.opt = <<opt>>]
          IN IF Conflicted(req) THEN Aborts(g) ELSE gate' = [g EXCEPT !.at = "opened"]
    BY DEF Opens
  <2>3. QED
    BY <2>1, <2>2 DEF GateIdle, Aborts
<1>2. /\ gate'.at = IF Conflicted(req) THEN "abort" ELSE "opened"
      /\ gate'.req = req /\ gate'.opt = <<opt>> /\ gate'.hops = <<>> /\ gate'.approval = None
      /\ gate'.clearance = None
      /\ gate' = [f \in HookFields |-> gate'[f]]
  BY <1>1 DEF GateIdle, HookFields
<1>3. ~Conflicted(req) => Chosen'
  BY <1>2 DEF Chosen, Opt
<1>4. HookStage'
  BY <1>2, <1>3 DEF HookStage, HookHops
<1>5. QED
  BY <1>2, <1>4 DEF HookInv

(* The free approval is kept with the answers of intel it was computed from.
   *)
LEMMA HookApproves == ASSUME HookInv, Approves PROVE HookInv'
<1>1. PICK preflight \in Preflights, lookup \in Lookups :
        gate' = [gate EXCEPT !.at = "approved",
                   !.asked = <<[preflight |-> preflight, lookup |-> lookup]>>,
                   !.approval = <<ApprovePayment(Context(gate.req), Cfg, preflight, lookup)>>]
  BY DEF Approves
<1>2. Chosen /\ gate.hops = <<>> /\ gate.clearance = None /\ gate = [f \in HookFields |-> gate[f]]
  BY DEF Approves, HookInv, HookStage, GateIdle
<1>3. /\ gate'.at = "approved" /\ gate'.hops = <<>>
      /\ gate'.asked = <<[preflight |-> preflight, lookup |-> lookup]>>
      /\ gate'.approval = <<ApprovePayment(Context(gate.req), Cfg, preflight, lookup)>>
      /\ gate'.req = gate.req /\ gate'.opt = gate.opt /\ gate'.clearance = gate.clearance
      /\ gate' = [f \in HookFields |-> gate'[f]]
  BY <1>1, <1>2 DEF HookFields
<1>4. Chosen' /\ Cfg' = Cfg
  BY <1>2, <1>3, EntryStands DEF SameEntry
<1>5. AskedIntel'
  BY <1>3, <1>4 DEF AskedIntel
<1>6. HookStage'
  BY <1>2, <1>3, <1>4, <1>5 DEF HookStage
<1>7. ~\E i \in DOMAIN gate'.hops : gate'.hops[i] \in AdviceHops
  BY <1>3
<1>8. QED
  BY <1>3, <1>6, <1>7 DEF HookInv

(* Payment Control ends the hook or leaves an approval that it has recorded. *)
LEMMA ControlledGood ==
  ASSUME HookInv, gate.at = "approved", NEW spent, NEW at \in {"abort", "free"},
         gate' = [gate EXCEPT !.spent = spent, !.at = at],
         at = "free" => Approval.approved /\ (Opt.control => spent)
  PROVE  HookInv'
<1>1. /\ Chosen /\ AskedIntel /\ gate.hops = <<>> /\ gate.clearance = None
      /\ gate = [f \in HookFields |-> gate[f]]
  BY DEF HookInv, HookStage, GateIdle
<1>2. /\ gate'.at = at /\ gate'.spent = spent /\ gate'.hops = <<>> /\ gate'.clearance = None
      /\ SameDecision /\ gate' = [f \in HookFields |-> gate'[f]]
  BY <1>1 DEF HookFields, SameDecision, SameEntry
<1>3. Chosen' /\ AskedIntel' /\ Approval' = Approval /\ Opt' = Opt
  BY <1>1, <1>2, EntryStands, DecisionStands DEF SameDecision
<1>4. ~\E i \in DOMAIN gate'.hops : gate'.hops[i] \in AdviceHops
  BY <1>2
<1>5. CASE at = "free"
  <2>1. Taken'
    BY <1>2, <1>3, <1>5 DEF Taken
  <2>2. HookStage'
    BY <1>2, <1>5, <2>1 DEF HookStage
  <2>3. QED
    BY <1>2, <1>4, <2>2 DEF HookInv
<1>6. CASE at = "abort"
  <2>1. HookHops(AdviceHops)'
    BY <1>2 DEF HookHops
  <2>2. HookStage'
    BY <1>2, <1>6, <2>1 DEF HookStage
  <2>3. QED
    BY <1>2, <1>4, <2>2 DEF HookInv
<1>7. QED
  BY <1>5, <1>6

(* Payment Control refuses what has no recipient or amount, and takes what is
   approved. *)
LEMMA HookControls == ASSUME HookInv, Controls PROVE HookInv'
<1>1. gate.at = "approved" /\ gate = [f \in HookFields |-> gate[f]]
  BY DEF Controls, HookInv
<1>2. CASE Opt.control /\ (PayTo(gate.req) = None \/ Amount(gate.req) = None)
  <2>1. gate' = [gate EXCEPT !.spent = gate.spent, !.at = "abort"]
    BY <1>1, <1>2 DEF Controls, Aborts, HookFields
  <2>2. QED
    BY <1>1, <2>1, ControlledGood
<1>3. CASE ~(Opt.control /\ (PayTo(gate.req) = None \/ Amount(gate.req) = None))
  <2>1. PICK blocks \in IF Opt.control THEN BOOLEAN ELSE {FALSE} :
          LET g == [gate EXCEPT !.spent = Opt.control /\ Approval.approved /\ ~blocks]
          IN IF blocks \/ ~Approval.approved THEN Aborts(g)
             ELSE gate' = [g EXCEPT !.at = "free"]
    BY <1>3 DEF Controls
  <2> DEFINE spent == Opt.control /\ Approval.approved /\ ~blocks
             at == IF blocks \/ ~Approval.approved THEN "abort" ELSE "free"
  <2>2. gate' = [gate EXCEPT !.spent = spent, !.at = at]
    BY <1>1, <2>1 DEF Aborts, HookFields
  <2>3. (at = "free" => Approval.approved /\ (Opt.control => spent)) /\ at \in {"abort", "free"}
    OBVIOUS
  <2> HIDE DEF spent, at
  <2>4. QED
    BY <1>1, <2>2, <2>3, ControlledGood
<1>4. QED
  BY <1>2, <1>3

\* Past the free approval only the stage, the hops, the clearance record and the
\* receipt change.
Later(at, hops, clearance) ==
  /\ gate'.at = at /\ gate'.hops = hops /\ gate'.clearance = clearance
  /\ SameDecision /\ gate'.spent = gate.spent
  /\ gate' = [f \in HookFields |-> gate'[f]]

(* A clearance is asked for before any advice is bought. *)
LEMMA ClearsGood ==
  ASSUME Taken, NEW at \in {"cleared", "abort"}, NEW hops \in {<<>>, <<"clearance">>}, NEW clearance,
         Later(at, hops, clearance), at = "cleared" => ClearedByIssuer'
  PROVE  HookInv'
<1>1. Taken' /\ gate'.hops = hops /\ gate'.at = at
  BY DecisionStands DEF Later
<1>2. HookHops({})' /\ HookHops(AdviceHops)'
  BY <1>1 DEF HookHops
<1>3. ~\E i \in DOMAIN gate'.hops : gate'.hops[i] \in AdviceHops
  BY <1>1 DEF AdviceHops
<1>4. HookStage'
  BY <1>1, <1>2 DEF HookStage
<1>5. QED
  BY <1>3, <1>4 DEF HookInv, Later

(* A clearance is missed or cleared, on a record kept or on one bought now. *)
LEMMA HookClears == ASSUME HookInv, Clearance PROVE HookInv'
<1>1. Taken /\ gate.hops = <<>> /\ gate.clearance = None /\ gate = [f \in HookFields |-> gate[f]]
  BY DEF Clearance, HookInv, HookStage, GateIdle
<1> DEFINE policy == Opt.clearance[1]
<1>2. Chosen
  BY <1>1 DEF Taken
<1>3. ASSUME Opt.clearance # None, NEW g, NEW hops \in {<<>>, <<"clearance">>},
             g = [gate EXCEPT !.hops = hops],
             Missed(policy, g) \/ \E rec : Cleared(policy, g, rec)
      PROVE  HookInv'
  <2>1. CASE \E rec : Clears(policy, rec) /\ gate' = [g EXCEPT !.at = "cleared", !.clearance = <<rec>>]
    <3>1. PICK rec : Clears(policy, rec) /\ gate' = [g EXCEPT !.at = "cleared", !.clearance = <<rec>>]
      BY <2>1
    <3>2. Later("cleared", hops, <<rec>>)
      BY <1>1, <1>3, <3>1 DEF Later, HookFields, SameDecision, SameEntry
    <3>3. gate'.clearance[1] = rec /\ Opt' = Opt /\ gate'.req = gate.req
      BY <3>2, EntryStands DEF Later, SameDecision, SameEntry
    <3>4. ClearedByIssuer'
      BY <1>2, <1>3, <3>1, <3>3, ClearsIsIssued DEF ClearedByIssuer
    <3>5. QED
      BY <1>1, <3>2, <3>4, ClearsGood
  <2>2. CASE policy.hard /\ Aborts(g)
    <3>1. Later("abort", hops, None)
      BY <1>1, <1>3, <2>2 DEF Aborts, Later, HookFields, SameDecision, SameEntry
    <3>2. QED
      BY <1>1, <3>1, ClearsGood
  <2>3. CASE ~policy.hard /\ gate' = [g EXCEPT !.at = "cleared"]
    <3>1. Later("cleared", hops, None)
      BY <1>1, <1>3, <2>3 DEF Later, HookFields, SameDecision, SameEntry
    <3>2. Opt' = Opt
      BY <3>1, EntryStands DEF Later, SameDecision
    <3>3. ClearedByIssuer'
      BY <2>3, <3>2 DEF ClearedByIssuer
    <3>4. QED
      BY <1>1, <3>1, <3>3, ClearsGood
  <2>4. QED
    BY <1>3, <2>1, <2>2, <2>3 DEF Missed, Cleared
<1>4. CASE Opt.clearance = None
  <2>1. gate' = [gate EXCEPT !.at = "cleared"]
    BY <1>4 DEF Clearance
  <2>2. Later("cleared", <<>>, None)
    BY <1>1, <2>1 DEF Later, HookFields, SameDecision, SameEntry
  <2>3. Opt' = Opt
    BY <2>2, EntryStands DEF Later, SameDecision
  <2>4. ClearedByIssuer'
    BY <1>4, <2>3 DEF ClearedByIssuer
  <2>5. QED
    BY <1>1, <2>2, <2>4, ClearsGood
<1>5. CASE Opt.clearance # None
  <2>1. gate = [gate EXCEPT !.hops = <<>>]
    BY <1>1 DEF HookFields
  <2>2. Bought("clearance") = [gate EXCEPT !.hops = <<"clearance">>]
    BY <1>1 DEF Bought, HookFields
  <2>3. \/ Missed(policy, gate) \/ \E rec : Cleared(policy, gate, rec)
        \/ Missed(policy, Bought("clearance")) \/ \E rec : Cleared(policy, Bought("clearance"), rec)
    BY <1>5 DEF Clearance
  <2>4. QED
    BY <1>3, <1>5, <2>1, <2>2, <2>3
<1>6. QED
  BY <1>4, <1>5

(* One piece of advice at most is bought past the clearance, and only on a score. *)
LEMMA EndsGood ==
  ASSUME HookInv, gate.at = "cleared", NEW at \in {"proceed", "abort"}, NEW hops,
         Later(at, hops, gate.clearance),
         \/ hops = gate.hops
         \/ /\ \E hop \in AdviceHops : hops = Append(gate.hops, hop)
            /\ Approval.scored /\ ~Approval.unevaluated
  PROVE  HookInv'
<1>1. Taken /\ HookHops({}) /\ ClearedByIssuer
  BY DEF HookInv, HookStage, GateIdle
<1>2. Taken' /\ ClearedByIssuer' /\ Approval' = Approval
  BY <1>1, DecisionStands, EntryStands DEF Later, SameDecision
<1>3. gate.hops \in {<<>>, <<"clearance">>}
  BY <1>1 DEF HookHops
<1>4. HookHops(AdviceHops)'
  BY <1>3 DEF HookHops, Later
<1>5. HookStage'
  BY <1>2, <1>4 DEF HookStage, Later
<1>6. (\E i \in DOMAIN hops : hops[i] \in AdviceHops) => Approval.scored /\ ~Approval.unevaluated
  BY <1>3 DEF AdviceHops
<1>7. QED
  BY <1>2, <1>5, <1>6 DEF HookInv, Later

(* The quick score is bought of a scored seller, and ends or lets through. *)
LEMMA HookQuick == ASSUME HookInv, Quick PROVE HookInv'
<1>1. gate.at = "cleared" /\ gate = [f \in HookFields |-> gate[f]]
  BY DEF Quick, HookInv
<1>2. Approval.scored /\ ~Approval.unevaluated
  BY DEF Quick, WantsQuick
<1>3. Aborts(Bought("quick")) \/ Proceeds(Bought("quick"))
  BY DEF Quick
<1>4. \E at \in {"proceed", "abort"} : Later(at, Append(gate.hops, "quick"), gate.clearance)
  BY <1>1, <1>3 DEF Aborts, Proceeds, Bought, Later, HookFields, SameDecision, SameEntry
<1>5. QED
  BY <1>1, <1>2, <1>4, EndsGood DEF AdviceHops

(* So does the receipt, where the policy requires it. *)
LEMMA HookReceipt == ASSUME HookInv, Receipt PROVE HookInv'
<1>1. gate.at = "cleared" /\ gate = [f \in HookFields |-> gate[f]]
  BY DEF Receipt, HookInv
<1>2. \/ Aborts(gate) \/ Proceeds(gate)
      \/ /\ Approval.scored /\ ~Approval.unevaluated
         /\ \/ Aborts(Bought("receipt")) \/ Proceeds(Bought("receipt"))
            \/ Proceeds([Bought("receipt") EXCEPT !.receipt = TRUE])
  BY DEF Receipt, ReceiptRequired, ReceiptMissed
<1>3. CASE Aborts(gate) \/ Proceeds(gate)
  <2>1. \E at \in {"proceed", "abort"} : Later(at, gate.hops, gate.clearance)
    BY <1>1, <1>3 DEF Aborts, Proceeds, Later, HookFields, SameDecision, SameEntry
  <2>2. QED
    BY <1>1, <2>1, EndsGood
<1>4. CASE \/ Aborts(Bought("receipt")) \/ Proceeds(Bought("receipt"))
           \/ Proceeds([Bought("receipt") EXCEPT !.receipt = TRUE])
  <2>1. \E at \in {"proceed", "abort"} : Later(at, Append(gate.hops, "receipt"), gate.clearance)
    BY <1>1, <1>4 DEF Aborts, Proceeds, Bought, Later, HookFields, SameDecision, SameEntry
  <2>2. CASE Approval.scored /\ ~Approval.unevaluated
    BY <1>1, <2>1, <2>2, EndsGood DEF AdviceHops
  <2>3. CASE ~(Approval.scored /\ ~Approval.unevaluated)
    BY <1>2, <1>3, <2>2, <2>3
  <2>4. QED
    BY <2>2, <2>3
<1>5. QED
  BY <1>2, <1>3, <1>4

(* The stage of the hook tells what was decided, spent and bought so far. *)
LEMMA HookInvariance == GateSpec => []HookInv
<1>1. GateInit => HookInv
  BY DEF GateInit, HookInv, HookStage, GateIdle, HookFields
<1>2. HookInv /\ [GateNext]_gateVars => HookInv'
  <2> SUFFICES ASSUME HookInv, [GateNext]_gateVars PROVE HookInv'
    OBVIOUS
  <2>1. CASE UNCHANGED gateVars
    BY <2>1 DEF gateVars, HookInv, HookStage, HookHops, Taken, Chosen, AskedIntel, Opt, Cfg, Approval,
       ClearedByIssuer
  <2>2. CASE GateNext
    BY ONLY <2>2, HookInv, HookOpens, HookApproves, HookControls, HookClears, HookQuick, HookReceipt DEF GateNext
  <2>3. QED
    BY ONLY <2>1, <2>2, [GateNext]_gateVars
<1>3. QED
  BY <1>1, <1>2, PTL DEF GateSpec

(* A second element makes a pair. *)
LEMMA AppendedPair == ASSUME NEW a, NEW b PROVE Append(<<a>>, b) = <<a, b>>
<1> DEFINE one == <<a>>
           more == Append(one, b)
           pair == <<a, b>>
<1>1. one \in Seq({a, b}) /\ Len(one) = 1 /\ one[1] = a
  OBVIOUS
<1>2. more \in Seq({a, b}) /\ Len(more) = 2 /\ more[1] = a /\ more[2] = b
  BY <1>1, AppendProperties
<1>3. pair \in Seq({a, b}) /\ Len(pair) = 2 /\ pair[1] = a /\ pair[2] = b
  OBVIOUS
<1> HIDE DEF one, more, pair
<1>4. \A i \in 1 .. 2 : more[i] = pair[i]
  BY <1>2, <1>3
<1>5. more = pair
  BY <1>2, <1>3, <1>4, SeqEqual
<1>6. QED
  BY <1>5 DEF one, more, pair

(* The hook buys no advice for a payment it refuses for free or that Payment
   Control blocked, none of a seller or network without a score, and past the
   clearance one piece at most, for any policies of receipts and escalation. *)
THEOREM AdviceBoughtOnce == GateSpec => []BuysAdviceOnce
<1>1. HookInv => BuysAdviceOnce
  <2> SUFFICES ASSUME HookInv, gate.hops # <<>>
               PROVE  /\ Approval.approved /\ (Opt.control => gate.spent)
                      /\ Cardinality({i \in DOMAIN gate.hops : gate.hops[i] # "clearance"}) <= 1
                      /\ gate.hops[1] # "clearance" \/ Len(gate.hops) = 2
                           => Approval.scored /\ ~Approval.unevaluated
    BY DEF BuysAdviceOnce
  <2>1. Taken /\ HookHops(AdviceHops)
    BY DEF HookInv, HookStage, GateIdle, HookHops
  <2> DEFINE bought == {i \in DOMAIN gate.hops : gate.hops[i] # "clearance"}
  <2>2. PICK hop \in AdviceHops :
          gate.hops = <<"clearance">> \/ gate.hops = <<hop>> \/ gate.hops = <<"clearance", hop>>
    <3>1. PICK hops \in {<<>>, <<"clearance">>} :
            gate.hops = hops \/ \E hop \in AdviceHops : gate.hops = Append(hops, hop)
      BY <2>1 DEF HookHops
    <3>2. CASE gate.hops = hops
      BY <3>2 DEF AdviceHops
    <3>3. ASSUME NEW hop \in AdviceHops, gate.hops = Append(hops, hop)
          PROVE  gate.hops = <<hop>> \/ gate.hops = <<"clearance", hop>>
      <4>1. CASE hops = <<>>
        BY ONLY <3>3, <4>1
      <4>2. CASE hops = <<"clearance">>
        BY ONLY <3>3, <4>2, AppendedPair
      <4>3. QED
        BY <4>1, <4>2
    <3>4. QED
      BY <3>1, <3>2, <3>3
  <2>3. bought \subseteq {Len(gate.hops)}
    <3>1. CASE gate.hops = <<"clearance">>
      BY <3>1
    <3>2. CASE gate.hops = <<hop>>
      BY <3>2
    <3>3. CASE gate.hops = <<"clearance", hop>>
      <4>1. DOMAIN gate.hops = {1, 2} /\ Len(gate.hops) = 2 /\ gate.hops[1] = "clearance"
        BY <3>3
      <4>2. QED
        BY <4>1
    <3>4. QED
      BY <2>2, <3>1, <3>2, <3>3
  <2>4. Cardinality(bought) <= 1
    <3> HIDE DEF bought
    <3>1. IsFiniteSet({Len(gate.hops)}) /\ Cardinality({Len(gate.hops)}) = 1
      BY FS_Singleton
    <3>2. QED
      BY <2>3, <3>1, FS_Subset
  <2>5. gate.hops[1] # "clearance" \/ Len(gate.hops) = 2
          => \E i \in DOMAIN gate.hops : gate.hops[i] \in AdviceHops
    BY <2>2
  <2>6. QED
    BY <2>1, <2>4, <2>5 DEF Taken, HookInv
<1>2. QED
  BY <1>1, HookInvariance, PTL

(* A payment that the hook lets through, on whichever path of clearance, quick
   score and receipt, is at one price within every ceiling, rests on no outage
   its operator did not accept, and carries the issuer's word where one is
   demanded; and what would be recorded of any approval agrees with it. *)
THEOREM HookPaysBounded == GateSpec => []HookPaysWithinBounds
<1>1. HookInv => HookPaysWithinBounds
  <2> SUFFICES ASSUME HookInv PROVE HookPaysWithinBounds
    OBVIOUS
  <2>1. IssuedAsDecided
    BY RecordedAsDecided DEF IssuedAsDecided, Issuable
  <2>2. ASSUME gate.at = "proceed" PROVE WithinFreeBounds(gate.req, Cfg, gate.asked[1]) /\ ClearedByIssuer
    <3> DEFINE preflight == gate.asked[1].preflight
               lookup == gate.asked[1].lookup
    <3>1. Taken /\ ClearedByIssuer
      BY <2>2 DEF HookInv, HookStage, GateIdle
    <3>2. /\ gate.req \in Reqs /\ ~Conflicted(gate.req) /\ preflight \in Preflights
          /\ ApprovePayment(Context(gate.req), Cfg, preflight, lookup).approved
      BY <3>1 DEF Taken, Chosen, AskedIntel, Approval
    <3>3. WithinFreeBounds(gate.req, Cfg, [preflight |-> preflight, lookup |-> lookup])
      BY <3>2, ReqsAssumption, ApprovedIsBounded
    <3>4. QED
      BY <3>1, <3>3 DEF WithinFreeBounds
  <2>3. QED
    BY <2>1, <2>2 DEF HookPaysWithinBounds
<1>2. QED
  BY <1>1, HookInvariance, PTL

-----------------------------------------------------------------------------
(* The evaluation of a resource, for any entries, options and answers.       *)

EvalFields == {"at", "req", "opt", "asked", "approval", "hops", "score", "receipt", "answered", "log", "approved"}

\* The free decision stands, and it was of an entry with a recipient.
EvalFree ==
  /\ Len(eval.opt) = 1 /\ EOpt \in EvalOptions
  /\ eval.approved <=> EApproval.approved
  /\ EApproval.approved => PayTo(eval.req) # None

\* What an approval has earned once the evaluation ends.
EvalEarned ==
  /\ OnlyTightens
  /\ RequiredHopTaken
  /\ StrictLogPolicy /\ EAttempts => ReceiptIsLogged

EvalInv ==
  /\ eval = [f \in EvalFields |-> eval[f]]
  /\ \/ eval = EvalIdle
     \/ eval.at = "free" /\ EvalFree /\ eval.hops = <<>> /\ eval.score = None
     \/ /\ eval.at = "proving" /\ EvalFree /\ ~EQuick
        /\ eval.answered /\ eval.receipt # None /\ eval.receipt \in Receipts
     \/ eval.at = "done" /\ (eval.approved => EvalEarned)

\* Past the free decision only the hops and what came of them change.
SameCase ==
  /\ eval'.req = eval.req /\ eval'.opt = eval.opt
  /\ eval'.asked = eval.asked /\ eval'.approval = eval.approval

(* What is decided of a case by its options and its free decision stays so. *)
LEMMA CaseStands ==
  ASSUME SameCase
  PROVE  /\ OnlyTightens' <=> OnlyTightens
         /\ StrictLogPolicy' <=> StrictLogPolicy
         /\ EAttempts' <=> EAttempts
         /\ HardRequired' <=> HardRequired
         /\ (EQuick' <=> EQuick) /\ QuickFloor' = QuickFloor
         /\ EApproval' = EApproval
         /\ eval'.approved = eval.approved => (EvalFree' <=> EvalFree)
<1>1. EOpt' = EOpt /\ EPrice' = EPrice /\ EApproval' = EApproval
  BY DEF SameCase, EOpt, EPrice, EApproval
<1>2. EDecision' = EDecision
  BY <1>1 DEF SameCase, EDecision
<1>3. OnlyTightens' <=> OnlyTightens
  BY <1>1 DEF OnlyTightens
<1>4. StrictLogPolicy' <=> StrictLogPolicy
  BY <1>1 DEF StrictLogPolicy
<1>5. (ERequired' <=> ERequired) /\ (EWanted' <=> EWanted)
  BY <1>1, <1>2 DEF ERequired, EWanted
<1>6. EQuick' <=> EQuick
  BY <1>1, <1>2 DEF SameCase, EQuick
<1>7. QuickFloor' = QuickFloor
  BY <1>1 DEF QuickFloor
<1>8. (EAttempts' <=> EAttempts) /\ (HardRequired' <=> HardRequired)
  BY <1>1, <1>5, <1>6 DEF EAttempts, HardRequired
<1>9. eval'.approved = eval.approved => (EvalFree' <=> EvalFree)
  BY <1>1 DEF SameCase, EvalFree
<1>10. QED
  BY <1>1, <1>3, <1>4, <1>6, <1>7, <1>8, <1>9

\* The evaluation ends, with an answer.
Finished(approved, answered, receipt) ==
  /\ eval' = [f \in EvalFields |-> eval'[f]]
  /\ SameCase
  /\ eval'.at = "done" /\ eval'.approved = approved
  /\ eval'.answered = answered /\ eval'.receipt = receipt

(* An evaluation ends well if the hop its policy demands was taken, and a
   receipt that must be in the log is. *)
LEMMA FinishedGood ==
  ASSUME NEW approved, NEW answered, NEW receipt, Finished(approved, answered, receipt),
         approved => /\ EApproval.approved
                     /\ answered \/ ~(HardRequired /\ EApproval.scored /\ ~EQuick)
                     /\ EQuick => eval'.hops = <<"quick">>
                                    /\ (eval'.score # None => eval'.score[1] >= QuickFloor)
                     /\ StrictLogPolicy /\ EAttempts => ReceiptIsLogged /\ receipt = eval.receipt
  PROVE  EvalInv'
<1>1. ASSUME approved PROVE EvalEarned'
  <2>1. OnlyTightens'
    BY <1>1, CaseStands DEF Finished, OnlyTightens
  <2>2. RequiredHopTaken'
    <3>1. /\ HardRequired' /\ EApproval'.scored /\ ~EQuick' => HardRequired /\ EApproval.scored /\ ~EQuick
          /\ EQuick' => EQuick
          /\ QuickFloor' = QuickFloor /\ eval'.answered = answered
      BY CaseStands DEF Finished
    <3> HIDE DEF HardRequired, EQuick, QuickFloor, EApproval
    <3>2. QED
      BY <1>1, <3>1 DEF RequiredHopTaken
  <2>3. StrictLogPolicy' /\ EAttempts' => ReceiptIsLogged'
    BY <1>1, CaseStands DEF Finished, ReceiptIsLogged
  <2>4. QED
    BY <2>1, <2>2, <2>3 DEF EvalEarned
<1>2. QED
  BY <1>1 DEF Finished, EvalInv


(* Between the actions the free decision stands. *)
LEMMA FreeStands ==
  ASSUME EvalInv, eval.at = "free"
  PROVE  EvalFree /\ eval.hops = <<>> /\ eval.score = None /\ eval = [f \in EvalFields |-> eval[f]]
BY DEF EvalInv, EvalIdle

(* A conflicted entry ends at once; any other has a free decision. *)
LEMMA EvaluatesGood == ASSUME EvalInv, Evaluates PROVE EvalInv'
<1>1. PICK req \in Reqs, opt \in EvalOptions, preflight \in Preflights, lookup \in Lookups :
        LET asked == [eval EXCEPT !.req = req, !.opt = <<opt>>]
            approval == ApprovePayment(Context(req), opt.cfg, preflight, lookup)
        IN IF Conflicted(req) THEN EEnds(asked, FALSE)
           ELSE eval' = [asked EXCEPT !.at = "free", !.approved = approval.approved,
                           !.asked = <<[preflight |-> preflight, lookup |-> lookup]>>,
                           !.approval = <<approval>>]
  BY DEF Evaluates
<1> DEFINE approval == ApprovePayment(Context(req), opt.cfg, preflight, lookup)
<1>2. eval = EvalIdle
  BY DEF Evaluates
<1>3. CASE Conflicted(req)
  <2>1. eval' = [EvalIdle EXCEPT !.req = req, !.opt = <<opt>>, !.at = "done", !.approved = FALSE]
    BY <1>1, <1>2, <1>3 DEF EEnds, EvalIdle
  <2>2. eval'.at = "done" /\ ~eval'.approved /\ eval' = [f \in EvalFields |-> eval'[f]]
    BY <2>1 DEF EvalIdle, EvalFields
  <2>3. QED
    BY <2>2 DEF EvalInv
<1>4. CASE ~Conflicted(req)
  <2>1. eval' = [EvalIdle EXCEPT !.req = req, !.opt = <<opt>>, !.at = "free",
                   !.approved = approval.approved,
                   !.asked = <<[preflight |-> preflight, lookup |-> lookup]>>,
                   !.approval = <<approval>>]
    BY <1>1, <1>2, <1>4 DEF EvalIdle
  <2> HIDE DEF approval
  <2>2. /\ eval'.at = "free" /\ eval'.req = req /\ eval'.opt = <<opt>>
        /\ eval'.approved = approval.approved /\ eval'.approval = <<approval>>
        /\ eval'.hops = <<>> /\ eval'.score = None
        /\ eval' = [f \in EvalFields |-> eval'[f]]
    BY <2>1 DEF EvalIdle, EvalFields
  <2>3. approval.approved => PayTo(req) # None
    <3>1. Context(req).payTo = PayTo(req)
      BY DEF Context
    <3>2. ~Refused("no_recipient").approved
      BY DEF Refused, Result, Verdict
    <3>3. QED
      BY <3>1, <3>2 DEF approval, ApprovePayment
  <2>4. EvalFree'
    BY <2>2, <2>3 DEF EvalFree, EOpt, EApproval
  <2>5. QED
    BY <2>2, <2>4 DEF EvalInv
<1>5. QED
  BY <1>3, <1>4

(* The quick hop ends an evaluation, in place of the receipt. *)
LEMMA EscalatesGood == ASSUME EvalInv, Escalates PROVE EvalInv'
<1>1. /\ eval.at = "free" /\ EQuick /\ EvalFree /\ eval = [f \in EvalFields |-> eval[f]]
      /\ eval.hops = <<>> /\ Append(eval.hops, "quick") = <<"quick">>
  BY FreeStands, FirstReport DEF Escalates
<1>2. EApproval.approved /\ ~EAttempts
  BY <1>1 DEF EQuick, EAttempts
<1>3. CASE EEnds(EBought("quick"), eval.approved)
  <2>1. /\ Finished(eval.approved, eval.answered, eval.receipt)
        /\ eval'.hops = <<"quick">> /\ eval'.score = eval.score
    BY <1>1, <1>3 DEF EEnds, EBought, Finished, SameCase, EvalFields
  <2>2. eval.score = None
    BY <1>1, FreeStands
  <2>3. QED
    BY <1>1, <1>2, <2>1, <2>2, FinishedGood
<1>4. ASSUME NEW score, EEnds([EBought("quick") EXCEPT !.score = <<score>>], score >= QuickFloor)
      PROVE  EvalInv'
  <2>1. /\ Finished(score >= QuickFloor, eval.answered, eval.receipt)
        /\ eval'.hops = <<"quick">> /\ eval'.score = <<score>>
    <3> HIDE DEF QuickFloor
    <3>1. QED
      BY <1>1, <1>4 DEF EEnds, EBought, Finished, SameCase, EvalFields
  <2> DEFINE passed == score >= QuickFloor
  <2>2. passed => eval'.score[1] >= QuickFloor
    BY <2>1
  <2>3. Finished(passed, eval.answered, eval.receipt)
    BY <2>1
  <2> HIDE DEF passed
  <2>4. QED
    BY <1>1, <1>2, <2>1, <2>2, <2>3, FinishedGood
<1>5. QED
  BY <1>3, <1>4 DEF Escalates

(* Without a receipt, a demand for one is refused or is no hard one. *)
LEMMA MissedGood ==
  ASSUME EvalInv, eval.at = "free", ~EQuick, NEW e, NEW hops, e = [eval EXCEPT !.hops = hops],
         \/ EMissed(e)
         \/ /\ WithoutReceipt(e)
            /\ EApproval.approved => ~(HardRequired /\ EApproval.scored /\ ~EQuick)
  PROVE  EvalInv'
<1>1. EvalFree /\ eval = [f \in EvalFields |-> eval[f]]
  BY FreeStands
<1>2. e.approved = eval.approved
  BY <1>1 DEF EvalFields
<1>3. ASSUME NEW approved, EEnds(e, approved) PROVE Finished(approved, eval.answered, eval.receipt)
  BY <1>1, <1>3 DEF EEnds, Finished, SameCase, EvalFields
<1>4. CASE EMissed(e) /\ HardRequired
  <2>1. Finished(FALSE, eval.answered, eval.receipt)
    BY <1>3, <1>4 DEF EMissed
  <2>2. QED
    BY <2>1, FinishedGood
<1>5. CASE ~(EMissed(e) /\ HardRequired)
  <2>1. WithoutReceipt(e) /\ (EApproval.approved => ~(HardRequired /\ EApproval.scored /\ ~EQuick))
    BY <1>5 DEF EMissed
  <2>2. CASE EOpt.logPolicy # None /\ EAttempts
    <3>1. EEnds(e, e.approved /\ (FALSE \/ ~EOpt.logPolicy[1].hard))
      BY <2>1, <2>2 DEF WithoutReceipt, LogEnds
    <3>2. Finished(e.approved /\ (FALSE \/ ~EOpt.logPolicy[1].hard), eval.answered, eval.receipt)
      BY <1>3, <3>1
    <3>3. e.approved /\ (FALSE \/ ~EOpt.logPolicy[1].hard) => EApproval.approved /\ ~StrictLogPolicy
      BY <1>1, <1>2 DEF EvalFree, StrictLogPolicy
    <3>4. QED
      BY <2>1, <3>2, <3>3, FinishedGood
  <2>3. CASE ~(EOpt.logPolicy # None /\ EAttempts)
    <3>1. Finished(e.approved, eval.answered, eval.receipt)
      BY <1>3, <2>1, <2>3 DEF WithoutReceipt
    <3>2. e.approved => EApproval.approved
      BY <1>1, <1>2 DEF EvalFree
    <3>3. ~(StrictLogPolicy /\ EAttempts)
      BY <2>3 DEF StrictLogPolicy
    <3>4. QED
      BY <2>1, <3>1, <3>2, <3>3, FinishedGood
  <2>4. QED
    BY <2>2, <2>3
<1>6. QED
  BY <1>4, <1>5

(* The receipt is bought, or its want is judged. *)
LEMMA BuysReceiptGood == ASSUME EvalInv, BuysReceipt PROVE EvalInv'
<1>1. /\ eval.at = "free" /\ EvalFree /\ EAttempts /\ eval = [f \in EvalFields |-> eval[f]]
  BY FreeStands DEF BuysReceipt
<1>2. CASE EMissed(EBought("receipt"))
  <2>1. EBought("receipt") = [eval EXCEPT !.hops = Append(eval.hops, "receipt")]
    BY DEF EBought
  <2>2. QED
    BY <1>1, <1>2, <2>1, MissedGood DEF EAttempts
<1>3. ASSUME NEW receipt \in Receipts, NEW e,
             e = [EBought("receipt") EXCEPT !.receipt = receipt, !.answered = TRUE],
             IF EOpt.logPolicy = None THEN EEnds(e, e.approved)
             ELSE IF receipt = None \/ ~EOpt.logPolicy[1].wired THEN LogEnds(e, FALSE)
             ELSE eval' = [e EXCEPT !.at = "proving"]
      PROVE  EvalInv'
  <2>1. /\ e.approved = eval.approved /\ e.req = eval.req /\ e.opt = eval.opt
        /\ e.asked = eval.asked /\ e.approval = eval.approval
        /\ e.receipt = receipt /\ e.answered = TRUE /\ e = [f \in EvalFields |-> e[f]]
    BY <1>1, <1>3 DEF EBought, EvalFields
  <2>2. ASSUME NEW approved, EEnds(e, approved) PROVE Finished(approved, TRUE, receipt)
    BY <2>1, <2>2 DEF EEnds, Finished, SameCase, EvalFields
  <2>3. CASE EOpt.logPolicy = None
    <3>1. Finished(e.approved, TRUE, receipt)
      BY <1>3, <2>2, <2>3
    <3>2. ~StrictLogPolicy /\ ~EQuick /\ (e.approved => EApproval.approved)
      BY <1>1, <2>1, <2>3 DEF StrictLogPolicy, EvalFree, EAttempts
    <3>3. QED
      BY <3>1, <3>2, FinishedGood
  <2>4. CASE LogEnds(e, FALSE)
    <3>1. Finished(e.approved /\ (FALSE \/ ~EOpt.logPolicy[1].hard), TRUE, receipt)
      BY <2>2, <2>4 DEF LogEnds
    <3>2. ~EQuick /\ (e.approved /\ (FALSE \/ ~EOpt.logPolicy[1].hard) => EApproval.approved /\ ~StrictLogPolicy)
      BY <1>1, <2>1 DEF EvalFree, StrictLogPolicy, EAttempts
    <3>3. QED
      BY <3>1, <3>2, FinishedGood
  <2>5. CASE receipt # None /\ eval' = [e EXCEPT !.at = "proving"]
    <3>1. /\ eval'.at = "proving" /\ SameCase /\ eval'.approved = eval.approved
          /\ eval'.answered /\ eval'.receipt = receipt /\ eval' = [f \in EvalFields |-> eval'[f]]
      BY <2>1, <2>5 DEF SameCase, EvalFields
    <3>2. EvalFree' /\ ~EQuick'
      BY <1>1, <3>1, CaseStands DEF EAttempts
    <3>3. QED
      BY <2>5, <3>1, <3>2 DEF EvalInv
  <2>6. QED
    BY <1>3, <2>3, <2>4, <2>5
<1>4. ASSUME ~EMissed(EBought("receipt"))
      PROVE  \E receipt \in Receipts :
               LET e == [EBought("receipt") EXCEPT !.receipt = receipt, !.answered = TRUE]
               IN IF EOpt.logPolicy = None THEN EEnds(e, e.approved)
                  ELSE IF receipt = None \/ ~EOpt.logPolicy[1].wired THEN LogEnds(e, FALSE)
                  ELSE eval' = [e EXCEPT !.at = "proving"]
  BY <1>4 DEF BuysReceipt
<1>5. QED
  BY <1>2, <1>3, <1>4

(* With a paying fetch, a hard demand of a scored entry is always attempted. *)
LEMMA SkipsReceiptGood == ASSUME EvalInv, SkipsReceipt PROVE EvalInv'
<1>1. /\ eval.at = "free" /\ EvalFree /\ ~EQuick /\ eval = [f \in EvalFields |-> eval[f]]
      /\ ~(EAttempts /\ EOpt.x402 /\ PayTo(eval.req) # None)
  BY FreeStands DEF SkipsReceipt
<1>2. eval = [eval EXCEPT !.hops = eval.hops]
  BY <1>1 DEF EvalFields
<1>3. CASE ~EOpt.x402
  BY <1>1, <1>2, <1>3, MissedGood DEF SkipsReceipt
<1>4. CASE EOpt.x402
  <2>1. EApproval.approved => ~(HardRequired /\ EApproval.scored /\ ~EQuick)
    <3> SUFFICES ASSUME EApproval.approved, HardRequired, EApproval.scored, ~EQuick PROVE FALSE
      OBVIOUS
    <3>1. EWanted
      BY DEF HardRequired, ERequired, EWanted, RequiresReceipt
    <3>2. PayTo(eval.req) # None
      BY <1>1 DEF EvalFree
    <3>3. QED
      BY <1>1, <1>4, <3>1, <3>2 DEF EAttempts
  <2>2. WithoutReceipt(eval)
    BY <1>4 DEF SkipsReceipt
  <2>3. QED
    BY <1>1, <1>2, <2>1, <2>2, MissedGood
<1>5. QED
  BY <1>3, <1>4

(* What the verifier finds under the operator's pin is in the log. *)
LEMMA AllowedIsLogged ==
  ASSUME NEW opt \in EvalOptions, NEW receipt \in Receipts,
         receipt # None, receipt[1].leaf # None, NEW reply \in LogAnswers, NEW policy,
         policy.onPending = "deny", policy.refuseTofu,
         LogInclusionAllows(policy, LogVerdict(receipt[1].leaf[1], opt, reply))
  PROVE  \E hist \in Histories, h \in Genuine :
           Describes(hist, h) /\ receipt[1].leaf[1] \in ToSet(SubSeq(hist, 1, h.tree_size))
<1> DEFINE leaf == receipt[1].leaf[1]
           trust == ResolveTrust(opt.pin, reply.descriptor, opt.trustDescriptorKeys)
           seen == LogVerdict(leaf, opt, reply)
           proof == reply.path[1]
           sth == reply.sth[1]
<1>1. seen.valid /\ ~seen.tofu
  BY DEF LogInclusionAllows
<1>2. /\ trust # None /\ ~trust[1].tofu /\ reply.proof \notin {"not_merged", "fails"}
      /\ InclusionHolds({leaf}, proof, reply.sth, trust[1].trusted)
  BY <1>1 DEF LogVerdict
<1>3. opt.pin # None /\ trust[1].trusted = opt.pin[1]
  BY <1>2 DEF ResolveTrust
<1>4. (CHOOSE l \in {leaf} : TRUE) = leaf
  OBVIOUS
<1>5. /\ reply.sth # None /\ ValidHead(sth, opt.pin[1])
      /\ VerifyInclusion(leaf, proof.leaf_index, sth.tree_size, proof.audit_path, sth.root)
  BY <1>2, <1>3, <1>4 DEF InclusionHolds, TargetsHead, None
<1>6. sth \in Genuine
  BY <1>3, <1>5, PinsAssumption
<1>7. PICK hist \in Histories : Describes(hist, sth)
  BY <1>6, GenuineAssumption
<1>8. sth.tree_size \in Nat
  BY <1>5 DEF VerifyInclusion
<1>9. sth.tree_size \in 0 .. Len(hist) /\ sth.root = RootAt(hist, sth.tree_size)
  BY <1>7, <1>8 DEF Describes
<1>10. reply.path # None
  BY <1>2, LogAnswersAssumption
<1>11. leaf \in ToSet(SubSeq(hist, 1, sth.tree_size))
  <2>1. IsList(proof.audit_path)
    BY <1>10, LogAnswersAssumption
  <2>2. QED
    BY <1>5, <1>7, <1>9, <2>1, InclusionsAreSound
<1>12. QED
  BY <1>6, <1>7, <1>11

(* The verifier's answer denies under a strict policy, or the receipt is logged. *)
LEMMA ProvesReceiptGood == ASSUME EvalInv, ProvesReceipt PROVE EvalInv'
<1>1. /\ eval.at = "proving" /\ EvalFree /\ ~EQuick /\ eval.answered /\ eval.receipt # None
      /\ eval.receipt \in Receipts /\ eval = [f \in EvalFields |-> eval[f]]
  BY DEF ProvesReceipt, EvalInv, EvalIdle
<1>2. ASSUME NEW e, NEW allows, LogEnds(e, allows), e = [f \in EvalFields |-> e[f]],
             e.approved = eval.approved /\ e.req = eval.req /\ e.opt = eval.opt
               /\ e.asked = eval.asked /\ e.approval = eval.approval
               /\ e.receipt = eval.receipt /\ e.answered = eval.answered,
             allows => (StrictLogPolicy => ReceiptIsLogged)
      PROVE  EvalInv'
  <2> DEFINE approved == e.approved /\ (allows \/ ~EOpt.logPolicy[1].hard)
  <2>1. Finished(approved, eval.answered, eval.receipt)
    BY <1>2 DEF LogEnds, EEnds, Finished, SameCase, EvalFields
  <2>2. approved => EApproval.approved /\ (StrictLogPolicy => ReceiptIsLogged)
    BY <1>1, <1>2 DEF EvalFree, StrictLogPolicy
  <2> HIDE DEF approved
  <2>3. QED
    BY <1>1, <2>1, <2>2, FinishedGood
<1>3. CASE eval.receipt[1].leaf = None
  <2>1. LogEnds(eval, FALSE)
    BY <1>3 DEF ProvesReceipt
  <2>2. QED
    BY <1>1, <1>2, <2>1
<1>4. CASE eval.receipt[1].leaf # None
  <2>1. PICK reply \in LogAnswers :
          LogEnds([eval EXCEPT !.log = <<reply>>],
                  LogInclusionAllows(EOpt.logPolicy[1], LogVerdict(eval.receipt[1].leaf[1], EOpt, reply)))
    BY <1>4 DEF ProvesReceipt
  <2> DEFINE e == [eval EXCEPT !.log = <<reply>>]
             allows == LogInclusionAllows(EOpt.logPolicy[1], LogVerdict(eval.receipt[1].leaf[1], EOpt, reply))
  <2>2. /\ e.approved = eval.approved /\ e.req = eval.req /\ e.opt = eval.opt
        /\ e.asked = eval.asked /\ e.approval = eval.approval
        /\ e.receipt = eval.receipt /\ e.answered = eval.answered /\ e = [f \in EvalFields |-> e[f]]
    BY <1>1 DEF EvalFields
  <2>3. allows => (StrictLogPolicy => ReceiptIsLogged)
    <3> SUFFICES ASSUME allows, StrictLogPolicy PROVE ReceiptIsLogged
      OBVIOUS
    <3>1. EOpt \in EvalOptions /\ EOpt.logPolicy[1].onPending = "deny" /\ EOpt.logPolicy[1].refuseTofu
      BY <1>1 DEF EvalFree, StrictLogPolicy
    <3>2. \E hist \in Histories, h \in Genuine :
             Describes(hist, h) /\ eval.receipt[1].leaf[1] \in ToSet(SubSeq(hist, 1, h.tree_size))
      BY <1>1, <1>4, <3>1, AllowedIsLogged
    <3>3. QED
      BY <1>1, <3>2 DEF ReceiptIsLogged
  <2> HIDE DEF e, allows
  <2>4. LogEnds(e, allows)
    BY <2>1 DEF e, allows
  <2>5. QED
    BY <1>2, <2>2, <2>3, <2>4
<1>5. QED
  BY <1>3, <1>4

(* An evaluation approves only what the free decision approved, once the hop its
   policy demands was taken: the quick hop of a warn that is escalated, whose
   score decides if one came, or else a 200 of the receipt's endpoint where a
   receipt is hard required; and under a strict log policy an attempt ended with
   a receipt that is in the log its operator pinned, whatever that log and the
   issuer of the receipt answer. *)
THEOREM ApprovedOnAnswer == EvalSpec => []ApprovalIsEarned
<1>1. EvalInit => EvalInv
  BY DEF EvalInit, EvalInv, EvalIdle, EvalFields
<1>2. EvalInv /\ [EvalNext]_evalVars => EvalInv'
  <2> SUFFICES ASSUME EvalInv, [EvalNext]_evalVars PROVE EvalInv'
    OBVIOUS
  <2>1. CASE UNCHANGED evalVars
    <3>1. eval' = eval /\ SameCase
      BY <2>1 DEF evalVars, SameCase
    <3>2. EvalEarned => EvalEarned'
      BY <3>1, CaseStands DEF EvalEarned, RequiredHopTaken, ReceiptIsLogged
    <3>3. (EvalFree => EvalFree') /\ (EQuick' <=> EQuick)
      BY <3>1, CaseStands
    <3>4. QED
      BY <3>1, <3>2, <3>3 DEF EvalInv
  <2>2. QED
    BY <2>1, EvaluatesGood, EscalatesGood, BuysReceiptGood, SkipsReceiptGood, ProvesReceiptGood DEF EvalNext
<1>3. EvalInv => ApprovalIsEarned
  BY DEF EvalInv, EvalIdle, ApprovalIsEarned, EvalEarned
<1>4. QED
  BY <1>1, <1>2, <1>3, PTL DEF EvalSpec

-----------------------------------------------------------------------------
(* The advisory pre-check, for any probe answers, options and deliveries.    *)

SafeFields == {"phase", "opt", "probe", "asked", "requests", "paid", "delivered", "observed"}

\* The payer may run: what was scored is bounded.
Payable == ~safe.opt[1].dryRun /\ WithinFreeBounds(ScoredOffer, safe.opt[1].cfg, safe.asked[1])

\* An offer with one reading was probed and nothing was asked yet.
Offered ==
  /\ safe.opt[1] \in SafeOptions /\ safe.probe[1] \in ProbeAnswers
  /\ Len(safe.opt) = 1 /\ Len(safe.probe) = 1
  /\ ~Conflicted(ScoredOffer)

SafeInv ==
  /\ safe = [f \in SafeFields |-> safe[f]]
  /\ \/ safe = SafeIdle
     \/ /\ safe.phase \in {"error", "passthrough", "blocked", "dry_run_allowed"}
        /\ safe.requests # 2 /\ safe.observed = None
     \/ safe.phase = "offered" /\ Offered /\ safe.requests = 1 /\ safe.observed = None
     \/ safe.phase \in {"paying", "payer_failed"} /\ Payable /\ safe.observed = None
     \/ safe.phase = "delivered" /\ Payable /\ safe.paid # None /\ safe.observed = None
     \/ safe.phase = "paid" /\ Payable /\ ObservesDelivery

(* safeFetch ends on what cannot be read, and goes on with one offer. *)
LEMMA ProbesGood == ASSUME SafeInv, Probes PROVE SafeInv'
<1>1. PICK opt \in SafeOptions, reply \in ProbeAnswers :
        safe' = [[safe EXCEPT !.opt = <<opt>>, !.probe = <<reply>>,
                              !.requests = IF reply.kind = "throws" THEN 0 ELSE 1] EXCEPT !.phase =
            IF reply.kind \in {"throws", "malformed"} THEN "error"
            ELSE IF reply.kind = "not_402" THEN "passthrough"
            ELSE IF \/ Conflicted(PickRequirements(reply.accepts, opt.prefer))
                    \/ PayTo(PickRequirements(reply.accepts, opt.prefer)) = None THEN "blocked"
            ELSE "offered"]
  BY DEF Probes
<1> DEFINE offer == PickRequirements(reply.accepts, opt.prefer)
           phase == IF reply.kind \in {"throws", "malformed"} THEN "error"
                    ELSE IF reply.kind = "not_402" THEN "passthrough"
                    ELSE IF Conflicted(offer) \/ PayTo(offer) = None THEN "blocked"
                    ELSE "offered"
           requests == IF reply.kind = "throws" THEN 0 ELSE 1
<1>2. safe = SafeIdle
  BY DEF Probes
<1>3. /\ phase \in {"error", "passthrough", "blocked", "offered"} /\ requests \in {0, 1}
      /\ phase = "offered" => ~Conflicted(offer) /\ requests = 1
  OBVIOUS
<1>4. /\ safe'.phase = phase /\ safe'.opt = <<opt>> /\ safe'.probe = <<reply>>
      /\ safe'.requests = requests /\ safe'.observed = None
      /\ safe' = [f \in SafeFields |-> safe'[f]]
  BY <1>1, <1>2 DEF SafeIdle, SafeFields
<1> HIDE DEF phase, requests
<1>5. CASE phase = "offered"
  <2>1. safe'.opt[1] = opt /\ safe'.probe[1] = reply
    BY <1>4
  <2>2. Offered'
    BY <1>3, <1>4, <1>5, <2>1 DEF Offered, ScoredOffer
  <2>3. QED
    BY <1>3, <1>4, <1>5, <2>2 DEF SafeInv
<1>6. CASE phase # "offered"
  BY <1>3, <1>4, <1>6 DEF SafeInv
<1>7. QED
  BY <1>5, <1>6

(* The pre-check asks intel about that offer, and the payer runs on its word. *)
LEMMA PreflightedGood == ASSUME SafeInv, Preflighted PROVE SafeInv'
<1>1. PICK preflight \in Preflights, lookup \in Lookups :
        safe' = [safe EXCEPT !.asked = <<[preflight |-> preflight, lookup |-> lookup]>>,
          !.phase = IF ~ApprovePayment(Context(ScoredOffer), safe.opt[1].cfg, preflight, lookup).approved
                      THEN "blocked"
                    ELSE IF safe.opt[1].dryRun THEN "dry_run_allowed"
                    ELSE "paying"]
  BY DEF Preflighted
<1> DEFINE approved == ApprovePayment(Context(ScoredOffer), safe.opt[1].cfg, preflight, lookup).approved
           phase == IF ~approved THEN "blocked" ELSE IF safe.opt[1].dryRun THEN "dry_run_allowed" ELSE "paying"
           asked == [preflight |-> preflight, lookup |-> lookup]
<1>2. Offered /\ safe.requests = 1 /\ safe.observed = None /\ safe = [f \in SafeFields |-> safe[f]]
  BY DEF Preflighted, SafeInv, SafeIdle
<1>3. /\ safe'.phase = phase /\ safe'.opt = safe.opt /\ safe'.probe = safe.probe
      /\ safe'.asked = <<asked>> /\ safe'.requests = 1 /\ safe'.observed = None
      /\ safe' = [f \in SafeFields |-> safe'[f]]
  BY <1>1, <1>2 DEF SafeFields
<1>4. CASE phase = "paying"
  <2>1. approved /\ ~safe.opt[1].dryRun
    BY <1>4
  <2>2. Numeric(ScoredOffer)
    BY <1>2, ProbeAnswersAssumption DEF Offered, ScoredOffer
  <2>3. WithinFreeBounds(ScoredOffer, safe.opt[1].cfg, asked)
    BY <1>2, <2>1, <2>2, ApprovedIsBounded DEF Offered
  <2>4. ScoredOffer' = ScoredOffer
    BY <1>3 DEF ScoredOffer
  <2>5. safe'.asked[1] = asked
    BY <1>3
  <2> HIDE DEF approved, phase, asked
  <2>6. Payable'
    BY <1>3, <2>1, <2>3, <2>4, <2>5 DEF Payable
  <2>7. QED
    BY <1>3, <1>4, <2>6 DEF SafeInv
<1>5. CASE phase # "paying"
  <2>1. phase \in {"blocked", "dry_run_allowed"}
    BY <1>5
  <2> HIDE DEF phase
  <2>2. QED
    BY <1>3, <2>1 DEF SafeInv
<1>6. QED
  BY <1>4, <1>5

(* What a stage before the observation rests on. *)
LEMMA StageRests ==
  ASSUME SafeInv
  PROVE  /\ safe = [f \in SafeFields |-> safe[f]]
         /\ safe.phase \in {"paying", "delivered"} => Payable /\ safe.observed = None
         /\ safe.phase = "delivered" => safe.paid # None
BY DEF SafeInv, SafeIdle

(* The payer pays what it is offered then, or fails. *)
LEMMA PayerRunsGood == ASSUME SafeInv, PayerRuns PROVE SafeInv'
<1>1. Payable /\ safe.phase = "paying" /\ safe.observed = None /\ safe = [f \in SafeFields |-> safe[f]]
  BY StageRests DEF PayerRuns
<1>2. ASSUME safe'.opt = safe.opt, safe'.probe = safe.probe, safe'.asked = safe.asked PROVE Payable'
  BY <1>1, <1>2 DEF Payable, ScoredOffer
<1>3. CASE safe' = [safe EXCEPT !.phase = "payer_failed", !.requests = 2]
  <2>1. /\ safe'.phase = "payer_failed" /\ safe'.observed = None
        /\ safe'.opt = safe.opt /\ safe'.probe = safe.probe /\ safe'.asked = safe.asked
        /\ safe' = [f \in SafeFields |-> safe'[f]]
    BY <1>1, <1>3 DEF SafeFields
  <2>2. QED
    BY <1>2, <2>1 DEF SafeInv
<1>4. ASSUME NEW offered, NEW delivery,
             safe' = [safe EXCEPT !.phase = "delivered", !.requests = 2,
                        !.paid = <<offered>>, !.delivered = <<delivery>>]
      PROVE  SafeInv'
  <2>1. /\ safe'.phase = "delivered" /\ safe'.observed = None /\ safe'.paid = <<offered>>
        /\ safe'.opt = safe.opt /\ safe'.probe = safe.probe /\ safe'.asked = safe.asked
        /\ safe' = [f \in SafeFields |-> safe'[f]]
    BY <1>1, <1>4 DEF SafeFields
  <2>2. safe'.paid # None
    BY <2>1 DEF None
  <2>3. QED
    BY <1>2, <2>1, <2>2 DEF SafeInv
<1>5. QED
  BY <1>3, <1>4 DEF PayerRuns

(* What is filed of a delivery was seen in it. *)
LEMMA CapturedGood == ASSUME SafeInv, Captured PROVE SafeInv'
<1>1. Payable /\ safe.paid # None /\ safe = [f \in SafeFields |-> safe[f]]
  BY StageRests DEF Captured
<1>2. PICK posted \in BOOLEAN : safe' = [safe EXCEPT !.phase = "paid", !.observed = <<Observation(posted)>>]
  BY DEF Captured
<1>3. /\ safe'.phase = "paid" /\ safe'.observed = <<Observation(posted)>>
      /\ safe'.opt = safe.opt /\ safe'.probe = safe.probe /\ safe'.asked = safe.asked
      /\ safe'.paid = safe.paid /\ safe'.delivered = safe.delivered
      /\ safe' = [f \in SafeFields |-> safe'[f]]
  BY <1>1, <1>2 DEF SafeFields
<1>4. Payable'
  BY <1>1, <1>3 DEF Payable, ScoredOffer
<1> DEFINE delivered == safe.delivered[1]
           advertised == safe.probe[1].advertised
<1>5. SchemaMatch(delivered, advertised) =>
        delivered.kind # "empty" /\ advertised.keys \subseteq delivered.keys
  BY DEF SchemaMatch, CheckLevel, KeysPresent
<1>6. safe'.observed[1].schemaMatch = SchemaMatch(delivered, advertised)
  BY <1>3 DEF Observation
<1>7. ObservesDelivery'
  BY <1>1, <1>3, <1>5, <1>6 DEF ObservesDelivery
<1>8. QED
  BY <1>3, <1>4, <1>7 DEF SafeInv

(* Each stage of the pre-check rests on the ones before. *)
LEMMA SafeInvariance == SafeSpec => []SafeInv
<1>1. SafeInit => SafeInv
  BY DEF SafeInit, SafeInv, SafeIdle, SafeFields
<1>2. SafeInv /\ [SafeNext]_safeVars => SafeInv'
  <2> SUFFICES ASSUME SafeInv, [SafeNext]_safeVars PROVE SafeInv'
    OBVIOUS
  <2>1. CASE UNCHANGED safeVars
    BY <2>1 DEF safeVars, SafeInv, Offered, Payable, ScoredOffer, ObservesDelivery
  <2>2. QED
    BY <2>1, ProbesGood, PreflightedGood, PayerRunsGood, CapturedGood DEF SafeNext
<1>3. QED
  BY <1>1, <1>2, PTL DEF SafeSpec

(* safeFetch never has its payer run after a refusal, a dry run or an offer that
   it could not read, and what it scored before is within the bounds. *)
THEOREM PayerRunsBounded == SafeSpec => []PayerRunsWithinBounds
<1>1. SafeInv => PayerRunsWithinBounds
  BY DEF SafeInv, SafeIdle, Payable, PayerRunsWithinBounds
<1>2. QED
  BY <1>1, SafeInvariance, PTL

(* captureDeliveryObservation files of a delivery only, and a match at the
   level of keys has every key that was advertised. *)
THEOREM DeliveryObserved == SafeSpec => []ObservesDelivery
<1>1. SafeInv => ObservesDelivery
  BY DEF SafeInv, SafeIdle, ObservesDelivery
<1>2. QED
  BY <1>1, SafeInvariance, PTL

-----------------------------------------------------------------------------
(* MPP challenges, for any sides, guards and answers.                        *)

(* A field that holds a value holds that value only. *)
LEMMA SidesHoldOne ==
  ASSUME NEW ch \in Challenges, NEW side \in {ch.top, ch.nested},
         NEW f \in {"recipient", "currency", "amount", "decimals", "cluster", "network", "chainId"}
  PROVE  side[f] = None \/ side[f] = <<side[f][1]>>
BY ChallengesAssumption

(* The chain of a Tempo charge is the one that every side names. *)
LEMMA OneChain ==
  ASSUME NEW ch, Cardinality(ChainIds(ch)) = 1
  PROVE  \A side \in {ch.top, ch.nested} :
           side.chainId # None => side.chainId[1] = (CHOOSE chain \in ChainIds(ch) : TRUE)
<1> DEFINE named == {ch.top.chainId[1], ch.nested.chainId[1], ch.top.network[1], ch.nested.network[1]}
<1>1. IsFiniteSet(named)
  <2>1. IsFiniteSet({})
    BY FS_EmptySet
  <2>2. \A S, x : IsFiniteSet(S) => IsFiniteSet(S \cup {x})
    BY FS_AddElement
  <2>3. IsFiniteSet({} \cup {ch.top.chainId[1]} \cup {ch.nested.chainId[1]} \cup {ch.top.network[1]}
                      \cup {ch.nested.network[1]})
    BY ONLY <2>1, <2>2
  <2>4. named = {} \cup {ch.top.chainId[1]} \cup {ch.nested.chainId[1]} \cup {ch.top.network[1]}
                   \cup {ch.nested.network[1]}
    OBVIOUS
  <2>5. QED
    BY <2>3, <2>4
<1>2. IsFiniteSet(ChainIds(ch))
  <2>1. ChainIds(ch) \subseteq named
    BY DEF ChainIds
  <2>2. QED
    BY <1>1, <2>1, FS_Subset
<1>3. PICK x : ChainIds(ch) = {x}
  BY <1>2, FS_Singleton
<1>4. \A side \in {ch.top, ch.nested} : side.chainId # None => side.chainId[1] \in ChainIds(ch)
  BY DEF ChainIds
<1>5. QED
  BY <1>3, <1>4

(* The intent of a Tempo charge is what the wallet transfers by. *)
LEMMA TempoIsRead ==
  ASSUME NEW ch \in Challenges, NEW now, ch.method = "tempo", ~TempoRefused(ch, now)
  PROVE  WalletReads(ch, TempoIntent(ch)) /\ ~ch.splits /\ ~ch.sponsored
<1>1. Cardinality(ChainIds(ch)) = 1 /\ ~ch.splits /\ ~ch.sponsored
  BY DEF TempoRefused, TempoUnsupported
<1> DEFINE intent == TempoIntent(ch)
<1>2. /\ intent.payTo = ch.top.recipient[1] /\ intent.amount = ch.top.amount[1]
      /\ intent.asset = ch.top.currency[1]
      /\ intent.network = CHOOSE chain \in ChainIds(ch) : TRUE
  BY DEF TempoIntent, Intent
<1>3. \A side \in {ch.top, ch.nested} : side.chainId \in {None, <<intent.network>>}
  <2> SUFFICES ASSUME NEW side \in {ch.top, ch.nested}, side.chainId # None
               PROVE  side.chainId = <<intent.network>>
    OBVIOUS
  <2>1. side.chainId = <<side.chainId[1]>>
    BY SidesHoldOne
  <2>2. side.chainId[1] = intent.network
    BY <1>1, <1>2, OneChain
  <2>3. QED
    BY <2>1, <2>2
<1> HIDE DEF intent
<1>4. WalletReads(ch, intent)
  BY <1>2, <1>3 DEF WalletReads
<1>5. QED
  BY <1>1, <1>4 DEF intent

(* So is that of a Solana charge, whichever side a field was taken from. *)
LEMMA SolanaIsRead ==
  ASSUME NEW ch \in Challenges, ch.method # "tempo", ~SolanaRefused(ch)
  PROVE  WalletReads(ch, SolanaIntent(ch)) /\ ~ch.splits /\ ~ch.sponsored
<1> DEFINE intent == SolanaIntent(ch)
<1>1. /\ intent.payTo = Bound(ch, "recipient")[1] /\ intent.amount = Bound(ch, "amount")[1]
      /\ intent.asset = Bound(ch, "currency")[1] /\ intent.network = CanonicalCluster(Cluster(ch))
  BY DEF SolanaIntent, Intent
<1>2. ~ch.splits /\ ~ch.sponsored /\ ~NamedTwice(ch) /\ Bound(ch, "decimals")[1] = PeggedDecimals
  BY DEF SolanaRefused
<1>3. \A f \in {"recipient", "amount", "currency"} : ch.top[f] \in {None, <<Bound(ch, f)[1]>>}
  <2> SUFFICES ASSUME NEW f \in {"recipient", "amount", "currency"}, ch.top[f] # None
               PROVE  ch.top[f] = <<Bound(ch, f)[1]>>
    OBVIOUS
  <2>1. Bound(ch, f) = ch.top[f]
    BY DEF Bound, Or
  <2>2. QED
    BY <2>1, SidesHoldOne
<1>4. ch.nested.decimals \in {None, <<PeggedDecimals>>}
  <2> SUFFICES ASSUME ch.nested.decimals # None PROVE ch.nested.decimals = <<PeggedDecimals>>
    OBVIOUS
  <2>1. ~Differ(ch.top["decimals"], ch.nested["decimals"])
    BY <1>2 DEF NamedTwice, BoundFields
  <2>2. Bound(ch, "decimals") = ch.nested.decimals
    BY <2>1 DEF Bound, Or, Differ
  <2>3. ch.nested.decimals = <<ch.nested.decimals[1]>>
    BY SidesHoldOne
  <2>4. QED
    BY <1>2, <2>2, <2>3
<1>5. ch.nested.network # None =>
        CanonicalCluster(ClusterNamed(ch.nested)[1]) = intent.network
  <2> SUFFICES ASSUME ch.nested.network # None
               PROVE  CanonicalCluster(ClusterNamed(ch.nested)[1]) = CanonicalCluster(Cluster(ch))
    BY <1>1
  <2>1. ClusterNamed(ch.nested) # None
    BY DEF ClusterNamed, Or
  <2>2. CASE ClusterNamed(ch.top) = None
    <3>1. Cluster(ch) = ClusterNamed(ch.nested)[1]
      BY <2>1, <2>2 DEF Cluster, Or
    <3>2. QED
      BY <3>1
  <2>3. CASE ClusterNamed(ch.top) # None
    <3>1. Cluster(ch) = ClusterNamed(ch.top)[1]
      BY <2>3 DEF Cluster, Or
    <3>2. CanonicalCluster(ClusterNamed(ch.top)[1]) = CanonicalCluster(ClusterNamed(ch.nested)[1])
      BY <1>2, <2>1, <2>3 DEF NamedTwice
    <3>3. QED
      BY <2>1, <3>1, <3>2
  <2>4. QED
    BY <2>2, <2>3
<1> HIDE DEF intent
<1>6. WalletReads(ch, intent)
  <2>1. ClusterNamed(ch.nested) = IF ch.nested.cluster # None THEN ch.nested.cluster ELSE ch.nested.network
    BY DEF ClusterNamed, Or
  <2>2. QED
    BY <1>1, <1>3, <1>4, <1>5, <2>1 DEF WalletReads
<1>7. QED
  BY <1>2, <1>6 DEF intent

(* A strict integration lets through only what its network is scored for. *)
LEMMA StrictIsSolana ==
  ASSUME NEW intent, NEW cfg, cfg.mode = "strict", NEW preflight, NEW lookup,
         Intelligence(intent, cfg, preflight, lookup) # "block"
  PROVE  NetworkOf(intent) = "solana"
<1> DEFINE ctx == [payTo |-> <<intent.payTo>>, price |-> <<intent.amount>>,
                   network |-> NetworkOf(intent), asset |-> <<intent.asset>>]
<1>1. ApprovePayment(ctx, cfg, preflight, lookup).approved
  BY DEF Intelligence
<1>2. \A why : ~Refused(why).approved
  BY DEF Refused, Result, Verdict
<1>3. ctx.payTo = <<intent.payTo>> /\ ctx.network = NetworkOf(intent)
  OBVIOUS
<1> HIDE DEF ctx
<1>4. ~ApproveUnscored(ctx, cfg, lookup).approved
  BY DEF ApproveUnscored, Result, Verdict
<1>5. Scored(NetworkOf(intent), <<intent.payTo>>, cfg.mode)
  BY <1>1, <1>2, <1>3, <1>4 DEF ApprovePayment
<1>6. NetworkOf(intent) \in {"solana", "devnet", "testnet", "other"}
  BY DEF NetworkOf, KeywordNames
<1>7. QED
  BY <1>5, <1>6 DEF Scored, ReputationScored, KeywordNames, SolanaNames

-----------------------------------------------------------------------------
MppFields == {"at", "ch", "opt", "intent", "verdict", "queued", "log"}

\* The intent is the transfer that the challenge's wallet makes.
IntentRead ==
  /\ mpp.intent # None
  /\ WalletReads(Challenge, mpp.intent[1]) /\ ~Challenge.splits /\ ~Challenge.sponsored

\* The one row says that the charge was let through, and that it might be.
Granted(rows) ==
  \E outcome \in {"allow", "warn"} :
    /\ rows = <<Row(outcome, mpp.intent)>>
    /\ mpp.intent = None => MOpt.allowUnevaluated /\ outcome = "warn"
    /\ mpp.intent # None =>
         /\ IntentRead
         /\ MOpt.intelligence # None /\ MOpt.intelligence[1].mode = "strict" =>
              NetworkOf(mpp.intent[1]) = "solana"

MppInv ==
  /\ mpp = [f \in MppFields |-> mpp[f]]
  /\ \/ mpp = MppIdle
     \/ mpp.at = "intent" /\ IntentRead /\ mpp.queued = <<>> /\ mpp.log = <<>>
     \/ mpp.at = "clearing" /\ Granted(mpp.queued) /\ mpp.log = <<>>
     \/ mpp.at \in {"cleared", "paid"} /\ Granted(mpp.log)
     \/ mpp.at \in {"refusing", "refused", "lost"}

\* The charge itself is not touched.
SameCharge == mpp'.ch = mpp.ch /\ mpp'.opt = mpp.opt /\ mpp'.intent = mpp.intent

(* What is known of a charge stays known. *)
LEMMA ChargeStands ==
  ASSUME SameCharge
  PROVE  /\ IntentRead <=> IntentRead'
         /\ \A rows : Granted(rows) => \E outcome \in {"allow", "warn"} :
              /\ rows = <<Row(outcome, mpp'.intent)>>
              /\ mpp'.intent = None => MOpt'.allowUnevaluated /\ outcome = "warn"
              /\ mpp'.intent # None =>
                   /\ IntentRead'
                   /\ MOpt'.intelligence # None /\ MOpt'.intelligence[1].mode = "strict" =>
                        NetworkOf(mpp'.intent[1]) = "solana"
<1>1. Challenge' = Challenge /\ MOpt' = MOpt
  BY DEF SameCharge, Challenge, MOpt
<1>2. IntentRead <=> IntentRead'
  BY <1>1 DEF SameCharge, IntentRead
<1>3. QED
  BY <1>1, <1>2 DEF SameCharge, Granted

(* A row is queued beside the next stage, and nothing else of the charge moves. *)
LEMMA QueuedIs ==
  ASSUME NEW start, start = [f \in MppFields |-> start[f]], NEW at, NEW row, start.queued = <<>>,
         mpp' = [start EXCEPT !.at = at, !.queued = Append(start.queued, row)]
  PROVE  /\ mpp'.at = at /\ mpp'.queued = <<row>> /\ mpp' = [f \in MppFields |-> mpp'[f]]
         /\ mpp'.ch = start.ch /\ mpp'.opt = start.opt /\ mpp'.intent = start.intent
         /\ mpp'.log = start.log
<1>1. /\ mpp'.at = at /\ mpp'.queued = Append(start.queued, row)
      /\ mpp'.ch = start.ch /\ mpp'.opt = start.opt /\ mpp'.intent = start.intent
      /\ mpp'.log = start.log
  BY DEF MppFields
<1>2. Append(start.queued, row) = <<row>>
  BY ONLY start.queued = <<>>
<1>3. mpp' = [f \in MppFields |-> mpp'[f]]
  BY DEF MppFields
<1>4. QED
  BY <1>1, <1>2, <1>3

(* What is queued to clear a charge was earned; what refuses it may be anything. *)
LEMMA QueuedGood ==
  ASSUME NEW outcome, NEW next \in {"clearing", "refusing"},
         mpp' = [f \in MppFields |-> mpp'[f]], mpp'.at = next,
         mpp'.log = <<>>, mpp'.queued = <<Row(outcome, mpp'.intent)>>,
         next = "clearing" =>
           /\ outcome \in {"allow", "warn"}
           /\ mpp'.intent = None => MOpt'.allowUnevaluated /\ outcome = "warn"
           /\ mpp'.intent # None =>
                /\ IntentRead'
                /\ MOpt'.intelligence # None /\ MOpt'.intelligence[1].mode = "strict" =>
                     NetworkOf(mpp'.intent[1]) = "solana"
  PROVE  MppInv'
<1>1. CASE next = "clearing"
  <2>1. Granted(mpp.queued)'
    BY <1>1 DEF Granted
  <2>2. QED
    BY <1>1, <2>1 DEF MppInv
<1>2. CASE next = "refusing"
  BY <1>2 DEF MppInv
<1>3. QED
  BY <1>1, <1>2

(* A challenge is normalised, goes ungated by the opt-in, or is refused. *)
LEMMA NormalizesGood == ASSUME MppInv, Normalizes PROVE MppInv'
<1>1. PICK ch \in Challenges, opt \in MppOptions :
        LET m == [mpp EXCEPT !.ch = <<ch>>, !.opt = <<opt>>]
            refusal == Refusal(ch, opt.now)
        IN IF refusal = None THEN mpp' = [m EXCEPT !.at = "intent", !.intent = <<IntentOf(ch)>>]
           ELSE IF refusal[1] = "UNEVALUATED_METHOD" /\ opt.allowUnevaluated
             THEN Persists(m, "warn", None, "clearing")
           ELSE Persists(m, "block", None, "refusing")
  BY DEF Normalizes
<1> DEFINE refusal == Refusal(ch, opt.now)
           start == [mpp EXCEPT !.ch = <<ch>>, !.opt = <<opt>>]
<1>2. mpp = MppIdle
  BY DEF Normalizes, MppInv
<1>3. /\ start.log = <<>> /\ start.queued = <<>> /\ start.intent = None /\ start.ch = <<ch>>
      /\ start.opt = <<opt>> /\ start = [f \in MppFields |-> start[f]]
  BY <1>2 DEF MppIdle, MppFields
<1>4. CASE refusal = None
  <2>1. mpp' = [start EXCEPT !.at = "intent", !.intent = <<IntentOf(ch)>>]
    BY <1>1, <1>4
  <2> HIDE DEF start
  <2>2. /\ mpp'.at = "intent" /\ mpp'.intent = <<IntentOf(ch)>> /\ mpp'.ch = <<ch>>
        /\ mpp'.queued = <<>> /\ mpp'.log = <<>> /\ mpp' = [f \in MppFields |-> mpp'[f]]
    BY <1>3, <2>1 DEF MppFields
  <2>3. WalletReads(ch, IntentOf(ch)) /\ ~ch.splits /\ ~ch.sponsored
    <3>1. ~(IF ch.method = "tempo" THEN TempoRefused(ch, opt.now) ELSE SolanaRefused(ch))
      BY <1>4 DEF Refusal, None
    <3>2. QED
      BY <3>1, TempoIsRead, SolanaIsRead DEF IntentOf
  <2>4. Challenge' = ch /\ mpp'.intent[1] = IntentOf(ch) /\ mpp'.intent # None
    BY <2>2 DEF Challenge, None
  <2>5. IntentRead'
    BY <2>3, <2>4 DEF IntentRead
  <2>6. QED
    BY <2>2, <2>5 DEF MppInv
<1>5. ASSUME NEW outcome, NEW next \in {"clearing", "refusing"},
             mpp' = [start EXCEPT !.at = next, !.queued = Append(start.queued, Row(outcome, None))],
             next = "clearing" => outcome = "warn" /\ opt.allowUnevaluated
      PROVE  MppInv'
  <2> HIDE DEF start
  <2>1. /\ mpp'.at = next /\ mpp'.intent = None /\ mpp'.opt = <<opt>>
        /\ mpp'.log = <<>> /\ mpp' = [f \in MppFields |-> mpp'[f]]
        /\ mpp'.queued = <<Row(outcome, None)>>
    <3> DEFINE row == Row(outcome, None)
    <3>1. mpp' = [start EXCEPT !.at = next, !.queued = Append(start.queued, row)]
      BY <1>5
    <3> HIDE DEF row
    <3>2. /\ mpp'.at = next /\ mpp'.queued = <<row>> /\ mpp' = [f \in MppFields |-> mpp'[f]]
          /\ mpp'.opt = start.opt /\ mpp'.intent = start.intent /\ mpp'.log = start.log
      BY <1>3, <3>1, QueuedIs
    <3>3. QED
      BY <1>3, <3>2 DEF row
  <2>2. MOpt' = opt
    BY <2>1 DEF MOpt
  <2>3. QED
    BY <1>5, <2>1, <2>2, QueuedGood
<1>6. CASE refusal # None /\ Persists(start, "warn", None, "clearing") /\ opt.allowUnevaluated
  <2>1. mpp' = [start EXCEPT !.at = "clearing", !.queued = Append(start.queued, Row("warn", None))]
    BY <1>6 DEF Persists, Queues
  <2>2. QED
    BY <1>5, <1>6, <2>1
<1>7. CASE refusal # None /\ Persists(start, "block", None, "refusing")
  <2>1. mpp' = [start EXCEPT !.at = "refusing", !.queued = Append(start.queued, Row("block", None))]
    BY <1>7 DEF Persists, Queues
  <2>2. QED
    BY <1>5, <2>1
<1>8. QED
  BY <1>1, <1>4, <1>6, <1>7

(* A decision on an intent lets it through only where it is scored. *)
LEMMA DecidesGood ==
  ASSUME MppInv, mpp.at = "intent", NEW decided \in {"allow", "warn", "block"}, Decides(decided),
         decided # "block" /\ MOpt.intelligence # None /\ MOpt.intelligence[1].mode = "strict"
           => NetworkOf(mpp.intent[1]) = "solana"
  PROVE  MppInv'
<1>1. IntentRead /\ mpp.queued = <<>> /\ mpp.log = <<>> /\ mpp = [f \in MppFields |-> mpp[f]]
  BY DEF MppInv, MppIdle
<1> DEFINE disposition == Disposition(decided, MOpt)
           next == IF disposition = "block" THEN "refusing" ELSE "clearing"
           start == [mpp EXCEPT !.verdict = <<decided>>]
<1>2. mpp' = [start EXCEPT !.at = next, !.queued = Append(start.queued, Row(disposition, mpp.intent))]
  BY DEF Decides, Persists, Queues
<1>3. disposition \in {"allow", "warn", "block"} /\ (disposition # "block" => decided # "block")
      /\ next \in {"clearing", "refusing"} /\ (next = "clearing" => disposition # "block")
  BY DEF Disposition
<1>4. start.queued = <<>> /\ start.log = <<>> /\ start.intent = mpp.intent /\ start.opt = mpp.opt
      /\ start.ch = mpp.ch /\ start = [f \in MppFields |-> start[f]]
  BY <1>1 DEF MppFields
<1> HIDE DEF start, disposition, next
<1>5. /\ mpp'.at = next /\ SameCharge /\ mpp'.log = <<>>
      /\ mpp' = [f \in MppFields |-> mpp'[f]] /\ mpp'.queued = <<Row(disposition, mpp'.intent)>>
  <2> DEFINE row == Row(disposition, mpp.intent)
  <2>1. mpp' = [start EXCEPT !.at = next, !.queued = Append(start.queued, row)]
    BY <1>2
  <2> HIDE DEF row
  <2>2. /\ mpp'.at = next /\ mpp'.queued = <<row>> /\ mpp' = [f \in MppFields |-> mpp'[f]]
        /\ mpp'.ch = start.ch /\ mpp'.opt = start.opt /\ mpp'.intent = start.intent
        /\ mpp'.log = start.log
    BY <1>4, <2>1, QueuedIs
  <2>3. QED
    BY <1>4, <2>2 DEF row, SameCharge
<1>6. IntentRead' /\ MOpt' = MOpt /\ mpp'.intent = mpp.intent /\ mpp.intent # None
  BY <1>1, <1>5, ChargeStands DEF MOpt, SameCharge, IntentRead
<1>7. QED
  BY <1>3, <1>5, <1>6, QueuedGood

(* The evaluation of an intent is its intelligence's word, or tighter. *)
LEMMA EvaluatesChargeGood == ASSUME MppInv, EvaluatesCharge PROVE MppInv'
<1>1. /\ mpp.at = "intent" /\ mpp.queued = <<>> /\ mpp.log = <<>>
      /\ mpp = [f \in MppFields |-> mpp[f]]
  BY DEF EvaluatesCharge, MppInv, MppIdle
<1>2. \A word : Verdicts(word) \subseteq {"allow", "warn", "block"} /\ Verdicts("block") = {"block"}
  BY DEF Verdicts
<1>3. CASE Persists(mpp, "error", mpp.intent, "refusing")
  <2>1. mpp' = [mpp EXCEPT !.at = "refusing", !.queued = Append(mpp.queued, Row("error", mpp.intent))]
    BY <1>3 DEF Persists, Queues
  <2>2. mpp'.at = "refusing" /\ mpp' = [f \in MppFields |-> mpp'[f]]
    BY <1>1, <2>1 DEF MppFields
  <2>3. QED
    BY <2>2 DEF MppInv
<1>4. ASSUME MOpt.intelligence = None, NEW decided \in Verdicts("unchecked"), Decides(decided)
      PROVE  MppInv'
  BY <1>1, <1>2, <1>4, DecidesGood
<1>5. ASSUME MOpt.intelligence # None, NEW preflight, NEW lookup,
             NEW decided \in Verdicts(Intelligence(mpp.intent[1], MOpt.intelligence[1], preflight, lookup)),
             Decides(decided)
      PROVE  MppInv'
  <2>1. decided # "block" => Intelligence(mpp.intent[1], MOpt.intelligence[1], preflight, lookup) # "block"
    BY <1>2
  <2>2. decided # "block" /\ MOpt.intelligence[1].mode = "strict" => NetworkOf(mpp.intent[1]) = "solana"
    BY <2>1, StrictIsSolana
  <2>3. decided \in {"allow", "warn", "block"}
    BY <1>2
  <2>4. QED
    BY <1>1, <1>5, <2>2, <2>3, DecidesGood
<1>6. QED
  BY <1>3, <1>4, <1>5 DEF EvaluatesCharge

(* The record is on disk before the credential, and a crash loses only both. *)
LEMMA PersistedGood ==
  ASSUME MppInv, Flushes \/ FlushFails \/ CreatesCredential \/ MppCrash
  PROVE  MppInv'
<1>1. mpp = [f \in MppFields |-> mpp[f]]
  BY DEF MppInv
<1>2. CASE Flushes
  <2>1. mpp' = [mpp EXCEPT !.at = IF mpp.at = "clearing" THEN "cleared" ELSE "refused",
                  !.log = mpp.log \o mpp.queued, !.queued = <<>>]
    BY <1>2 DEF Flushes
  <2>2. /\ mpp'.at = (IF mpp.at = "clearing" THEN "cleared" ELSE "refused")
        /\ mpp'.log = mpp.log \o mpp.queued /\ SameCharge /\ mpp' = [f \in MppFields |-> mpp'[f]]
    BY <1>1, <2>1 DEF MppFields, SameCharge
  <2>3. CASE mpp.at = "clearing"
    <3>1. Granted(mpp.queued) /\ mpp.log = <<>>
      BY <2>3 DEF MppInv, MppIdle
    <3>2. mpp'.log = mpp.queued
      BY <2>2, <3>1 DEF Granted
    <3>3. Granted(mpp.log)'
      BY <2>2, <3>1, <3>2, ChargeStands DEF Granted
    <3>4. QED
      BY <2>2, <2>3, <3>3 DEF MppInv
  <2>4. CASE mpp.at # "clearing"
    BY <2>2, <2>4 DEF MppInv
  <2>5. QED
    BY <2>3, <2>4
<1>3. CASE FlushFails
  <2>1. mpp'.at = "refused" /\ mpp' = [f \in MppFields |-> mpp'[f]]
    BY <1>1, <1>3 DEF FlushFails, MppFields
  <2>2. QED
    BY <2>1 DEF MppInv
<1>4. ASSUME mpp.at \in {"cleared", "paid"}, mpp'.at = "paid", mpp'.log = mpp.log, SameCharge,
             mpp' = [f \in MppFields |-> mpp'[f]]
      PROVE  MppInv'
  <2>1. Granted(mpp.log)
    BY <1>4 DEF MppInv, MppIdle
  <2>2. Granted(mpp.log)'
    BY <1>4, <2>1, ChargeStands DEF Granted
  <2>3. QED
    BY <1>4, <2>2 DEF MppInv
<1>5. CASE CreatesCredential
  <2>1. /\ mpp.at = "cleared" /\ mpp'.at = "paid" /\ mpp'.log = mpp.log /\ SameCharge
        /\ mpp' = [f \in MppFields |-> mpp'[f]]
    BY <1>1, <1>5 DEF CreatesCredential, MppFields, SameCharge
  <2>2. QED
    BY <1>4, <2>1
<1>6. CASE MppCrash
  <2>1. /\ mpp'.at = (IF mpp.at = "paid" THEN "paid" ELSE "lost") /\ mpp'.log = mpp.log /\ SameCharge
        /\ mpp' = [f \in MppFields |-> mpp'[f]]
    BY <1>1, <1>6 DEF MppCrash, MppFields, SameCharge
  <2>2. CASE mpp.at = "paid"
    BY <1>4, <2>1, <2>2
  <2>3. CASE mpp.at # "paid"
    BY <2>1, <2>3 DEF MppInv
  <2>4. QED
    BY <2>2, <2>3
<1>7. QED
  BY <1>2, <1>3, <1>5, <1>6

(* createTwzrdMppCharge answers with a credential only for a decision that it has
   on disk, for the transfer that the wallet reads, but for a network beside which
   methodDetails names another cluster, and under a strict integration for no
   network it could not score. *)
THEOREM CredentialRecorded == MppSpec => []CredentialIsRecorded
<1>1. MppInit => MppInv
  BY DEF MppInit, MppInv, MppIdle, MppFields
<1>2. MppInv /\ [MppNext]_mppVars => MppInv'
  <2> SUFFICES ASSUME MppInv, [MppNext]_mppVars PROVE MppInv'
    OBVIOUS
  <2>1. CASE UNCHANGED mppVars
    BY <2>1 DEF mppVars, MppInv, IntentRead, Granted, Challenge, MOpt
  <2>2. QED
    BY <2>1, NormalizesGood, EvaluatesChargeGood, PersistedGood DEF MppNext
<1>3. MppInv => CredentialIsRecorded
  <2> SUFFICES ASSUME MppInv, mpp.at = "paid" PROVE CredentialIsRecorded
    BY DEF CredentialIsRecorded
  <2>1. Granted(mpp.log)
    BY DEF MppInv, MppIdle
  <2>2. PICK outcome \in {"allow", "warn"} :
          /\ mpp.log = <<Row(outcome, mpp.intent)>>
          /\ mpp.intent = None => MOpt.allowUnevaluated /\ outcome = "warn"
          /\ mpp.intent # None =>
               /\ IntentRead
               /\ MOpt.intelligence # None /\ MOpt.intelligence[1].mode = "strict" =>
                    NetworkOf(mpp.intent[1]) = "solana"
    BY <2>1 DEF Granted
  <2>3. Len(mpp.log) = 1 /\ mpp.log[1].outcome = outcome /\ mpp.log[1].input = mpp.intent
    BY <2>2 DEF Row
  <2>4. QED
    BY <2>2, <2>3 DEF CredentialIsRecorded, IntentRead
<1>4. QED
  BY <1>1, <1>2, <1>3, PTL DEF MppSpec

-----------------------------------------------------------------------------
(* The binding of a payment, for any 402s, transactions and other fetches.    *)

BindFields == {"at", "fetches", "kept", "invoice", "selected", "leaf", "tx"}

\* A hash that may stand for an offer: its price and recipient, and what else both name.
StandsFor(leaf, offer) ==
  /\ leaf.payTo = PayTo(offer) /\ leaf.amount = Amount(offer)
  /\ leaf.asset = offer.asset \/ None \in {leaf.asset, offer.asset}
  /\ SameNetwork(leaf.network, offer.network) \/ "missing" \in {leaf.network, offer.network}

\* What was selected can be paid.
SelectionStands ==
  ~Conflicted(bind.selected[1]) /\ PayTo(bind.selected[1]) # None /\ Amount(bind.selected[1]) # None

BindInv ==
  /\ bind = [f \in BindFields |-> bind[f]]
  /\ \/ bind.at \in {"idle", "blocked"}
     \/ bind.at = "selected" /\ SelectionStands
     \/ bind.at = "stamped" /\ StandsFor(bind.leaf[1], bind.selected[1])
     \/ /\ bind.at = "composed" /\ StandsFor(bind.leaf[1], bind.selected[1])
        /\ bind.tx[1].memos \in Seq(ToSet(bind.tx[1].memos))
     \/ bind.at = "paid" /\ PaysWhatItBound

(* The entry a search answers is one that passes its test. *)
LEMMA FirstIsOne ==
  ASSUME NEW I, I \subseteq Nat, I # {}
  PROVE  Min(I) \in I
<1>1. \E x \in I : \A y \in I : x <= y
  BY LeastCounterexample
<1>2. QED
  BY <1>1 DEF Min

(* rawReqFromPaymentRequired hashes an entry that matches the selected one, or
   that one itself. *)
LEMMA SourceMatches ==
  ASSUME NEW selected, NEW invoice
  PROVE  \/ HashSource(selected, invoice).req = selected
         \/ Matches(HashSource(selected, invoice).req, selected)
<1> DEFINE accepts == invoice.accepts
           I == {i \in 1 .. Len(accepts) : Matches(accepts[i], selected)}
           found == SelectInSeq(accepts, LAMBDA req : Matches(req, selected))
<1>1. found = IF I # {} THEN Min(I) ELSE 0
  BY DEF SelectInSeq
<1>2. I \subseteq Nat
  OBVIOUS
<1> HIDE DEF I
<1>3. CASE Conflicted(selected) \/ found = 0
  BY <1>3 DEF HashSource, Under
<1>4. CASE ~(Conflicted(selected) \/ found = 0)
  <2>1. found \in I
    BY <1>1, <1>2, <1>4, FirstIsOne
  <2>2. Matches(accepts[found], selected)
    BY <2>1 DEF I
  <2> HIDE DEF found
  <2>3. HashSource(selected, invoice).req = accepts[found]
    BY <1>4 DEF HashSource, Under, found
  <2>4. QED
    BY <2>2, <2>3
<1>5. QED
  BY <1>3, <1>4

(* stampResourceBind answers a hash of an offer of the selected price and
   recipient, whichever 402 was kept under the resource. *)
LEMMA StampBinds ==
  ASSUME NEW selected, NEW invoice, NEW kept, NEW decision, Amount(selected) # None,
         Stamp(selected, invoice, kept, decision) # None
  PROVE  StandsFor(Stamp(selected, invoice, kept, decision)[1], selected)
<1> DEFINE cached == IF selected.resource = None THEN <<>> ELSE Kept(kept, selected.resource[1])
           source == HashSource(selected, IF cached = <<>> THEN invoice ELSE cached[1][2])
<1>1. source.req = selected \/ Matches(source.req, selected)
  BY SourceMatches
<1>2. /\ Stamp(selected, invoice, kept, decision) = <<Leaf(source, decision)>>
      /\ Amount(source.req) # None
  BY DEF Stamp, None
<1> HIDE DEF source
<1>3. StandsFor(Leaf(source, decision), selected)
  BY <1>1, <1>2 DEF StandsFor, Leaf, Matches, SameNetwork
<1>4. QED
  BY <1>2, <1>3

\* The first memo of a prefix.
MemoAt(memos, prefix) == SelectInSeq(memos, LAMBDA memo : memo.prefix = prefix)

(* pickBindMemo answers a memo of the transaction. *)
LEMMA PickedIsThere ==
  ASSUME NEW memos, memos \in Seq(ToSet(memos)), PickMemo(memos) # None
  PROVE  \E i \in DOMAIN memos : PickMemo(memos) = <<memos[i]>>
<1>1. DOMAIN memos = 1 .. Len(memos) /\ Len(memos) \in Nat
  BY LenProperties
<1>2. ASSUME NEW prefix, MemoAt(memos, prefix) # 0 PROVE MemoAt(memos, prefix) \in DOMAIN memos
  <2> DEFINE I == {i \in 1 .. Len(memos) : memos[i].prefix = prefix}
  <2>1. MemoAt(memos, prefix) = IF I # {} THEN Min(I) ELSE 0
    BY DEF MemoAt, SelectInSeq
  <2>2. I \subseteq Nat /\ I \subseteq DOMAIN memos
    BY <1>1
  <2> HIDE DEF I
  <2>3. I # {}
    BY <1>2, <2>1
  <2>4. Min(I) \in I
    BY <2>2, <2>3, FirstIsOne
  <2>5. QED
    BY <2>1, <2>2, <2>3, <2>4
<1>3. memos # <<>> => 1 \in DOMAIN memos
  BY <1>1
<1>4. PickMemo(memos) = IF MemoAt(memos, "rb2") # 0 THEN <<memos[MemoAt(memos, "rb2")]>>
                        ELSE IF MemoAt(memos, "rb1") # 0 THEN <<memos[MemoAt(memos, "rb1")]>>
                        ELSE IF memos # <<>> THEN <<memos[1]>> ELSE None
  BY DEF PickMemo, MemoAt
<1>5. /\ MemoAt(memos, "rb1") # 0 => MemoAt(memos, "rb1") \in DOMAIN memos
      /\ MemoAt(memos, "rb2") # 0 => MemoAt(memos, "rb2") \in DOMAIN memos
  BY <1>2
<1>6. QED
  BY <1>3, <1>4, <1>5

(* A transaction that is bound hard moves the selected legs, and carries the hash. *)
LEMMA HardIsBound ==
  ASSUME NEW tx, tx.memos \in Seq(ToSet(tx.memos)), NEW leaf, NEW selected,
         Strength(tx, leaf, selected) = "hard", StandsFor(leaf, selected)
  PROVE  /\ LegsMatch(tx.transfers[1], selected)
         /\ \E i \in DOMAIN tx.memos : tx.memos[i].leaf = <<leaf>>
         /\ leaf.payTo = PayTo(selected) /\ leaf.amount = Amount(selected)
         /\ leaf.asset \in {None, selected.asset}
         /\ SameNetwork(leaf.network, selected.network) \/ "missing" \in {leaf.network, selected.network}
<1> DEFINE memo == PickMemo(tx.memos)
<1>1. LegsMatch(tx.transfers[1], selected) /\ memo # None /\ memo[1].leaf = <<leaf>>
  BY DEF Strength
<1>2. PICK i \in DOMAIN tx.memos : memo = <<tx.memos[i]>>
  BY <1>1, PickedIsThere
<1>3. tx.memos[i].leaf = <<leaf>>
  BY <1>1, <1>2
<1>4. selected.asset # None
  BY <1>1 DEF LegsMatch, None
<1>5. QED
  BY <1>1, <1>3, <1>4 DEF StandsFor

-----------------------------------------------------------------------------
(* What each stage of the binding keeps. *)
LEMMA BindStands ==
  ASSUME BindInv
  PROVE  /\ bind = [f \in BindFields |-> bind[f]]
         /\ bind.at = "selected" => SelectionStands
         /\ bind.at \in {"stamped", "composed"} => StandsFor(bind.leaf[1], bind.selected[1])
         /\ bind.at = "composed" => bind.tx[1].memos \in Seq(ToSet(bind.tx[1].memos))
BY DEF BindInv

(* Another fetch writes the map of 402s and nothing else. *)
LEMMA OtherFetchGood == ASSUME BindInv, OtherFetch PROVE BindInv'
<1>1. PICK invoice \in Invoices :
        bind' = [bind EXCEPT !.fetches = @ + 1, !.kept = Remember(@, invoice)]
  BY DEF OtherFetch
<1>2. bind = [f \in BindFields |-> bind[f]] /\ bind.at # "paid"
  BY DEF BindInv, OtherFetch
<1>3. /\ bind'.at = bind.at /\ bind'.leaf = bind.leaf /\ bind'.selected = bind.selected
      /\ bind'.tx = bind.tx /\ bind' = [f \in BindFields |-> bind'[f]]
  BY <1>1, <1>2 DEF BindFields
<1>4. QED
  BY <1>2, <1>3 DEF BindInv, SelectionStands

(* The selected entry of a 402 is bound only if it can be paid. *)
LEMMA SelectsGood == ASSUME BindInv, Selects PROVE BindInv'
<1>1. PICK invoice \in Invoices :
        LET picked == PickRequirements(invoice.accepts, None)
            selected == [picked EXCEPT !.resource = Or(@, invoice.envelope)]
            payable == /\ ~Conflicted(selected)
                       /\ None \notin {PayTo(selected), Amount(selected), PriceUsdc(selected)}
        IN bind' = [bind EXCEPT !.kept = Remember(@, invoice), !.invoice = <<invoice>>,
                      !.selected = <<selected>>, !.at = IF payable THEN "selected" ELSE "blocked"]
  BY DEF Selects
<1> DEFINE picked == PickRequirements(invoice.accepts, None)
           selected == [picked EXCEPT !.resource = Or(@, invoice.envelope)]
           payable == /\ ~Conflicted(selected)
                      /\ None \notin {PayTo(selected), Amount(selected), PriceUsdc(selected)}
<1> HIDE DEF selected
<1>2. bind' = [bind EXCEPT !.kept = Remember(@, invoice), !.invoice = <<invoice>>,
                 !.selected = <<selected>>, !.at = IF payable THEN "selected" ELSE "blocked"]
  BY <1>1 DEF selected
<1>3. bind = [f \in BindFields |-> bind[f]]
  BY BindStands
<1>4. /\ bind'.at = (IF payable THEN "selected" ELSE "blocked") /\ bind'.selected = <<selected>>
      /\ bind' = [f \in BindFields |-> bind'[f]]
  BY <1>2, <1>3 DEF BindFields
<1>5. payable => SelectionStands'
  BY <1>4 DEF SelectionStands
<1>6. QED
  BY <1>4, <1>5 DEF BindInv

(* The stamp is of the selected offer, whatever was kept meanwhile. *)
LEMMA StampsGood == ASSUME BindInv, Stamps PROVE BindInv'
<1>1. PICK decision \in Preflighting :
        LET leaf == Stamp(bind.selected[1], bind.invoice[1], bind.kept, decision)
        IN bind' = [bind EXCEPT !.leaf = leaf, !.at = IF leaf = None THEN "blocked" ELSE "stamped"]
  BY DEF Stamps
<1> DEFINE leaf == Stamp(bind.selected[1], bind.invoice[1], bind.kept, decision)
<1>2. SelectionStands /\ bind = [f \in BindFields |-> bind[f]]
  BY BindStands DEF Stamps
<1>3. leaf # None => StandsFor(leaf[1], bind.selected[1])
  BY <1>2, StampBinds DEF SelectionStands
<1> HIDE DEF leaf
<1>4. bind' = [bind EXCEPT !.leaf = leaf, !.at = IF leaf = None THEN "blocked" ELSE "stamped"]
  BY <1>1 DEF leaf
<1>5. /\ bind'.at = (IF leaf = None THEN "blocked" ELSE "stamped") /\ bind'.leaf = leaf
      /\ bind'.selected = bind.selected /\ bind' = [f \in BindFields |-> bind'[f]]
  BY <1>2, <1>4 DEF BindFields
<1>6. QED
  BY <1>3, <1>5 DEF BindInv

(* What the agent composes has memos to look at. *)
LEMMA ComposesGood == ASSUME BindInv, Composes PROVE BindInv'
<1>1. PICK shape \in Transactions :
        bind' = [bind EXCEPT !.at = "composed",
          !.tx = <<[shape EXCEPT !.memos = [i \in DOMAIN @ |->
                     IF @[i].prefix = "asked" THEN MemoFor(bind.leaf[1]) ELSE @[i]]]>>]
  BY DEF Composes
<1> DEFINE memos == [i \in DOMAIN shape.memos |->
                      IF shape.memos[i].prefix = "asked" THEN MemoFor(bind.leaf[1]) ELSE shape.memos[i]]
           tx == [shape EXCEPT !.memos = [i \in DOMAIN @ |->
                    IF @[i].prefix = "asked" THEN MemoFor(bind.leaf[1]) ELSE @[i]]]
<1>2. StandsFor(bind.leaf[1], bind.selected[1]) /\ bind = [f \in BindFields |-> bind[f]]
  BY BindStands DEF Composes
<1>3. DOMAIN shape.memos = 1 .. Len(shape.memos) /\ Len(shape.memos) \in Nat
  BY TransactionsAssumption, LenProperties
<1>4. memos \in Seq(ToSet(memos))
  <2>1. DOMAIN memos = 1 .. Len(shape.memos) /\ \A i \in DOMAIN memos : memos[i] \in ToSet(memos)
    BY <1>3 DEF ToSet
  <2>2. memos = [i \in DOMAIN memos |-> memos[i]]
    OBVIOUS
  <2> HIDE DEF memos
  <2>3. memos \in [1 .. Len(shape.memos) -> ToSet(memos)]
    BY <2>1, <2>2
  <2>4. QED
    BY <1>3, <2>3, SeqDef
<1>5. tx.memos = memos
  <2>1. shape = [decodes |-> shape.decodes, memos |-> shape.memos, transfers |-> shape.transfers]
    BY TransactionsAssumption
  <2>2. tx = [shape EXCEPT !.memos = memos]
    OBVIOUS
  <2> HIDE DEF memos, tx
  <2>3. QED
    BY <2>1, <2>2
<1> HIDE DEF memos
<1>6. bind' = [bind EXCEPT !.at = "composed", !.tx = <<tx>>]
  BY <1>1
<1> HIDE DEF tx
<1>7. /\ bind'.at = "composed" /\ bind'.tx = <<tx>> /\ bind'.leaf = bind.leaf
      /\ bind'.selected = bind.selected /\ bind' = [f \in BindFields |-> bind'[f]]
  BY <1>2, <1>6 DEF BindFields
<1>8. QED
  BY <1>2, <1>4, <1>5, <1>7 DEF BindInv

(* verifyOfferBindingAfterPay lets only a hard binding through. *)
LEMMA PaysBoundGood == ASSUME BindInv, PaysBound PROVE BindInv'
<1> DEFINE hard == Strength(bind.tx[1], bind.leaf[1], bind.selected[1]) = "hard"
<1>1. bind' = [bind EXCEPT !.at = IF hard THEN "paid" ELSE "blocked"]
  BY DEF PaysBound
<1>2. /\ StandsFor(bind.leaf[1], bind.selected[1]) /\ bind = [f \in BindFields |-> bind[f]]
      /\ bind.tx[1].memos \in Seq(ToSet(bind.tx[1].memos))
  BY BindStands DEF PaysBound
<1> HIDE DEF hard
<1>3. /\ bind'.at = (IF hard THEN "paid" ELSE "blocked") /\ bind'.tx = bind.tx
      /\ bind'.leaf = bind.leaf /\ bind'.selected = bind.selected
      /\ bind' = [f \in BindFields |-> bind'[f]]
  BY <1>1, <1>2 DEF BindFields
<1>4. ASSUME hard PROVE PaysWhatItBound'
  <2> DEFINE tx == bind.tx[1]  leaf == bind.leaf[1]  selected == bind.selected[1]
  <2>1. Strength(tx, leaf, selected) = "hard" /\ tx.memos \in Seq(ToSet(tx.memos)) /\ StandsFor(leaf, selected)
    BY <1>2, <1>4 DEF hard
  <2>2. tx' = tx /\ leaf' = leaf /\ selected' = selected
    BY <1>3
  <2> HIDE DEF tx, leaf, selected
  <2>3. /\ LegsMatch(tx.transfers[1], selected)
        /\ \E i \in DOMAIN tx.memos : tx.memos[i].leaf = <<leaf>>
        /\ leaf.payTo = PayTo(selected) /\ leaf.amount = Amount(selected)
        /\ leaf.asset \in {None, selected.asset}
        /\ SameNetwork(leaf.network, selected.network) \/ "missing" \in {leaf.network, selected.network}
    BY <2>1, HardIsBound
  <2>4. QED
    BY <2>2, <2>3 DEF PaysWhatItBound, tx, leaf, selected
<1>5. QED
  BY <1>3, <1>4 DEF BindInv

(* What a binding keeps at every step. *)
LEMMA BindInvariance == BindSpec => []BindInv
<1>1. BindInit => BindInv
  BY DEF BindInit, BindInv, BindIdle, BindFields
<1>2. BindInv /\ [BindNext]_bindVars => BindInv'
  <2> SUFFICES ASSUME BindInv, [BindNext]_bindVars PROVE BindInv'
    OBVIOUS
  <2>1. CASE UNCHANGED bindVars
    BY <2>1 DEF bindVars, BindInv, SelectionStands, PaysWhatItBound
  <2>2. CASE NothingComposed
    <3>1. bind = [f \in BindFields |-> bind[f]]
      BY BindStands
    <3>2. bind'.at = "blocked" /\ bind' = [f \in BindFields |-> bind'[f]]
      BY <2>2, <3>1 DEF NothingComposed, BindFields
    <3>3. QED
      BY <3>2 DEF BindInv
  <2>3. QED
    BY <2>1, <2>2, OtherFetchGood, SelectsGood, StampsGood, ComposesGood, PaysBoundGood DEF BindNext
<1>3. QED
  BY <1>1, <1>2, PTL DEF BindSpec

(* A payment that a binding lets through moves the selected price of the
   selected asset to the selected recipient, under a hash of an offer of that
   price, recipient, asset and network: verifyOfferBindingAfterPay, whatever
   402s the other fetches of the process have put in rawInvoiceByResource. *)
THEOREM BindingPaysOffer == BindSpec => []PaysWhatItBound
<1>1. BindInv => PaysWhatItBound
  BY DEF BindInv, PaysWhatItBound
<1>2. QED
  BY <1>1, BindInvariance, PTL

-----------------------------------------------------------------------------
(* The wrappers that screen a whole 402, for any wrapper and any offers.      *)

-----------------------------------------------------------------------------
(* Entries of one key, all-offers.ts.                                        *)

(* offerKey tells apart whatever an approval reads of an entry: two entries of
   one key, one of them without a conflict, are read alike. *)
LEMMA SameKeySameOffer ==
  ASSUME NEW a, NEW b, OfferKey(a) = OfferKey(b), ~Conflicted(a)
  PROVE  /\ ~Conflicted(b) /\ PayTo(a) = PayTo(b) /\ Amount(a) = Amount(b)
         /\ a.asset = b.asset /\ a.network = b.network
         /\ PriceUsdc(a) = PriceUsdc(b) /\ Context(a) = Context(b)
<1>1. /\ Or(PayTo(a), RawRecipient(a)) = Or(PayTo(b), RawRecipient(b))
      /\ Or(Amount(a), Or(a.amount, a.maxAmountRequired)) = Or(Amount(b), Or(b.amount, b.maxAmountRequired))
      /\ a.asset = b.asset /\ a.network = b.network /\ Conflicted(a) = Conflicted(b)
  BY DEF OfferKey
<1>2. ASSUME NEW req, ~Conflicted(req)
      PROVE  /\ PayTo(req) = RawRecipient(req) /\ Amount(req) = Or(req.amount, req.maxAmountRequired)
  BY <1>2 DEF Conflicted, PayTo, RawRecipient, Amount, WrittenAmount
<1>3. ~Conflicted(b)
  BY <1>1
<1>4. PayTo(a) = PayTo(b) /\ Amount(a) = Amount(b)
  BY <1>1, <1>2, <1>3 DEF Or
<1>5. RawRecipient(a) = RawRecipient(b)
  BY <1>2, <1>3, <1>4
<1>6. PriceUsdc(a) = PriceUsdc(b)
  BY <1>1, <1>4, <1>5 DEF PriceUsdc
<1>7. QED
  BY <1>1, <1>3, <1>4, <1>6 DEF Context

(* An entry of the 402 is a well-formed offer. *)
LEMMA EntryIsOffer ==
  ASSUME NEW accepts \in OfferLists, NEW i \in DOMAIN accepts
  PROVE  /\ accepts[i] \in Entries /\ Numeric(accepts[i])
         /\ {"amount", "maxAmountRequired", "payTo", "pay_to"} \subseteq DOMAIN accepts[i]
<1>1. accepts[i] \in ToSet(accepts)
  BY DEF ToSet
<1>2. QED
  BY <1>1, OfferListsAssumption DEF Entries

(* mapWashRequirements writes both spellings and changes no reading. *)
LEMMA MappedReadsAlike ==
  ASSUME NEW req, ~Conflicted(req), PayTo(req) # None,
         {"amount", "maxAmountRequired", "payTo", "pay_to"} \subseteq DOMAIN req
  PROVE  PayTo(Mapped(req)) # None /\ PriceUsdc(Mapped(req)) = PriceUsdc(req)
<1> DEFINE to == PayTo(req)
           amount == Amount(req)
           map == [req EXCEPT !.amount = amount, !.maxAmountRequired = amount, !.payTo = to, !.pay_to = to]
<1>1. Mapped(req) = map
  BY DEF Mapped
<1>2. /\ map.amount = amount /\ map.maxAmountRequired = amount /\ map.payTo = to /\ map.pay_to = to
      /\ map.network = req.network /\ map.asset = req.asset
  OBVIOUS
<1>3. amount # None => BaseUnits(amount[1])
  BY DEF Amount, AmountMalformed, WrittenAmount, None
<1>4. to = RawRecipient(req)
  BY DEF Conflicted, PayTo, RawRecipient
<1> HIDE DEF map, to, amount
<1>5. Amount(map) = amount
  BY <1>2, <1>3 DEF Amount, AmountMalformed, WrittenAmount, AmountConflict, Or
<1>6. RawRecipient(map) = to
  BY <1>2 DEF RawRecipient, Or
<1>7. PayTo(map) = to
  BY <1>2 DEF PayTo, PayToConflict, SameRecipient, Or
<1>8. PriceUsdc(map) = PriceUsdc(req)
  BY <1>2, <1>4, <1>5, <1>6 DEF PriceUsdc, amount
<1>9. QED
  BY <1>1, <1>7, <1>8 DEF to

(* What passed vouches for every entry of its key. *)
LEMMA PassVouches ==
  ASSUME NEW by \in Wrappers, NEW accepts \in OfferLists, NEW i \in DOMAIN accepts,
         NEW s \in Screenings(by), Passes(by, s.req, s.asked), OfferKey(s.req) = OfferKey(accepts[i])
  PROVE  Vouches(by, s, accepts[i])
<1> DEFINE req == accepts[i]
<1>1. /\ s.req \in Entries /\ s.asked.lookup \in Lookups
      /\ s.asked = [preflight |-> s.asked.preflight, lookup |-> s.asked.lookup]
      /\ s.asked.preflight \in IF by.kind = "paying" THEN {None} ELSE Preflights
  BY DEF Screenings
<1>2. Numeric(req)
  BY EntryIsOffer
<1>3. {"amount", "maxAmountRequired", "payTo", "pay_to"} \subseteq DOMAIN s.req
  BY <1>1, OfferListsAssumption DEF Entries
<1>4. ~Conflicted(s.req)
  BY DEF Passes, WashOnlyProceeds, Mapped
<1> HIDE DEF req
<1>5. /\ ~Conflicted(req) /\ PayTo(s.req) = PayTo(req) /\ PriceUsdc(s.req) = PriceUsdc(req)
      /\ Context(s.req) = Context(req)
  BY <1>4, SameKeySameOffer DEF req
<1>6. CASE by.kind = "gate"
  <2>1. ApprovePayment(Context(req), by.cfg, s.asked.preflight, s.asked.lookup).approved
    BY <1>5, <1>6 DEF Passes
  <2>2. s.asked.preflight \in Preflights
    BY <1>1, <1>6
  <2>3. WithinFreeBounds(req, by.cfg, [preflight |-> s.asked.preflight, lookup |-> s.asked.lookup])
    BY <1>2, <1>5, <2>1, <2>2, ApprovedIsBounded
  <2>4. WithinFreeBounds(req, by.cfg, s.asked)
    BY <1>1, <2>3
  <2>5. QED
    BY <1>5, <1>6, <2>4 DEF Vouches, req
<1>7. CASE by.kind = "paying"
  <2>1. PayTo(s.req) # None /\ WashOnlyProceeds(Mapped(s.req), by.cfg, s.asked.lookup)
    BY <1>7 DEF Passes
  <2>2. PayTo(Mapped(s.req)) # None /\ PriceUsdc(Mapped(s.req)) = PriceUsdc(req)
    BY <1>3, <1>4, <1>5, <2>1, MappedReadsAlike
  <2>3. s.asked.lookup.card # None => s.asked.lookup.reachable
    BY <1>1, LookupsAssumption
  <2>4. ASSUME by.cfg.refuseWashFlagged, s.asked.lookup.card # None, s.asked.lookup.card[1].washFlagged = <<TRUE>>
        PROVE  WashCapped(by.cfg.washMax, PriceUsdc(req))
    BY <2>1, <2>2, <2>3, <2>4 DEF WashOnlyProceeds, WashAllows
  <2>5. QED
    BY <1>5, <1>7, <2>4 DEF Vouches, WashCapped, req
<1>8. QED
  BY <1>6, <1>7, WrappersAssumption

-----------------------------------------------------------------------------
(* The call, action by action.                                               *)

(* What a call rests on at any stage. *)
LEMMA WrapStands ==
  ASSUME WrapInv
  PROVE  /\ wrap = [f \in WrapFields |-> wrap[f]] /\ wrap.leg \in Legs
         /\ wrap.met \in Nat /\ wrap.carries \in BOOLEAN
         /\ Screening /\ PaidVouched /\ LegsBehind /\ MetBehind /\ PaidOnce
         /\ wrap.at # "idle" => Wrapper \in Wrappers
         /\ wrap.at # "refused" => wrap.refused = {}
         /\ \E S : wrap.paid \in Seq(S)
BY DEF WrapInv

(* A step that pays nothing keeps what was paid. *)
LEMMA PaidStays ==
  ASSUME WrapInv, wrap'.paid = wrap.paid, wrap'.by = wrap.by
  PROVE  PaidVouched' /\ PaidOnce' /\ (\E S : wrap'.paid \in Seq(S)) /\ Wrapper' = Wrapper
<1>1. PaidVouched /\ PaidOnce /\ \E S : wrap.paid \in Seq(S)
  BY WrapStands
<1>2. Wrapper' = Wrapper
  BY DEF Wrapper
<1>3. QED
  BY <1>1, <1>2 DEF PaidVouched, PaidOnce

(* A step that pays nothing and stays on its request keeps the legs behind it. *)
LEMMA LegsStay ==
  ASSUME WrapInv, wrap'.paid = wrap.paid, wrap'.leg = wrap.leg, wrap'.carries = wrap.carries
  PROVE  LegsBehind'
BY WrapStands DEF LegsBehind

(* The next leg is behind no leg that was paid. *)
LEMMA LegsAdvance ==
  ASSUME WrapInv, wrap'.paid = wrap.paid,
         \/ wrap.leg = "resource" /\ wrap'.leg = "route"
         \/ wrap.leg = "route" /\ wrap'.leg = "destination"
  PROVE  LegsBehind'
<1>1. /\ \A leg \in Legs : LegRank(leg) \in Int
      /\ LegRank("resource") = 0 /\ LegRank("route") = 1 /\ LegRank("destination") = 2
  BY DEF Legs, LegRank
<1>2. LegsBehind /\ wrap.leg \in Legs
  BY WrapStands
<1> HIDE DEF LegRank
<1>3. QED
  BY <1>1, <1>2 DEF LegsBehind

(* What was paid stays behind the 402 at hand, which no step takes back to be
   screened once it was paid. *)
LEMMA MetStays ==
  ASSUME WrapInv, wrap'.paid = wrap.paid,
         \/ wrap'.met = wrap.met + 1
         \/ /\ wrap'.met = wrap.met
            /\ \/ wrap.at \in {"screening", "offered"}
               \/ wrap'.at \in {"asking", "sent", "done", "failed"}
               \/ wrap'.at = wrap.at
  PROVE  MetBehind'
<1>1. wrap.met \in Nat /\ MetBehind
  BY WrapStands
<1>2. QED
  BY <1>1 DEF MetBehind

(* A step to the first question of a leg, or to the end of the call. *)
LEMMA QuietStep ==
  ASSUME WrapInv, wrap.at # "idle", wrap' = [f \in WrapFields |-> wrap'[f]],
         wrap'.paid = wrap.paid, wrap'.by = wrap.by, wrap'.leg \in Legs, wrap'.met \in Nat,
         wrap'.carries \in BOOLEAN, LegsBehind', MetBehind',
         \/ wrap'.at = "asking" /\ wrap'.screened = <<>> /\ wrap'.refused = {}
         \/ wrap'.at \in {"done", "failed"} /\ wrap'.refused = {}
         \/ wrap'.at = "refused" /\ wrap'.refused = {wrap'.met}
  PROVE  WrapInv'
<1>1. PaidVouched' /\ PaidOnce' /\ (\E S : wrap'.paid \in Seq(S)) /\ Wrapper' \in Wrappers
  BY PaidStays, WrapStands
<1>2. Screening'
  BY DEF Screening
<1>3. QED
  BY <1>1, <1>2 DEF WrapInv

(* A new request on the next leg. *)
LEMMA FreshLegGood ==
  ASSUME WrapInv, wrap.at \in {"asking", "offered", "sent"}, NEW leg, wrap' = FreshLeg(wrap, leg),
         \/ wrap.leg = "resource" /\ leg = "route"
         \/ wrap.leg = "route" /\ leg = "destination"
  PROVE  WrapInv'
<1>1. wrap = [f \in WrapFields |-> wrap[f]] /\ wrap.refused = {} /\ wrap.met \in Nat
  BY WrapStands
<1>2. /\ wrap' = [f \in WrapFields |-> wrap'[f]] /\ wrap'.at = "asking" /\ wrap'.leg = leg
      /\ wrap'.carries = FALSE /\ wrap'.met = wrap.met /\ wrap'.screened = <<>>
      /\ wrap'.paid = wrap.paid /\ wrap'.by = wrap.by /\ wrap'.refused = {}
  BY <1>1 DEF FreshLeg, WrapFields
<1>3. LegsBehind' /\ MetBehind'
  BY <1>2, LegsAdvance, MetStays
<1>4. QED
  BY <1>1, <1>2, <1>3, QuietStep DEF Legs

(* The end of a leg. *)
LEMMA EndedGood ==
  ASSUME WrapInv, wrap.at \in {"asking", "offered", "sent"}, NEW good, wrap' = Ended(wrap, good)
  PROVE  WrapInv'
<1>1. /\ wrap = [f \in WrapFields |-> wrap[f]] /\ wrap.leg \in Legs /\ wrap.refused = {}
      /\ wrap.met \in Nat /\ wrap.carries \in BOOLEAN
  BY WrapStands
<1>2. CASE wrap.leg = "route"
  BY <1>2, FreshLegGood DEF Ended
<1>3. CASE wrap.leg # "route"
  <2> DEFINE filed == Files(wrap, good)
  <2>1. wrap' = [filed EXCEPT !.at = "done"]
    BY <1>3 DEF Ended
  <2>2. filed = wrap \/ \E to : filed = [wrap EXCEPT !.observed = Append(@, to)]
    BY DEF Files
  <2> HIDE DEF filed
  <2>3. /\ wrap' = [f \in WrapFields |-> wrap'[f]] /\ wrap'.at = "done" /\ wrap'.leg = wrap.leg
        /\ wrap'.carries = wrap.carries /\ wrap'.met = wrap.met
        /\ wrap'.paid = wrap.paid /\ wrap'.by = wrap.by /\ wrap'.refused = {}
    BY <1>1, <2>1, <2>2 DEF WrapFields
  <2>4. LegsBehind' /\ MetBehind'
    BY <2>3, LegsStay, MetStays
  <2>5. QED
    BY <1>1, <2>3, <2>4, QuietStep
<1>4. QED
  BY <1>2, <1>3

(* A leg that breaks. *)
LEMMA BreaksGood == ASSUME WrapInv, Breaks PROVE WrapInv'
<1>1. PICK aborted \in BOOLEAN : wrap' = FailedOn(wrap, aborted)
  BY DEF Breaks
<1>2. /\ wrap = [f \in WrapFields |-> wrap[f]] /\ wrap.leg \in Legs /\ wrap.refused = {}
      /\ wrap.met \in Nat /\ wrap.carries \in BOOLEAN /\ wrap.at \in {"asking", "offered", "sent"}
  BY WrapStands DEF Breaks
<1>3. CASE wrap.by[1].kind = "paying" /\ wrap.leg = "resource" /\ ~aborted
  BY <1>1, <1>2, <1>3, FreshLegGood DEF FailedOn
<1>4. CASE ~(wrap.by[1].kind = "paying" /\ wrap.leg = "resource" /\ ~aborted)
  <2>1. wrap' = [wrap EXCEPT !.at = "failed"]
    BY <1>1, <1>4 DEF FailedOn
  <2>2. /\ wrap' = [f \in WrapFields |-> wrap'[f]] /\ wrap'.at = "failed" /\ wrap'.leg = wrap.leg
        /\ wrap'.carries = wrap.carries /\ wrap'.met = wrap.met
        /\ wrap'.paid = wrap.paid /\ wrap'.by = wrap.by /\ wrap'.refused = {}
    BY <1>2, <2>1 DEF WrapFields
  <2>3. LegsBehind' /\ MetBehind'
    BY <2>2, LegsStay, MetStays
  <2>4. QED
    BY <1>2, <2>2, <2>3, QuietStep
<1>5. QED
  BY <1>3, <1>4

(* A refusal ends the call at the 402 it is of, from which nothing was paid. *)
LEMMA RefusedGood ==
  ASSUME WrapInv, NEW w, w = [f \in WrapFields |-> w[f]], w.by = wrap.by, w.leg = wrap.leg,
         w.carries = wrap.carries, w.paid = wrap.paid, w.refused = wrap.refused, wrap' = RefusedBy(w),
         \/ wrap.at \in {"asking", "sent"} /\ w.met = wrap.met + 1
         \/ wrap.at = "screening" /\ w.met = wrap.met
  PROVE  WrapInv'
<1>1. wrap.leg \in Legs /\ wrap.refused = {} /\ wrap.met \in Nat /\ wrap.carries \in BOOLEAN
  BY WrapStands
<1>2. /\ wrap' = [f \in WrapFields |-> wrap'[f]] /\ wrap'.at = "refused" /\ wrap'.leg = wrap.leg
      /\ wrap'.carries = wrap.carries /\ wrap'.met = w.met
      /\ wrap'.paid = wrap.paid /\ wrap'.by = wrap.by /\ wrap'.refused = {w.met}
  BY <1>1 DEF RefusedBy, WrapFields
<1>3. LegsBehind' /\ MetBehind'
  BY <1>2, LegsStay, MetStays
<1>4. QED
  BY <1>1, <1>2, <1>3, QuietStep

(* A 402 is screened unless it offers nothing or too much. *)
LEMMA AskedOffersGood == ASSUME WrapInv, AskedOffers PROVE WrapInv'
<1>1. PICK accepts \in OfferLists :
        LET asked == [wrap EXCEPT !.met = @ + 1, !.accepts = accepts, !.screened = <<>>,
                                  !.last = Merchant(accepts)]
            distinct == DistinctOffers(accepts)
        IN wrap' = IF distinct = {} \/ Cardinality(distinct) > MaxDistinct THEN RefusedBy(asked)
                   ELSE [asked EXCEPT !.at = "screening"]
  BY DEF AskedOffers
<1> DEFINE asked == [wrap EXCEPT !.met = @ + 1, !.accepts = accepts, !.screened = <<>>,
                                 !.last = Merchant(accepts)]
           distinct == DistinctOffers(accepts)
<1>2. /\ wrap = [f \in WrapFields |-> wrap[f]] /\ wrap.leg \in Legs /\ wrap.refused = {}
      /\ wrap.at \in {"asking", "sent"} /\ wrap.met \in Nat /\ wrap.carries \in BOOLEAN
      /\ Wrapper \in Wrappers
  BY WrapStands DEF AskedOffers
<1>3. /\ asked = [f \in WrapFields |-> asked[f]] /\ asked.met = wrap.met + 1 /\ asked.by = wrap.by
      /\ asked.leg = wrap.leg /\ asked.carries = wrap.carries
      /\ asked.paid = wrap.paid /\ asked.refused = wrap.refused
      /\ asked.screened = <<>> /\ asked.accepts = accepts
  BY <1>2 DEF WrapFields
<1> HIDE DEF asked
<1>4. CASE wrap' = RefusedBy(asked)
  BY <1>2, <1>3, <1>4, RefusedGood
<1>5. CASE distinct # {} /\ wrap' = [asked EXCEPT !.at = "screening"]
  <2>1. /\ wrap' = [f \in WrapFields |-> wrap'[f]] /\ wrap'.at = "screening" /\ wrap'.by = wrap.by
        /\ wrap'.leg = wrap.leg /\ wrap'.carries = wrap.carries /\ wrap'.met = wrap.met + 1
        /\ wrap'.paid = wrap.paid /\ wrap'.refused = {}
        /\ wrap'.screened = <<>> /\ wrap'.accepts = accepts
    BY <1>2, <1>3, <1>5 DEF WrapFields
  <2>2. PICK i \in DOMAIN accepts : TRUE
    BY <1>5 DEF DistinctOffers
  <2>3. Unscreened' # {}
    BY <2>1, <2>2 DEF Unscreened
  <2>4. wrap'.screened \in Seq(Screenings(Wrapper')) /\ ScreenedPass'
    BY <2>1 DEF ScreenedPass
  <2>5. Screening'
    BY <2>1, <2>3, <2>4 DEF Screening
  <2>6. LegsBehind' /\ MetBehind'
    BY <2>1, LegsStay, MetStays
  <2>7. PaidVouched' /\ PaidOnce' /\ (\E S : wrap'.paid \in Seq(S)) /\ Wrapper' \in Wrappers
    BY <1>2, <2>1, PaidStays
  <2>8. QED
    BY <1>2, <2>1, <2>5, <2>6, <2>7 DEF WrapInv
<1>6. QED
  BY <1>1, <1>4, <1>5 DEF asked

(* The next offer is screened; when it was the last, every entry has passed. *)
LEMMA Screens1Good == ASSUME WrapInv, Screens1 PROVE WrapInv'
<1> DEFINE req == wrap.accepts[Min(Unscreened)]
           alone == \A i \in Unscreened : OfferKey(wrap.accepts[i]) = OfferKey(req)
<1>1. PICK preflight \in IF Wrapper.kind = "paying" THEN {None} ELSE Preflights :
        \E lookup \in Lookups :
          LET asked == [preflight |-> preflight, lookup |-> lookup]
              noted == [wrap EXCEPT !.screened = Append(@, [req |-> req, asked |-> asked])]
          IN wrap' = IF ~Passes(Wrapper, req, asked) THEN RefusedBy(wrap)
                     ELSE IF alone THEN [noted EXCEPT !.at = "offered"]
                     ELSE noted
  BY DEF Screens1
<1>2. PICK lookup \in Lookups :
        LET asked == [preflight |-> preflight, lookup |-> lookup]
            noted == [wrap EXCEPT !.screened = Append(@, [req |-> req, asked |-> asked])]
        IN wrap' = IF ~Passes(Wrapper, req, asked) THEN RefusedBy(wrap)
                   ELSE IF alone THEN [noted EXCEPT !.at = "offered"]
                   ELSE noted
  BY <1>1
<1> DEFINE asked == [preflight |-> preflight, lookup |-> lookup]
           row == [req |-> req, asked |-> asked]
           noted == [wrap EXCEPT !.screened = Append(@, row)]
<1>3. /\ wrap = [f \in WrapFields |-> wrap[f]] /\ wrap.leg \in Legs /\ wrap.refused = {}
      /\ wrap.at = "screening" /\ Wrapper \in Wrappers /\ wrap.accepts \in OfferLists
      /\ wrap.met \in Nat /\ wrap.carries \in BOOLEAN
      /\ wrap.screened \in Seq(Screenings(Wrapper)) /\ ScreenedPass /\ Unscreened # {}
  BY WrapStands DEF Screens1, Screening
<1>4. Min(Unscreened) \in Unscreened /\ Unscreened \subseteq DOMAIN wrap.accepts
  <2>1. Unscreened \subseteq DOMAIN wrap.accepts
    BY DEF Unscreened
  <2>2. DOMAIN wrap.accepts \subseteq Nat
    BY <1>3, OfferListsAssumption, LenProperties
  <2>3. QED
    BY <1>3, <2>1, <2>2, FirstIsOne
<1>5. row \in Screenings(Wrapper) /\ row.req = req /\ row.asked = asked
  <2>1. req \in Entries
    BY <1>3, <1>4, EntryIsOffer
  <2>2. QED
    BY <2>1 DEF Screenings
<1> HIDE DEF req, row
<1>6. CASE wrap' = RefusedBy(wrap)
  BY <1>3, <1>6, RefusedGood
<1>7. CASE /\ Passes(Wrapper, req, asked)
           /\ wrap' = IF alone THEN [noted EXCEPT !.at = "offered"] ELSE noted
  <2>1. /\ wrap' = [f \in WrapFields |-> wrap'[f]]
        /\ wrap'.at = IF alone THEN "offered" ELSE "screening"
        /\ wrap'.by = wrap.by /\ wrap'.leg = wrap.leg /\ wrap'.paid = wrap.paid /\ wrap'.refused = {}
        /\ wrap'.carries = wrap.carries /\ wrap'.met = wrap.met
        /\ wrap'.screened = Append(wrap.screened, row) /\ wrap'.accepts = wrap.accepts
    <3> HIDE DEF alone, asked
    <3>1. QED
      BY <1>3, <1>7 DEF WrapFields
  <2>2. /\ Append(wrap.screened, row) \in Seq(Screenings(Wrapper))
        /\ DOMAIN wrap.screened = 1 .. Len(wrap.screened) /\ Len(wrap.screened) \in Nat
        /\ DOMAIN Append(wrap.screened, row) = 1 .. (Len(wrap.screened) + 1)
        /\ Append(wrap.screened, row)[Len(wrap.screened) + 1] = row
        /\ \A j \in DOMAIN wrap.screened : Append(wrap.screened, row)[j] = wrap.screened[j]
    BY <1>3, <1>5, AppendProperties, LenProperties
  <2>3. Wrapper' = Wrapper
    BY <2>1 DEF Wrapper
  <2>4. ScreenedPass'
    <3> SUFFICES ASSUME NEW j \in DOMAIN wrap'.screened
                 PROVE  Passes(Wrapper, wrap'.screened[j].req, wrap'.screened[j].asked)
      BY <2>3 DEF ScreenedPass
    <3>1. CASE j \in DOMAIN wrap.screened
      BY <1>3, <2>1, <2>2, <3>1 DEF ScreenedPass
    <3>2. CASE j \notin DOMAIN wrap.screened
      <4>1. j = Len(wrap.screened) + 1
        BY <2>1, <2>2, <3>2
      <4>2. wrap'.screened[j] = row
        BY <2>1, <2>2, <4>1
      <4>3. QED
        BY <1>5, <1>7, <4>2
    <3>3. QED
      BY <3>1, <3>2
  <2>5. Unscreened' = {i \in Unscreened : OfferKey(wrap.accepts[i]) # OfferKey(req)}
    <3> HIDE DEF asked, noted, alone
    <3>1. ASSUME NEW i
          PROVE  (\A j \in DOMAIN wrap'.screened : OfferKey(wrap'.screened[j].req) # OfferKey(wrap.accepts[i]))
                 <=> /\ \A j \in DOMAIN wrap.screened : OfferKey(wrap.screened[j].req) # OfferKey(wrap.accepts[i])
                     /\ OfferKey(req) # OfferKey(wrap.accepts[i])
      <4>1. wrap'.screened = Append(wrap.screened, row)
        BY <2>1
      <4> DEFINE Other(r) == OfferKey(r.req) # OfferKey(wrap.accepts[i])
      <4>2. Other(row) <=> OfferKey(req) # OfferKey(wrap.accepts[i])
        BY <1>5
      <4> HIDE DEF Other
      <4>3. (\A j \in DOMAIN wrap'.screened : Other(wrap'.screened[j]))
            <=> (\A j \in DOMAIN wrap.screened : Other(wrap.screened[j])) /\ Other(row)
        BY <2>2, <4>1
      <4>4. QED
        BY <4>2, <4>3 DEF Other
    <3>2. wrap'.accepts = wrap.accepts
      BY <2>1
    <3>3. QED
      BY <3>1, <3>2 DEF Unscreened
  <2>6. IF alone THEN Unscreened' = {} ELSE Unscreened' # {}
    BY <2>5
  <2> HIDE DEF alone
  <2>7. Screening'
    BY <1>3, <2>1, <2>2, <2>3, <2>4, <2>6 DEF Screening
  <2>8. LegsBehind' /\ MetBehind'
    BY <1>3, <2>1, LegsStay, MetStays
  <2>9. PaidVouched' /\ PaidOnce' /\ (\E S : wrap'.paid \in Seq(S)) /\ Wrapper' \in Wrappers
    BY <1>3, <2>1, PaidStays
  <2>10. wrap'.at \in {"offered", "screening"}
    BY <2>1
  <2>11. QED
    BY <1>3, <2>1, <2>7, <2>8, <2>9, <2>10 DEF WrapInv
<1>8. QED
  BY <1>2, <1>6, <1>7 DEF req, row

(* Whatever entry is paid, an entry of its key has passed. *)
LEMMA ClientPaysGood == ASSUME WrapInv, ClientPays PROVE WrapInv'
<1>1. PICK i \in DOMAIN wrap.accepts :
        wrap' = [wrap EXCEPT !.at = "sent", !.carries = TRUE,
          !.paid = Append(@, [leg |-> wrap.leg, met |-> wrap.met, req |-> wrap.accepts[i],
                              screened |-> wrap.screened])]
  BY DEF ClientPays
<1> DEFINE row == [leg |-> wrap.leg, met |-> wrap.met, req |-> wrap.accepts[i], screened |-> wrap.screened]
<1>2. /\ wrap = [f \in WrapFields |-> wrap[f]] /\ wrap.leg \in Legs /\ wrap.refused = {}
      /\ wrap.at = "offered" /\ Wrapper \in Wrappers /\ wrap.accepts \in OfferLists
      /\ wrap.met \in Nat /\ wrap.carries = FALSE
      /\ wrap.screened \in Seq(Screenings(Wrapper)) /\ ScreenedPass /\ Unscreened = {}
  BY WrapStands DEF ClientPays, Screening
<1>3. row.leg = wrap.leg /\ row.met = wrap.met /\ row.req = wrap.accepts[i] /\ row.screened = wrap.screened
  OBVIOUS
<1>4. \E j \in DOMAIN wrap.screened : Vouches(Wrapper, wrap.screened[j], wrap.accepts[i])
  <2>1. PICK j \in DOMAIN wrap.screened : OfferKey(wrap.screened[j].req) = OfferKey(wrap.accepts[i])
    BY <1>2 DEF Unscreened
  <2>2. wrap.screened[j] \in Screenings(Wrapper)
    BY <1>2, ElementOfSeq, LenProperties
  <2>3. Passes(Wrapper, wrap.screened[j].req, wrap.screened[j].asked)
    BY <1>2 DEF ScreenedPass
  <2>4. Vouches(Wrapper, wrap.screened[j], wrap.accepts[i])
    BY <1>2, <2>1, <2>2, <2>3, PassVouches
  <2>5. QED
    BY <2>4
<1> HIDE DEF row
<1>5. /\ wrap' = [f \in WrapFields |-> wrap'[f]] /\ wrap'.at = "sent" /\ wrap'.by = wrap.by
      /\ wrap'.leg = wrap.leg /\ wrap'.carries = TRUE /\ wrap'.met = wrap.met
      /\ wrap'.refused = {} /\ wrap'.paid = Append(wrap.paid, row)
  BY <1>1, <1>2 DEF WrapFields, row
<1>6. PICK S : wrap.paid \in Seq(S)
  BY WrapStands
<1>7. /\ wrap'.paid \in Seq(S \cup {row})
      /\ DOMAIN wrap.paid = 1 .. Len(wrap.paid) /\ Len(wrap.paid) \in Nat
      /\ DOMAIN wrap'.paid = 1 .. (Len(wrap.paid) + 1)
      /\ wrap'.paid[Len(wrap.paid) + 1] = row
      /\ \A j \in DOMAIN wrap.paid : wrap'.paid[j] = wrap.paid[j]
  <2>1. wrap.paid \in Seq(S \cup {row})
    BY <1>6, SeqDef
  <2>2. QED
    BY <1>5, <2>1, AppendProperties, LenProperties
<1>8. ASSUME NEW k \in DOMAIN wrap'.paid
      PROVE  \/ k \in DOMAIN wrap.paid /\ wrap'.paid[k] = wrap.paid[k]
             \/ k \notin DOMAIN wrap.paid /\ k = Len(wrap.paid) + 1 /\ wrap'.paid[k] = row
  BY <1>7
<1>9. Wrapper' = Wrapper
  BY <1>5 DEF Wrapper
<1>10. PaidVouched'
  <2>1. \E j \in DOMAIN row.screened : Vouches(Wrapper, row.screened[j], row.req)
    BY <1>3, <1>4
  <2>2. PaidVouched
    BY WrapStands
  <2>3. ASSUME NEW k \in DOMAIN wrap'.paid
        PROVE  \E j \in DOMAIN wrap'.paid[k].screened : Vouches(Wrapper, wrap'.paid[k].screened[j], wrap'.paid[k].req)
    BY <1>8, <2>1, <2>2 DEF PaidVouched
  <2>4. QED
    BY <1>9, <2>3 DEF PaidVouched
<1>11. /\ \A leg \in Legs : LegRank(leg) \in Int
       /\ \A k \in DOMAIN wrap.paid : wrap.paid[k].leg \in Legs /\ LegRank(wrap.paid[k].leg) < LegRank(wrap.leg)
  <2>1. LegsBehind
    BY WrapStands
  <2>2. \A leg \in Legs : LegRank(leg) \in Int
    BY DEF Legs, LegRank
  <2>3. QED
    BY <1>2, <2>1, <2>2 DEF LegsBehind
<1>12. LegsBehind'
  <2> HIDE DEF LegRank
  <2>1. ASSUME NEW k \in DOMAIN wrap'.paid
        PROVE  wrap'.paid[k].leg \in Legs /\ LegRank(wrap'.paid[k].leg) <= LegRank(wrap'.leg)
    <3>1. CASE wrap'.paid[k] = row
      BY <1>2, <1>3, <1>5, <1>11, <3>1
    <3>2. CASE k \in DOMAIN wrap.paid /\ wrap'.paid[k] = wrap.paid[k]
      <4>1. wrap.paid[k].leg \in Legs /\ LegRank(wrap.paid[k].leg) < LegRank(wrap.leg)
        BY <1>11, <3>2
      <4>2. LegRank(wrap.paid[k].leg) \in Int /\ LegRank(wrap.leg) \in Int
        BY <1>2, <1>11, <4>1
      <4>3. LegRank(wrap.paid[k].leg) <= LegRank(wrap.leg)
        BY <4>1, <4>2
      <4>4. QED
        BY <1>5, <3>2, <4>1, <4>3
    <3>3. QED
      BY <1>8, <3>1, <3>2
  <2>2. QED
    BY <1>5, <2>1 DEF LegsBehind
<1>13. PaidOnce'
  <2> HIDE DEF LegRank
  <2>1. \A k \in DOMAIN wrap.paid : wrap.paid[k].leg # row.leg
    <3>1. row.leg = wrap.leg /\ wrap.leg \in Legs
      BY <1>2, <1>3
    <3>2. QED
      BY <1>11, <3>1
  <2>2. PaidOnce
    BY WrapStands
  <2>3. ASSUME NEW k \in DOMAIN wrap'.paid, NEW l \in DOMAIN wrap'.paid, wrap'.paid[k].leg = wrap'.paid[l].leg
        PROVE  k = l
    BY <1>8, <2>1, <2>2, <2>3 DEF PaidOnce
  <2>4. QED
    BY <2>3 DEF PaidOnce
<1>14. MetBehind'
  <2>1. MetBehind
    BY WrapStands
  <2>2. ASSUME NEW k \in DOMAIN wrap'.paid
        PROVE  wrap'.paid[k].met \in Nat /\ wrap'.paid[k].met <= wrap.met
    <3>1. row.met = wrap.met /\ wrap.met \in Nat /\ wrap.at = "offered"
      BY <1>2, <1>3
    <3>2. \A l \in DOMAIN wrap.paid : wrap.paid[l].met \in Nat /\ wrap.paid[l].met < wrap.met
      BY <2>1, <3>1 DEF MetBehind
    <3>3. QED
      BY <1>8, <3>1, <3>2
  <2>3. QED
    BY <1>5, <2>2 DEF MetBehind
<1>15. Screening'
  BY <1>5 DEF Screening
<1>16. QED
  BY <1>2, <1>5, <1>7, <1>9, <1>10, <1>12, <1>13, <1>14, <1>15 DEF WrapInv

(* A step of another call changes only whom the last 402 named. *)
LEMMA AnotherCallGood == ASSUME WrapInv, AnotherCall PROVE WrapInv'
<1>1. PICK accepts \in OfferLists : wrap' = [wrap EXCEPT !.last = Merchant(accepts)]
  BY DEF AnotherCall
<1>2. wrap = [f \in WrapFields |-> wrap[f]]
  BY WrapStands
<1>3. /\ wrap' = [f \in WrapFields |-> wrap'[f]] /\ wrap'.at = wrap.at /\ wrap'.by = wrap.by
      /\ wrap'.leg = wrap.leg /\ wrap'.accepts = wrap.accepts /\ wrap'.screened = wrap.screened
      /\ wrap'.paid = wrap.paid /\ wrap'.refused = wrap.refused
      /\ wrap'.carries = wrap.carries /\ wrap'.met = wrap.met
  BY <1>1, <1>2 DEF WrapFields
<1>4. Wrapper' = Wrapper /\ Unscreened' = Unscreened
  BY <1>3 DEF Wrapper, Unscreened
<1>5. Screening'
  BY <1>3, <1>4, WrapStands DEF Screening, ScreenedPass
<1>6. LegsBehind' /\ MetBehind' /\ PaidVouched' /\ PaidOnce' /\ \E S : wrap'.paid \in Seq(S)
  BY <1>3, LegsStay, MetStays, PaidStays
<1>7. QED
  BY <1>3, <1>4, <1>5, <1>6 DEF WrapInv

(* What a wrapper keeps at every step. *)
LEMMA WrapInvariance == WrapSpec => []WrapInv
<1>1. WrapInit => WrapInv
  <2> SUFFICES ASSUME WrapInit PROVE WrapInv
    OBVIOUS
  <2>1. /\ wrap = [f \in WrapFields |-> wrap[f]] /\ wrap.at = "idle" /\ wrap.leg = "resource"
        /\ wrap.paid = <<>> /\ wrap.refused = {} /\ wrap.met = 0 /\ wrap.carries = FALSE
    BY DEF WrapInit, WrapIdle, WrapFields
  <2>2. (\E S : wrap.paid \in Seq(S)) /\ wrap.met \in Nat /\ wrap.leg \in Legs
    <3>1. wrap.paid \in Seq({})
      BY <2>1, EmptySeq
    <3>2. \E S : wrap.paid \in Seq(S)
      BY ONLY <3>1
    <3>3. QED
      BY <2>1, <3>2 DEF Legs
  <2>3. Screening /\ PaidVouched /\ LegsBehind /\ MetBehind /\ PaidOnce
    <3>1. DOMAIN wrap.paid = {}
      BY <2>1
    <3>2. PaidVouched /\ LegsBehind /\ MetBehind /\ PaidOnce
      BY ONLY <3>1 DEF PaidVouched, LegsBehind, MetBehind, PaidOnce
    <3>3. QED
      BY <2>1, <3>2 DEF Screening
  <2>4. QED
    BY <2>1, <2>2, <2>3 DEF WrapInv
<1>2. WrapInv /\ [WrapNext]_wrapVars => WrapInv'
  <2> SUFFICES ASSUME WrapInv, [WrapNext]_wrapVars PROVE WrapInv'
    OBVIOUS
  <2>1. CASE UNCHANGED wrapVars
    <3>1. wrap' = wrap
      BY <2>1 DEF wrapVars
    <3>2. Wrapper' = Wrapper /\ Unscreened' = Unscreened
      BY <3>1 DEF Wrapper, Unscreened
    <3>3. QED
      BY <3>1, <3>2 DEF WrapInv, Screening, ScreenedPass, PaidVouched, LegsBehind, MetBehind, PaidOnce
  <2>2. CASE Begins
    <3>1. PICK by \in Wrappers : wrap' = [wrap EXCEPT !.at = "asking", !.by = <<by>>]
      BY <2>2 DEF Begins
    <3>2. /\ wrap' = [f \in WrapFields |-> wrap'[f]] /\ wrap'.at = "asking" /\ wrap'.leg = "resource"
          /\ wrap'.by = <<by>> /\ wrap'.paid = <<>> /\ wrap'.refused = {} /\ wrap'.screened = <<>>
          /\ wrap'.carries = FALSE /\ wrap'.met = 0
      BY <2>2, <3>1 DEF Begins, WrapIdle, WrapFields
    <3>3. Screening' /\ PaidVouched' /\ LegsBehind' /\ MetBehind' /\ PaidOnce'
      <4>1. DOMAIN wrap'.paid = {}
        BY <3>2
      <4>2. PaidVouched' /\ LegsBehind' /\ MetBehind' /\ PaidOnce'
        BY ONLY <4>1 DEF PaidVouched, LegsBehind, MetBehind, PaidOnce
      <4>3. QED
        BY <3>2, <4>2 DEF Screening
    <3>4. Wrapper' = by /\ (\E S : wrap'.paid \in Seq(S)) /\ wrap'.met \in Nat /\ wrap'.leg \in Legs
      BY <3>2, EmptySeq DEF Wrapper, Legs
    <3>5. QED
      BY <3>2, <3>3, <3>4 DEF WrapInv
  <2>3. CASE AskedFreely
    BY <2>3, EndedGood DEF AskedFreely
  <2>4. CASE PaidFor \/ ClientReturns
    BY <2>4, EndedGood DEF PaidFor, ClientReturns
  <2>5. CASE AskedOffers \/ Screens1 \/ ClientPays \/ AnotherCall \/ Breaks
    BY ONLY <2>5, WrapInv, AskedOffersGood, Screens1Good, ClientPaysGood, AnotherCallGood, BreaksGood
  <2>6. WrapNext \/ UNCHANGED wrapVars
    OBVIOUS
  <2>7. QED
    BY ONLY <2>1, <2>2, <2>3, <2>4, <2>5, <2>6 DEF WrapNext
<1>3. QED
  BY <1>1, <1>2, PTL DEF WrapSpec

(* Whatever entry of a 402 the client under a wrapper pays, the answers that
   were asked allow its price: the gate of wrap-fetch.ts, with-guard.ts and
   mcp-hook.ts, and the paying fetch, which pays no leg twice, and nothing from
   a 402 it refused or met after that. *)
THEOREM WrappersPayScreened == WrapSpec => []PaysScreenedOffers
<1>1. WrapInv => PaysScreenedOffers
  <2> SUFFICES ASSUME WrapInv PROVE PaysScreenedOffers
    OBVIOUS
  <2>1. PaidVouched /\ PaidOnce /\ MetBehind /\ wrap.met \in Nat
    BY WrapStands
  <2>2. ASSUME NEW n \in wrap.refused, NEW i \in DOMAIN wrap.paid PROVE wrap.paid[i].met < n
    <3>1. wrap.at = "refused" /\ n = wrap.met
      BY <2>2 DEF WrapInv
    <3>2. QED
      BY <2>1, <3>1 DEF MetBehind
  <2>3. QED
    BY <2>1, <2>2 DEF PaysScreenedOffers, PaidVouched, PaidOnce
<1>2. QED
  BY <1>1, WrapInvariance, PTL

-----------------------------------------------------------------------------
(* The fulfilment log, for any calls, payments and answers.                  *)

(* buildFulfillmentRecord says match of no failed settlement, no delivery that
   is not ready and no transaction that the answer contradicts. *)
LEMMA MatchIsClean ==
  ASSUME NEW payment, NEW answer, BuildRecord(payment, answer).verdict = "match"
  PROVE  /\ BuildRecord(payment, answer).settled # <<FALSE>> /\ BodyOf(answer).ready # <<FALSE>>
         /\ HeaderTx(answer) # None => SameTx(HeaderTx(answer)[1], Or(BodyOf(answer).tx, HeaderTx(answer))[1])
<1>1. FulfilmentVerdict(answer) = "match" /\ BuildRecord(payment, answer).settled = SettledOf(answer)
  BY DEF BuildRecord
<1>2. Reasons(answer) = {} /\ BodyOf(answer).ready # <<FALSE>>
  BY <1>1 DEF FulfilmentVerdict
<1>3. SettledOf(answer) # <<FALSE>>
  BY <1>2 DEF Reasons
<1>4. HeaderTx(answer) # None /\ BodyOf(answer).tx # None => SameTx(HeaderTx(answer)[1], BodyOf(answer).tx[1])
  BY <1>2 DEF Reasons
<1>5. \A tx : SameTx(tx, tx)
  BY DEF SameTx
<1>6. HeaderTx(answer) # None => SameTx(HeaderTx(answer)[1], Or(BodyOf(answer).tx, HeaderTx(answer))[1])
  BY <1>4, <1>5 DEF Or
<1>7. QED
  BY <1>1, <1>2, <1>3, <1>6

(* A piece followed by the next piece, or the start of it, is a piece. *)
LEMMA PiecesJoin ==
  ASSUME NEW recorded \in Seq(PaidCalls), NEW s, NEW t, NEW from \in Nat, NEW mid \in Nat, NEW to \in Nat,
         Piece(s, recorded, from, mid), Piece(t, recorded, mid, to)
  PROVE  Piece(s \o t, recorded, from, to)
<1>1. /\ s \in Seq(PaidCalls) /\ t \in Seq(PaidCalls) /\ Len(s) = mid - from /\ Len(t) = to - mid
      /\ \A k \in 1 .. Len(s) : s[k] = recorded[from + k]
      /\ \A k \in 1 .. Len(t) : t[k] = recorded[mid + k]
  BY DEF Piece
<1>2. /\ s \o t \in Seq(PaidCalls) /\ Len(s \o t) = Len(s) + Len(t)
      /\ \A k \in 1 .. Len(s) + Len(t) : (s \o t)[k] = IF k <= Len(s) THEN s[k] ELSE t[k - Len(s)]
  BY <1>1, ConcatProperties
<1>3. Len(s) \in Nat /\ Len(t) \in Nat
  BY <1>1, LenProperties
<1>4. ASSUME NEW k \in 1 .. Len(s \o t) PROVE (s \o t)[k] = recorded[from + k]
  <2>1. CASE k <= Len(s)
    BY <1>1, <1>2, <1>3, <2>1
  <2>2. CASE ~(k <= Len(s))
    <3>1. k - Len(s) \in 1 .. Len(t) /\ (s \o t)[k] = t[k - Len(s)]
      BY <1>2, <1>3, <2>2
    <3>2. t[k - Len(s)] = recorded[mid + (k - Len(s))]
      BY <1>1, <3>1
    <3>3. mid + (k - Len(s)) = from + k
      BY <1>1, <1>3
    <3>4. QED
      BY <3>1, <3>2, <3>3
  <2>3. QED
    BY <2>1, <2>2
<1>5. Len(s \o t) = to - from
  BY <1>1, <1>2, <1>3
<1>6. QED
  BY <1>2, <1>4, <1>5 DEF Piece

(* The start of a piece is a piece. *)
LEMMA PieceStarts ==
  ASSUME NEW recorded, NEW s, NEW from \in Nat, NEW to \in Nat, Piece(s, recorded, from, to),
         NEW rows \in 0 .. Len(s)
  PROVE  Piece(SubSeq(s, 1, rows), recorded, from, from + rows)
<1>1. s \in Seq(PaidCalls) /\ \A k \in 1 .. Len(s) : s[k] = recorded[from + k]
  BY DEF Piece
<1>2. Len(s) \in Nat /\ \A k \in 1 .. Len(s) : s[k] \in PaidCalls
  BY <1>1, LenProperties, ElementOfSeq
<1>3. /\ SubSeq(s, 1, rows) \in Seq(PaidCalls)
      /\ Len(SubSeq(s, 1, rows)) = IF 1 <= rows THEN rows - 1 + 1 ELSE 0
      /\ \A k \in 1 .. rows - 1 + 1 : SubSeq(s, 1, rows)[k] = s[1 + k - 1]
  <2>1. \A k \in 1 .. rows : s[k] \in PaidCalls
    BY <1>2
  <2>2. QED
    BY <2>1, SubSeqProperties
<1>4. Len(SubSeq(s, 1, rows)) = rows
  BY <1>3
<1>5. ASSUME NEW k \in 1 .. rows PROVE SubSeq(s, 1, rows)[k] = recorded[from + k]
  <2>1. k \in 1 .. rows - 1 + 1 /\ 1 + k - 1 = k /\ k \in 1 .. Len(s)
    BY <1>2
  <2>2. QED
    BY <1>1, <1>3, <2>1
<1>6. QED
  BY <1>3, <1>4, <1>5 DEF Piece

(* The rows of the file stay in it when more are written. *)
LEMMA RangeGrows ==
  ASSUME NEW s \in Seq(PaidCalls), NEW t \in Seq(PaidCalls)
  PROVE  Range(s) \subseteq Range(s \o t)
BY RangeConcatenation

(* What is recorded of a piece stands when more is recorded. *)
LEMMA PieceStays ==
  ASSUME NEW recorded \in Seq(PaidCalls), NEW c \in PaidCalls, NEW s, NEW from \in Nat, NEW to \in 0 .. Len(recorded),
         Piece(s, recorded, from, to)
  PROVE  Piece(s, Append(recorded, c), from, to)
<1>1. /\ s \in Seq(PaidCalls) /\ Len(s) = to - from
      /\ \A k \in 1 .. Len(s) : s[k] = recorded[from + k]
  BY DEF Piece
<1>2. Len(recorded) \in Nat /\ \A k \in 1 .. Len(recorded) : Append(recorded, c)[k] = recorded[k]
  BY LenProperties, AppendProperties
<1>3. ASSUME NEW k \in 1 .. Len(s) PROVE s[k] = Append(recorded, c)[from + k]
  <2>1. from + k \in 1 .. Len(recorded)
    BY <1>1, <1>2
  <2>2. QED
    BY <1>1, <1>2, <2>1
<1>4. QED
  BY <1>1, <1>3 DEF Piece

(* The cuts are numbers up to what was recorded, in order. *)
LEMMA CutsAreNumbers ==
  ASSUME NEW f, LogShape(f), NEW cut, Cuts(f, cut)
  PROVE  /\ Len(f.batches) \in Nat /\ Len(f.recorded) \in Nat /\ DOMAIN f.batches = 1 .. Len(f.batches)
         /\ \A i \in 0 .. Len(f.batches) : cut[i] \in Nat /\ cut[i] <= Len(f.recorded)
         /\ cut[Len(f.batches)] \in 0 .. Len(f.recorded)
         /\ f.disk \in Seq(PaidCalls) /\ Len(f.disk) \in Nat
         /\ f.pending \in Seq(PaidCalls) /\ Len(f.pending) \in Nat
<1>1. Len(f.batches) \in Nat /\ Len(f.recorded) \in Nat /\ DOMAIN f.batches = 1 .. Len(f.batches)
  BY LenProperties DEF LogShape
<1>2. \A i \in 0 .. Len(f.batches) : cut[i] \in 0 .. Len(f.recorded)
  BY DEF Cuts
<1>3. f.disk \in Seq(PaidCalls) /\ f.pending \in Seq(PaidCalls)
  BY DEF Cuts, Piece
<1>4. Len(f.disk) \in Nat /\ Len(f.pending) \in Nat
  BY <1>3, LenProperties
<1>5. cut[Len(f.batches)] \in 0 .. Len(f.recorded)
  BY <1>1, <1>2
<1>6. QED
  BY <1>1, <1>2, <1>3, <1>4, <1>5

(* What waits becomes the last batch, up to the last row. *)
LEMMA BatchedCuts ==
  ASSUME NEW f, f = [n \in FulfilFields |-> f[n]], LogShape(f), NEW cut, Cuts(f, cut)
  PROVE  /\ LogShape(Batched(f)) /\ Batched(f) = [n \in FulfilFields |-> Batched(f)[n]]
         /\ Batched(f).calls = f.calls /\ Batched(f).recorded = f.recorded /\ Batched(f).flush = f.flush
         /\ \E d : Cuts(Batched(f), d) /\ d[Len(Batched(f).batches)] = Len(f.recorded)
<1> DEFINE n == Len(f.batches)
           g == Batched(f)
<1>1. CASE f.pending = <<>>
  <2>1. g = f
    BY <1>1 DEF Batched
  <2>2. Len(f.pending) = 0 /\ Len(f.pending) = Len(f.recorded) - cut[n]
    BY <1>1 DEF Cuts, Piece
  <2>3. cut[n] = Len(f.recorded)
    BY <2>2, CutsAreNumbers
  <2>4. Cuts(g, cut) /\ cut[Len(g.batches)] = Len(f.recorded)
    BY <2>1, <2>3
  <2>5. QED
    BY <2>1, <2>4
<1>2. CASE f.pending # <<>>
  <2> DEFINE d == [i \in 0 .. n + 1 |-> IF i <= n THEN cut[i] ELSE Len(f.recorded)]
  <2>1. g = [f EXCEPT !.batches = Append(f.batches, f.pending), !.pending = <<>>]
    BY <1>2 DEF Batched
  <2>2. /\ g = [x \in FulfilFields |-> g[x]] /\ g.batches = Append(f.batches, f.pending)
        /\ g.pending = <<>> /\ g.recorded = f.recorded /\ g.calls = f.calls /\ g.flush = f.flush
        /\ g.disk = f.disk /\ g.broken = f.broken
    BY <2>1 DEF FulfilFields
  <2>3. /\ n \in Nat /\ Len(f.recorded) \in Nat /\ f.pending \in Seq(PaidCalls)
        /\ \A i \in 0 .. n : cut[i] \in Nat /\ cut[i] <= Len(f.recorded)
    BY CutsAreNumbers
  <2>4. /\ g.batches \in Seq(Seq(PaidCalls)) /\ Len(g.batches) = n + 1
        /\ \A i \in 1 .. n : g.batches[i] = f.batches[i]
        /\ g.batches[n + 1] = f.pending
    <3>1. f.batches \in Seq(Seq(PaidCalls)) /\ f.pending \in Seq(PaidCalls)
      BY <2>3 DEF LogShape
    <3>2. /\ Append(f.batches, f.pending) \in Seq(Seq(PaidCalls))
          /\ Len(Append(f.batches, f.pending)) = n + 1
          /\ \A i \in 1 .. n : Append(f.batches, f.pending)[i] = f.batches[i]
          /\ Append(f.batches, f.pending)[n + 1] = f.pending
      BY <3>1, AppendProperties
    <3> HIDE DEF n, g
    <3>3. QED
      BY <2>2, <3>2
  <2>5. LogShape(g)
    BY <2>2, <2>4 DEF LogShape
  <2> HIDE DEF g, n
  <2>6. d \in [0 .. n + 1 -> 0 .. Len(f.recorded)]
    BY <2>3
  <2>7. /\ \A i \in 0 .. n : d[i] = cut[i]
        /\ d[n + 1] = Len(f.recorded)
    BY <2>3
  <2> HIDE DEF d
  <2>8. ASSUME NEW i \in 1 .. n + 1
        PROVE  d[i - 1] <= d[i] /\ Piece(g.batches[i], g.recorded, d[i - 1], d[i])
    <3>1. CASE i \in 1 .. n
      <4>1. cut[i - 1] <= cut[i] /\ Piece(f.batches[i], f.recorded, cut[i - 1], cut[i])
        BY <3>1 DEF Cuts, n
      <4>2. i \in 0 .. n /\ i - 1 \in 0 .. n
        BY <2>3, <3>1
      <4>3. d[i - 1] = cut[i - 1] /\ d[i] = cut[i] /\ g.batches[i] = f.batches[i]
        BY <2>4, <2>7, <3>1, <4>2
      <4>4. QED
        BY <2>2, <4>1, <4>3
    <3>2. CASE i \notin 1 .. n
      <4>1. i = n + 1 /\ i - 1 = n /\ n \in 0 .. n
        BY <2>3, <3>2
      <4>2. d[i - 1] = cut[n] /\ d[i] = Len(f.recorded) /\ cut[n] <= Len(f.recorded)
        BY <2>3, <2>7, <4>1
      <4>3. Piece(f.pending, f.recorded, cut[n], Len(f.recorded))
        BY DEF Cuts, n
      <4>4. QED
        BY <2>2, <2>4, <4>1, <4>2, <4>3
    <3>3. QED
      BY <3>1, <3>2
  <2>9. Piece(g.pending, g.recorded, d[n + 1], Len(g.recorded))
    <3>1. g.pending \in Seq(PaidCalls) /\ Len(g.pending) = 0
      BY <2>2, EmptySeq
    <3>2. Len(g.recorded) - d[n + 1] = 0
      BY <2>2, <2>3, <2>7
    <3>3. QED
      BY <3>1, <3>2 DEF Piece
  <2>10. 0 \in 0 .. n /\ d[0] = cut[0]
    BY <2>3, <2>7
  <2>11. g.flush.at = "waiting" =>
          /\ g.flush.behind \in 0 .. n + 1
          /\ g.flush.rows \subseteq RowsUpTo(g.recorded, d[g.flush.behind])
    <3> SUFFICES ASSUME g.flush.at = "waiting"
                 PROVE  /\ g.flush.behind \in 0 .. n + 1
                        /\ g.flush.rows \subseteq RowsUpTo(g.recorded, d[g.flush.behind])
      OBVIOUS
    <3>1. f.flush.behind \in 0 .. n /\ f.flush.rows \subseteq RowsUpTo(f.recorded, cut[f.flush.behind])
      BY <2>2 DEF Cuts, n
    <3>2. d[f.flush.behind] = cut[f.flush.behind] /\ f.flush.behind \in 0 .. n + 1
      BY <2>3, <2>7, <3>1
    <3>3. QED
      BY <2>2, <3>1, <3>2
  <2>12. /\ Len(g.disk) <= Len(g.recorded) /\ Piece(g.disk, g.recorded, 0, Len(g.disk))
         /\ ~g.broken => Len(g.disk) = d[0]
         /\ g.flush.at = "resolved" => g.flush.rows \subseteq Range(g.disk)
    BY <2>2, <2>10 DEF Cuts
  <2>13. Cuts(g, d)
    BY <2>2, <2>4, <2>6, <2>8, <2>9, <2>11, <2>12 DEF Cuts
  <2>14. Cuts(g, d) /\ d[Len(g.batches)] = Len(f.recorded)
    BY <2>4, <2>7, <2>13
  <2>15. QED
    BY <2>2, <2>5, <2>14 DEF g
<1>3. QED
  BY <1>1, <1>2

(* The first batch is taken off, written or not. *)
LEMMA AdvancedCuts ==
  ASSUME NEW f, LogShape(f), NEW cut, Cuts(f, cut), f.batches # <<>>, NEW g,
         g.batches = Tail(f.batches), g.recorded = f.recorded, g.pending = f.pending,
         g.flush.at = f.flush.at, g.flush.rows = f.flush.rows,
         g.flush.behind = IF f.flush.behind > 0 THEN f.flush.behind - 1 ELSE 0,
         Len(g.disk) <= Len(f.recorded), Piece(g.disk, f.recorded, 0, Len(g.disk)),
         ~g.broken => Len(g.disk) = cut[1], Range(f.disk) \subseteq Range(g.disk)
  PROVE  LogShape(g) /\ \E d : Cuts(g, d)
<1> DEFINE n == Len(f.batches)
           d == [i \in 0 .. n - 1 |-> cut[i + 1]]
<1>1. /\ n \in Nat /\ Len(f.recorded) \in Nat /\ n # 0
      /\ \A i \in 0 .. n : cut[i] \in Nat /\ cut[i] <= Len(f.recorded)
  BY CutsAreNumbers, EmptySeq DEF LogShape
<1>2. /\ g.batches \in Seq(Seq(PaidCalls)) /\ Len(g.batches) = n - 1
      /\ \A i \in 1 .. n - 1 : g.batches[i] = f.batches[i + 1]
  BY HeadTailProperties DEF LogShape
<1>3. LogShape(g)
  BY <1>2 DEF LogShape
<1> HIDE DEF n
<1>4. d \in [0 .. n - 1 -> 0 .. Len(f.recorded)]
  BY <1>1
<1>5. \A i \in 0 .. n - 1 : d[i] = cut[i + 1]
  OBVIOUS
<1> HIDE DEF d
<1>6. ASSUME NEW i \in 1 .. n - 1
      PROVE  d[i - 1] <= d[i] /\ Piece(g.batches[i], g.recorded, d[i - 1], d[i])
  <2>1. i + 1 \in 1 .. n /\ i - 1 \in 0 .. n - 1 /\ i \in 0 .. n - 1 /\ (i + 1) - 1 = i /\ (i - 1) + 1 = i
    BY <1>1
  <2>2. cut[i] <= cut[i + 1] /\ Piece(f.batches[i + 1], f.recorded, cut[i], cut[i + 1])
    BY <2>1 DEF Cuts, n
  <2>3. d[i - 1] = cut[i] /\ d[i] = cut[i + 1]
    BY <1>5, <2>1
  <2>4. QED
    BY <1>2, <2>2, <2>3
<1>7. d[n - 1] = cut[n] /\ d[0] = cut[1]
  BY <1>1, <1>5
<1>8. Piece(g.pending, g.recorded, d[n - 1], Len(g.recorded))
  BY <1>7 DEF Cuts, n
<1>9. ASSUME g.flush.at = "waiting"
      PROVE  /\ g.flush.behind \in 0 .. n - 1
             /\ g.flush.rows \subseteq RowsUpTo(g.recorded, d[g.flush.behind])
  <2>1. f.flush.behind \in 0 .. n /\ f.flush.rows \subseteq RowsUpTo(f.recorded, cut[f.flush.behind])
    BY <1>9 DEF Cuts, n
  <2>2. CASE f.flush.behind > 0
    <3>1. g.flush.behind \in 0 .. n - 1 /\ g.flush.behind + 1 = f.flush.behind
      BY <1>1, <2>1, <2>2
    <3>2. d[g.flush.behind] = cut[f.flush.behind]
      BY <1>5, <3>1
    <3>3. QED
      BY <2>1, <3>1, <3>2
  <2>3. CASE ~(f.flush.behind > 0)
    <3>1. f.flush.behind = 0 /\ g.flush.behind = 0 /\ 0 \in 0 .. n - 1
      BY <1>1, <2>1, <2>3
    <3>2. cut[0] <= cut[1] /\ cut[0] \in Nat /\ cut[1] \in Nat
      <4>1. 1 \in 1 .. n /\ 1 - 1 = 0 /\ 0 \in 0 .. n /\ 1 \in 0 .. n
        BY <1>1
      <4>2. QED
        BY <1>1, <4>1 DEF Cuts, n
    <3>3. RowsUpTo(f.recorded, cut[0]) \subseteq RowsUpTo(f.recorded, cut[1])
      BY <3>2 DEF RowsUpTo
    <3>4. QED
      BY <1>7, <2>1, <3>1, <3>3
  <2>4. QED
    BY <2>2, <2>3
<1>10. /\ Len(g.disk) <= Len(g.recorded) /\ Piece(g.disk, g.recorded, 0, Len(g.disk))
       /\ ~g.broken => Len(g.disk) = d[0]
  BY <1>7
<1>11. g.flush.at = "resolved" => g.flush.rows \subseteq Range(g.disk)
  BY DEF Cuts
<1>12. Cuts(g, d)
  BY <1>2, <1>4, <1>6, <1>8, <1>9, <1>10, <1>11 DEF Cuts
<1>13. QED
  BY <1>3, <1>12

(* While the disk holds, some rows of the first batch go to the end of the file. *)
LEMMA FileGrows ==
  ASSUME NEW f, LogShape(f), NEW cut, Cuts(f, cut), f.batches # <<>>, ~f.broken,
         NEW rows \in 0 .. Len(Head(f.batches))
  PROVE  LET disk == f.disk \o SubSeq(Head(f.batches), 1, rows)
             whole == f.disk \o Head(f.batches)
         IN /\ Len(disk) <= Len(f.recorded) /\ Piece(disk, f.recorded, 0, Len(disk))
            /\ Range(f.disk) \subseteq Range(disk)
            /\ Len(whole) = cut[1] /\ Len(whole) <= Len(f.recorded)
            /\ Piece(whole, f.recorded, 0, Len(whole)) /\ Range(f.disk) \subseteq Range(whole)
<1> DEFINE first == Head(f.batches)
           part == SubSeq(first, 1, rows)
           disk == f.disk \o part
           whole == f.disk \o first
<1>1. /\ Len(f.batches) \in Nat /\ Len(f.batches) # 0 /\ Len(f.recorded) \in Nat
      /\ \A i \in 0 .. Len(f.batches) : cut[i] \in Nat /\ cut[i] <= Len(f.recorded)
      /\ f.disk \in Seq(PaidCalls) /\ Len(f.disk) \in Nat
  BY CutsAreNumbers, EmptySeq DEF LogShape
<1>2. 1 \in 1 .. Len(f.batches) /\ 1 - 1 = 0 /\ 0 \in 0 .. Len(f.batches) /\ 1 \in 0 .. Len(f.batches)
  BY <1>1
<1>3. first = f.batches[1]
  BY DEF LogShape
<1>4. cut[0] <= cut[1] /\ Piece(first, f.recorded, cut[0], cut[1])
  BY <1>2, <1>3 DEF Cuts
<1>5. cut[0] \in Nat /\ cut[1] \in Nat /\ cut[1] <= Len(f.recorded)
  BY <1>1, <1>2
<1>6. Len(f.disk) = cut[0] /\ Piece(f.disk, f.recorded, 0, cut[0])
  BY DEF Cuts
<1>7. Len(first) = cut[1] - cut[0] /\ first \in Seq(PaidCalls)
  BY <1>4 DEF Piece
<1> HIDE DEF first, part
<1>8. Piece(part, f.recorded, cut[0], cut[0] + rows)
  BY <1>4, <1>5, PieceStarts DEF part, first
<1>9. cut[0] + rows \in Nat /\ cut[0] + rows <= Len(f.recorded) /\ 0 \in Nat
  BY <1>5, <1>7 DEF first
<1>10. f.recorded \in Seq(PaidCalls)
  BY DEF LogShape
<1>11. Piece(disk, f.recorded, 0, cut[0] + rows) /\ Piece(whole, f.recorded, 0, cut[1])
  BY <1>4, <1>5, <1>6, <1>8, <1>9, <1>10, PiecesJoin
<1>12. part \in Seq(PaidCalls)
  BY <1>8 DEF Piece
<1>13. Range(f.disk) \subseteq Range(disk) /\ Range(f.disk) \subseteq Range(whole)
  BY <1>1, <1>7, <1>12, RangeGrows
<1> HIDE DEF disk, whole
<1>14. Len(disk) = cut[0] + rows /\ Len(whole) = cut[1]
  BY <1>5, <1>9, <1>11 DEF Piece
<1>15. QED
  BY <1>5, <1>9, <1>11, <1>13, <1>14 DEF disk, whole, first, part

-----------------------------------------------------------------------------
(* The log, action by action.                                                *)

(* A step of one call that records nothing leaves the log alone. *)
LEMMA PaidCallMoves ==
  ASSUME FulfilInv, NEW c \in PaidCalls, fulfil.calls[c].at # "recorded",
         NEW at, NEW payment, NEW answer,
         fulfil' = [fulfil EXCEPT !.calls = [fulfil.calls EXCEPT ![c] =
                      [at |-> at, payment |-> payment, answer |-> answer, record |-> None]]]
  PROVE  FulfilInv'
<1> DEFINE call == [at |-> at, payment |-> payment, answer |-> answer, record |-> None]
<1>1. /\ FulfilShape /\ LogShape(fulfil) /\ RecordsBuilt /\ ReadingIsUnrecorded /\ RecordedAreOver
      /\ \E cut : Cuts(fulfil, cut)
  BY DEF FulfilInv
<1>2. call.record = None /\ call = [at |-> call.at, payment |-> call.payment, answer |-> call.answer, record |-> call.record]
  OBVIOUS
<1> HIDE DEF call
<1>3. fulfil' = [fulfil EXCEPT !.calls = [fulfil.calls EXCEPT ![c] = call]]
  BY DEF call
<1>4. /\ fulfil' = [f \in FulfilFields |-> fulfil'[f]]
      /\ fulfil'.calls = [fulfil.calls EXCEPT ![c] = call] /\ fulfil'.recorded = fulfil.recorded
      /\ fulfil'.pending = fulfil.pending /\ fulfil'.batches = fulfil.batches
      /\ fulfil'.broken = fulfil.broken /\ fulfil'.disk = fulfil.disk /\ fulfil'.flush = fulfil.flush
  BY <1>1, <1>3 DEF FulfilShape, FulfilFields
<1>5. DOMAIN fulfil.calls = PaidCalls
  BY <1>1 DEF FulfilShape
<1>6. \A x \in PaidCalls : fulfil'.calls[x] = IF x = c THEN call ELSE fulfil.calls[x]
  BY <1>4, <1>5
<1>7. FulfilShape'
  <2>1. \A x \in PaidCalls : fulfil'.calls[x] =
          [at |-> fulfil'.calls[x].at, payment |-> fulfil'.calls[x].payment,
           answer |-> fulfil'.calls[x].answer, record |-> fulfil'.calls[x].record]
    BY <1>1, <1>2, <1>6 DEF FulfilShape
  <2>2. fulfil'.calls = [x \in PaidCalls |-> fulfil'.calls[x]]
    BY <1>4, <1>5
  <2>3. fulfil'.calls = [x \in PaidCalls |->
          [at |-> fulfil'.calls[x].at, payment |-> fulfil'.calls[x].payment,
           answer |-> fulfil'.calls[x].answer, record |-> fulfil'.calls[x].record]]
    BY <2>1, <2>2
  <2>4. QED
    BY <1>1, <1>4, <2>3 DEF FulfilShape
<1>8. RecordsBuilt' /\ ReadingIsUnrecorded'
  BY <1>1, <1>2, <1>6 DEF RecordsBuilt, ReadingIsUnrecorded
<1>9. LogShape(fulfil') /\ \E cut : Cuts(fulfil', cut)
  BY <1>1, <1>4 DEF LogShape, Cuts
<1>10. RecordedAreOver'
  <2>1. \A k \in DOMAIN fulfil.recorded : fulfil.recorded[k] \in PaidCalls
    BY <1>1, LenProperties, ElementOfSeq DEF LogShape
  <2>2. QED
    BY <1>1, <1>4, <1>6, <2>1 DEF RecordedAreOver
<1>11. QED
  BY <1>7, <1>8, <1>9, <1>10 DEF FulfilInv

(* A call passes by, is answered, or its record is swallowed. *)
LEMMA PaidCallMovesGood ==
  ASSUME FulfilInv, NEW c \in PaidCalls, PassesThrough(c) \/ PaidAnswer(c) \/ RecordThrows(c)
  PROVE  FulfilInv'
<1>1. /\ fulfil.calls[c] = [at |-> fulfil.calls[c].at, payment |-> fulfil.calls[c].payment,
                            answer |-> fulfil.calls[c].answer, record |-> fulfil.calls[c].record]
      /\ fulfil = [f \in FulfilFields |-> fulfil[f]]
  BY DEF FulfilInv, FulfilShape
<1>2. CASE PassesThrough(c)
  <2>1. fulfil.calls[c] = CallIdle /\ fulfil' = [fulfil EXCEPT !.calls = [fulfil.calls EXCEPT ![c] = [CallIdle EXCEPT !.at = "passed"]]]
    BY <1>2, <1>1 DEF PassesThrough, FulfilFields
  <2>2. [CallIdle EXCEPT !.at = "passed"] = [at |-> "passed", payment |-> None, answer |-> None, record |-> None]
    BY DEF CallIdle
  <2>3. fulfil' = [fulfil EXCEPT !.calls = [fulfil.calls EXCEPT ![c] =
                     [at |-> "passed", payment |-> None, answer |-> None, record |-> None]]]
    BY <2>1, <2>2
  <2>4. fulfil.calls[c].at # "recorded"
    BY <2>1 DEF CallIdle
  <2>5. QED
    BY <2>3, <2>4, PaidCallMoves
<1>3. CASE PaidAnswer(c)
  <2>1. PICK payment \in PaymentHeaders, reply \in CallAnswers :
          fulfil' = [fulfil EXCEPT !.calls[c] =
                       [@ EXCEPT !.at = "reading", !.payment = payment, !.answer = <<reply>>]]
    BY <1>3 DEF PaidAnswer
  <2>2. fulfil.calls[c] = CallIdle
    BY <1>3 DEF PaidAnswer
  <2>3. [[[CallIdle EXCEPT !.at = "reading"] EXCEPT !.payment = payment] EXCEPT !.answer = <<reply>>]
          = [at |-> "reading", payment |-> payment, answer |-> <<reply>>, record |-> None]
    <3> DEFINE one == [CallIdle EXCEPT !.at = "reading"]
               two == [one EXCEPT !.payment = payment]
    <3>1. one = [at |-> "reading", payment |-> None, answer |-> None, record |-> None]
      BY DEF CallIdle
    <3> HIDE DEF one
    <3>2. two = [at |-> "reading", payment |-> payment, answer |-> None, record |-> None]
      BY ONLY <3>1
    <3> HIDE DEF two
    <3>3. [two EXCEPT !.answer = <<reply>>]
            = [at |-> "reading", payment |-> payment, answer |-> <<reply>>, record |-> None]
      BY ONLY <3>2
    <3>4. QED
      BY <3>3 DEF one, two
  <2>4. fulfil' = [fulfil EXCEPT !.calls = [fulfil.calls EXCEPT ![c] =
                     [[[CallIdle EXCEPT !.at = "reading"] EXCEPT !.payment = payment] EXCEPT !.answer = <<reply>>]]]
    BY <1>1, <2>1, <2>2 DEF FulfilFields
  <2>5. fulfil' = [fulfil EXCEPT !.calls = [fulfil.calls EXCEPT ![c] =
                     [at |-> "reading", payment |-> payment, answer |-> <<reply>>, record |-> None]]]
    BY <2>3, <2>4
  <2>6. fulfil.calls[c].at # "recorded"
    BY <2>2 DEF CallIdle
  <2>7. QED
    BY <2>6, <2>5, PaidCallMoves
<1>4. CASE RecordThrows(c)
  <2>1. /\ fulfil.calls[c].at = "reading"
        /\ fulfil' = [fulfil EXCEPT !.calls = [fulfil.calls EXCEPT ![c] = [fulfil.calls[c] EXCEPT !.at = "swallowed"]]]
    BY <1>4, <1>1 DEF RecordThrows, FulfilFields
  <2>2. fulfil.calls[c].record = None
    BY <2>1 DEF FulfilInv, ReadingIsUnrecorded
  <2>3. [fulfil.calls[c] EXCEPT !.at = "swallowed"]
          = [at |-> "swallowed", payment |-> fulfil.calls[c].payment, answer |-> fulfil.calls[c].answer,
             record |-> None]
    BY <1>1, <2>2
  <2>4. fulfil' = [fulfil EXCEPT !.calls = [fulfil.calls EXCEPT ![c] =
          [at |-> "swallowed", payment |-> fulfil.calls[c].payment, answer |-> fulfil.calls[c].answer,
           record |-> None]]]
    BY <2>1, <2>3
  <2>5. QED
    BY <2>1, <2>4, PaidCallMoves
<1>5. QED
  BY <1>2, <1>3, <1>4

(* A record built goes to the end of the log, to be written with what is pending. *)
LEMMA RecordedCuts ==
  ASSUME NEW f, LogShape(f), NEW cut, Cuts(f, cut), NEW c \in PaidCalls, NEW g,
         g.recorded = Append(f.recorded, c), g.pending = Append(f.pending, c),
         g.batches = f.batches, g.broken = f.broken, g.disk = f.disk, g.flush = f.flush
  PROVE  LogShape(g) /\ Cuts(g, cut)
<1> DEFINE n == Len(f.batches)
           rows == Len(f.recorded)
<1>1. /\ n \in Nat /\ rows \in Nat
      /\ \A i \in 0 .. n : cut[i] \in Nat /\ cut[i] <= rows
      /\ cut[n] \in 0 .. rows
      /\ Len(f.disk) \in Nat /\ f.pending \in Seq(PaidCalls) /\ Len(f.pending) \in Nat
  BY CutsAreNumbers
<1>2. f.recorded \in Seq(PaidCalls) /\ f.batches \in Seq(Seq(PaidCalls))
  BY DEF LogShape
<1>3. /\ g.recorded \in Seq(PaidCalls) /\ Len(g.recorded) = rows + 1
      /\ \A k \in 1 .. rows : g.recorded[k] = f.recorded[k]
      /\ g.recorded[rows + 1] = c
  BY <1>2, AppendProperties
<1>4. LogShape(g)
  BY <1>2, <1>3 DEF LogShape
<1> HIDE DEF n, rows
<1>5. cut \in [0 .. n -> 0 .. rows]
  BY DEF Cuts, n, rows
<1>6. cut \in [0 .. n -> 0 .. rows + 1]
  BY <1>1, <1>5
<1>7. ASSUME NEW i \in 1 .. n
      PROVE  cut[i - 1] <= cut[i] /\ Piece(g.batches[i], g.recorded, cut[i - 1], cut[i])
  <2>1. cut[i - 1] <= cut[i] /\ Piece(f.batches[i], f.recorded, cut[i - 1], cut[i])
    BY DEF Cuts, n
  <2>2. i \in 0 .. n /\ i - 1 \in 0 .. n
    BY <1>1
  <2>3. cut[i - 1] \in Nat /\ cut[i] \in 0 .. Len(f.recorded)
    BY <1>5, <2>2 DEF rows
  <2>4. Piece(f.batches[i], Append(f.recorded, c), cut[i - 1], cut[i])
    BY <1>2, <2>1, <2>3, PieceStays
  <2>5. QED
    BY <2>1, <2>4
<1>8. Piece(g.pending, g.recorded, cut[n], rows + 1)
  <2>1. /\ Len(f.pending) = rows - cut[n]
        /\ \A k \in 1 .. Len(f.pending) : f.pending[k] = f.recorded[cut[n] + k]
    BY DEF Cuts, Piece, n, rows
  <2>2. /\ g.pending \in Seq(PaidCalls) /\ Len(g.pending) = Len(f.pending) + 1
        /\ \A k \in 1 .. Len(f.pending) : g.pending[k] = f.pending[k]
        /\ g.pending[Len(f.pending) + 1] = c
    BY <1>1, AppendProperties
  <2>3. ASSUME NEW k \in 1 .. Len(g.pending) PROVE g.pending[k] = g.recorded[cut[n] + k]
    <3>1. CASE k = Len(f.pending) + 1
      <4>1. cut[n] + k = rows + 1
        BY ONLY <1>1, <2>1, <3>1
      <4>2. QED
        BY ONLY <1>3, <2>2, <3>1, <4>1
    <3>2. CASE k # Len(f.pending) + 1
      <4>1. k \in 1 .. Len(f.pending)
        BY ONLY <1>1, <2>2, <3>2, k \in 1 .. Len(g.pending)
      <4>2. cut[n] + k \in 1 .. rows
        BY ONLY <1>1, <2>1, <4>1
      <4>3. QED
        BY ONLY <1>3, <2>1, <2>2, <4>1, <4>2
    <3>3. QED
      BY <3>1, <3>2
  <2>4. Len(g.pending) = (rows + 1) - cut[n]
    BY <1>1, <2>1, <2>2
  <2>5. g.pending \in Seq(PaidCalls)
    BY <2>2
  <2>6. QED
    BY ONLY <2>3, <2>4, <2>5, Zenon DEF Piece
<1>9. Len(g.disk) <= Len(g.recorded) /\ Piece(g.disk, g.recorded, 0, Len(g.disk))
  <2>1. Len(f.disk) <= rows /\ Piece(f.disk, f.recorded, 0, Len(f.disk))
    BY DEF Cuts, rows
  <2>2. Len(f.disk) \in 0 .. Len(f.recorded) /\ 0 \in Nat
    BY <1>1, <2>1 DEF rows
  <2>3. Piece(f.disk, Append(f.recorded, c), 0, Len(f.disk))
    BY <1>2, <2>1, <2>2, PieceStays
  <2>4. QED
    BY <1>1, <1>3, <2>1, <2>3
<1>10. ASSUME g.flush.at = "waiting"
       PROVE  /\ g.flush.behind \in 0 .. n
              /\ g.flush.rows \subseteq RowsUpTo(g.recorded, cut[g.flush.behind])
  <2>1. f.flush.behind \in 0 .. n /\ f.flush.rows \subseteq RowsUpTo(f.recorded, cut[f.flush.behind])
    BY <1>10 DEF Cuts, n
  <2>2. cut[f.flush.behind] \in Nat /\ cut[f.flush.behind] <= rows
    BY <1>1, <2>1
  <2>3. \A k \in 1 .. cut[f.flush.behind] : g.recorded[k] = f.recorded[k]
    BY <1>1, <1>3, <2>2
  <2>4. RowsUpTo(f.recorded, cut[f.flush.behind]) \subseteq RowsUpTo(g.recorded, cut[f.flush.behind])
    BY <2>3 DEF RowsUpTo
  <2>5. QED
    BY <2>1, <2>4
<1>11. /\ ~g.broken => Len(g.disk) = cut[0]
       /\ g.flush.at = "resolved" => g.flush.rows \subseteq Range(g.disk)
  BY DEF Cuts
<1>12. g.batches = f.batches /\ Len(g.batches) = n
  BY DEF n
<1>13. Cuts(g, cut)
  BY <1>3, <1>6, <1>7, <1>8, <1>9, <1>10, <1>11, <1>12 DEF Cuts
<1>14. QED
  BY <1>4, <1>13

(* The record of a call that was reading: built of its own payment and answer,
   and the call is in the log once. *)
LEMMA RecordedGood ==
  ASSUME FulfilInv, NEW c \in PaidCalls, Recorded(c)
  PROVE  FulfilInv'
<1> DEFINE old == fulfil.calls[c]
<1>1. /\ FulfilShape /\ LogShape(fulfil) /\ RecordsBuilt /\ ReadingIsUnrecorded /\ RecordedAreOver
      /\ \E cut : Cuts(fulfil, cut)
  BY DEF FulfilInv
<1>2. /\ old = [at |-> old.at, payment |-> old.payment, answer |-> old.answer, record |-> old.record]
      /\ DOMAIN fulfil.calls = PaidCalls
      /\ fulfil = [f \in FulfilFields |-> fulfil[f]]
  BY <1>1 DEF FulfilShape
<1>3. old.at = "reading"
  BY DEF Recorded
<1>4. fulfil' = [fulfil EXCEPT
          !.calls[c].at = "recorded", !.calls[c].record = <<BuildRecord(old.payment, old.answer[1])>>,
          !.recorded = Append(@, c), !.pending = Append(@, c)]
  BY DEF Recorded
<1> DEFINE row == <<BuildRecord(old.payment, old.answer[1])>>
<1> HIDE DEF row, old
<1>5. [[old EXCEPT !.at = "recorded"] EXCEPT !.record = row]
          = [at |-> "recorded", payment |-> old.payment, answer |-> old.answer, record |-> row]
  <2>1. old = [at |-> old.at, payment |-> old.payment, answer |-> old.answer, record |-> old.record]
    BY <1>2
  <2> DEFINE over == [old EXCEPT !.at = "recorded"]
  <2>2. over = [at |-> "recorded", payment |-> old.payment, answer |-> old.answer, record |-> old.record]
    BY ONLY <2>1
  <2> HIDE DEF over
  <2>3. [over EXCEPT !.record = row]
          = [at |-> "recorded", payment |-> old.payment, answer |-> old.answer, record |-> row]
    BY ONLY <2>2
  <2>4. QED
    BY <2>3 DEF over
<1>6. /\ fulfil' = [f \in FulfilFields |-> fulfil'[f]]
      /\ fulfil'.recorded = Append(fulfil.recorded, c)
      /\ fulfil'.pending = Append(fulfil.pending, c) /\ fulfil'.batches = fulfil.batches
      /\ fulfil'.broken = fulfil.broken /\ fulfil'.disk = fulfil.disk /\ fulfil'.flush = fulfil.flush
      /\ DOMAIN fulfil'.calls = PaidCalls
  BY <1>2, <1>4 DEF FulfilFields
<1>7. fulfil'.calls[c] = [[old EXCEPT !.at = "recorded"] EXCEPT !.record = row]
  BY <1>2, <1>4 DEF FulfilFields, old, row
<1>8. \A x \in PaidCalls : x # c => fulfil'.calls[x] = fulfil.calls[x]
  BY <1>2, <1>4 DEF FulfilFields
<1>9. /\ fulfil'.calls[c] = [at |-> "recorded", payment |-> old.payment, answer |-> old.answer, record |-> row]
      /\ fulfil'.calls[c].at = "recorded" /\ fulfil'.calls[c].payment = old.payment
      /\ fulfil'.calls[c].answer = old.answer /\ fulfil'.calls[c].record = row
  BY <1>5, <1>7
<1>10. FulfilShape'
  <2>1. \A x \in PaidCalls : fulfil'.calls[x] =
          [at |-> fulfil'.calls[x].at, payment |-> fulfil'.calls[x].payment,
           answer |-> fulfil'.calls[x].answer, record |-> fulfil'.calls[x].record]
    <3> TAKE x \in PaidCalls
    <3>1. CASE x = c
      BY <1>9, <3>1
    <3>2. CASE x # c
      BY <1>1, <1>8, <3>2 DEF FulfilShape
    <3>3. QED
      BY <3>1, <3>2
  <2>2. fulfil'.calls = [x \in PaidCalls |-> fulfil'.calls[x]]
    BY <1>2, <1>4, <1>6 DEF FulfilFields
  <2>3. fulfil'.calls = [x \in PaidCalls |->
          [at |-> fulfil'.calls[x].at, payment |-> fulfil'.calls[x].payment,
           answer |-> fulfil'.calls[x].answer, record |-> fulfil'.calls[x].record]]
    BY <2>1, <2>2
  <2>4. QED
    BY <1>1, <1>6, <2>3 DEF FulfilShape
<1>11. RecordsBuilt'
  <2>1. \A x \in PaidCalls : fulfil'.calls[x].record # None =>
          fulfil'.calls[x].record = <<BuildRecord(fulfil'.calls[x].payment, fulfil'.calls[x].answer[1])>>
    <3> TAKE x \in PaidCalls
    <3>1. CASE x = c
      BY <1>9, <3>1 DEF row
    <3>2. CASE x # c
      BY <1>1, <1>8, <3>2 DEF RecordsBuilt
    <3>3. QED
      BY <3>1, <3>2
  <2>2. QED
    BY <2>1 DEF RecordsBuilt
<1>12. ReadingIsUnrecorded'
  BY <1>1, <1>8, <1>9 DEF ReadingIsUnrecorded
<1>13. LogShape(fulfil') /\ \E cut : Cuts(fulfil', cut)
  <2>1. PICK cut : Cuts(fulfil, cut)
    BY <1>1
  <2>2. LogShape(fulfil') /\ Cuts(fulfil', cut)
    BY <1>1, <1>6, <2>1, RecordedCuts
  <2>3. QED
    BY <2>2
<1>14. RecordedAreOver'
  <2>1. /\ fulfil.recorded \in Seq(PaidCalls) /\ Len(fulfil.recorded) \in Nat
        /\ DOMAIN fulfil.recorded = 1 .. Len(fulfil.recorded)
        /\ \A k \in DOMAIN fulfil.recorded : fulfil.recorded[k] \in PaidCalls
    BY <1>1, LenProperties, ElementOfSeq DEF LogShape
  <2>2. /\ DOMAIN fulfil'.recorded = 1 .. Len(fulfil.recorded) + 1
        /\ \A k \in 1 .. Len(fulfil.recorded) : fulfil'.recorded[k] = fulfil.recorded[k]
        /\ fulfil'.recorded[Len(fulfil.recorded) + 1] = c
    BY <1>6, <2>1, AppendProperties, LenProperties
  <2>3. \A k \in DOMAIN fulfil.recorded :
          fulfil.recorded[k] # c /\ fulfil.calls[fulfil.recorded[k]].at = "recorded"
    BY <1>1, <1>3 DEF RecordedAreOver, old
  <2>4. \A k \in DOMAIN fulfil'.recorded :
          k = Len(fulfil.recorded) + 1 \/ k \in DOMAIN fulfil.recorded
    BY <2>1, <2>2
  <2>5. \A k \in DOMAIN fulfil'.recorded : fulfil'.calls[fulfil'.recorded[k]].at = "recorded"
    BY <1>8, <1>9, <2>1, <2>2, <2>3, <2>4
  <2>6. IsInjective(fulfil.recorded)
    BY <1>1 DEF RecordedAreOver
  <2>7. IsInjective(fulfil'.recorded)
    BY <2>1, <2>2, <2>3, <2>4, <2>6 DEF IsInjective
  <2>8. QED
    BY <2>5, <2>7 DEF RecordedAreOver
<1>15. QED
  BY <1>10, <1>11, <1>12, <1>13, <1>14 DEF FulfilInv

(* A step of the log alone records nothing. *)
LEMMA LogMoves ==
  ASSUME FulfilInv, fulfil' = [f \in FulfilFields |-> fulfil'[f]],
         fulfil'.calls = fulfil.calls, fulfil'.recorded = fulfil.recorded,
         fulfil'.flush = [at |-> fulfil'.flush.at, rows |-> fulfil'.flush.rows, behind |-> fulfil'.flush.behind],
         LogShape(fulfil'), \E cut : Cuts(fulfil', cut)
  PROVE  FulfilInv'
<1>1. FulfilShape /\ RecordsBuilt /\ ReadingIsUnrecorded /\ RecordedAreOver
  BY DEF FulfilInv
<1>2. FulfilShape'
  BY <1>1 DEF FulfilShape
<1>3. RecordsBuilt' /\ ReadingIsUnrecorded' /\ RecordedAreOver'
  BY <1>1 DEF RecordsBuilt, ReadingIsUnrecorded, RecordedAreOver
<1>4. QED
  BY <1>2, <1>3 DEF FulfilInv

(* What waits is batched by the microtask. *)
LEMMA FlushTaskGood ==
  ASSUME FulfilInv, FlushTask
  PROVE  FulfilInv'
<1>1. /\ LogShape(fulfil) /\ \E cut : Cuts(fulfil, cut)
      /\ fulfil = [f \in FulfilFields |-> fulfil[f]]
      /\ fulfil.flush = [at |-> fulfil.flush.at, rows |-> fulfil.flush.rows, behind |-> fulfil.flush.behind]
  BY DEF FulfilInv, FulfilShape
<1>2. fulfil' = Batched(fulfil)
  BY DEF FlushTask
<1>3. PICK cut : Cuts(fulfil, cut)
  BY <1>1
<1>4. /\ LogShape(fulfil') /\ fulfil' = [n \in FulfilFields |-> fulfil'[n]]
      /\ fulfil'.calls = fulfil.calls /\ fulfil'.recorded = fulfil.recorded /\ fulfil'.flush = fulfil.flush
      /\ \E d : Cuts(fulfil', d)
  BY <1>1, <1>2, <1>3, BatchedCuts
<1>5. QED
  BY <1>1, <1>4, LogMoves

(* A flush that is asked for waits for the batches of every row recorded. *)
LEMMA FlushAskedGood ==
  ASSUME FulfilInv, FlushAsked
  PROVE  FulfilInv'
<1> DEFINE flushed == Batched(fulfil)
           n == Len(flushed.batches)
           flush == [at |-> "waiting", rows |-> Range(fulfil.recorded), behind |-> n]
<1>1. /\ LogShape(fulfil) /\ \E cut : Cuts(fulfil, cut)
      /\ fulfil = [f \in FulfilFields |-> fulfil[f]]
  BY DEF FulfilInv, FulfilShape
<1>2. fulfil' = [flushed EXCEPT !.flush = flush]
  BY DEF FlushAsked
<1>3. PICK cut : Cuts(fulfil, cut)
  BY <1>1
<1>4. /\ LogShape(flushed) /\ flushed = [x \in FulfilFields |-> flushed[x]]
      /\ flushed.calls = fulfil.calls /\ flushed.recorded = fulfil.recorded
      /\ \E d : Cuts(flushed, d) /\ d[n] = Len(fulfil.recorded)
  BY <1>1, <1>3, BatchedCuts
<1> HIDE DEF flushed
<1>5. /\ flush.at = "waiting" /\ flush.rows = Range(fulfil.recorded) /\ flush.behind = n
      /\ flush = [at |-> flush.at, rows |-> flush.rows, behind |-> flush.behind]
  OBVIOUS
<1> HIDE DEF flush, n
<1>6. /\ fulfil' = [f \in FulfilFields |-> fulfil'[f]]
      /\ fulfil'.calls = flushed.calls /\ fulfil'.recorded = flushed.recorded
      /\ fulfil'.pending = flushed.pending /\ fulfil'.batches = flushed.batches
      /\ fulfil'.broken = flushed.broken /\ fulfil'.disk = flushed.disk /\ fulfil'.flush = flush
  BY <1>2, <1>4 DEF FulfilFields
<1>7. PICK d : Cuts(flushed, d) /\ d[n] = Len(fulfil.recorded)
  BY <1>4
<1>8. n \in Nat /\ Len(fulfil.recorded) \in Nat
  BY <1>4, <1>7, CutsAreNumbers DEF n
<1>9. LogShape(fulfil')
  BY <1>4, <1>6 DEF LogShape
<1>10. Range(fulfil.recorded) \subseteq RowsUpTo(fulfil.recorded, Len(fulfil.recorded))
  <2>1. DOMAIN fulfil.recorded = 1 .. Len(fulfil.recorded)
    BY <1>1, LenProperties DEF LogShape
  <2>2. QED
    BY <2>1 DEF Range, RowsUpTo
<1>11. Cuts(fulfil', d)
  <2>1. /\ fulfil'.flush.at = "waiting" /\ fulfil'.flush.behind \in 0 .. n
        /\ fulfil'.flush.rows \subseteq RowsUpTo(fulfil'.recorded, d[fulfil'.flush.behind])
    BY <1>4, <1>5, <1>6, <1>7, <1>8, <1>10
  <2>2. Len(fulfil'.batches) = n
    BY <1>6 DEF n
  <2>3. QED
    BY <1>6, <1>7, <2>1, <2>2 DEF Cuts, n
<1>12. QED
  BY <1>4, <1>5, <1>6, <1>9, <1>11, LogMoves

(* Taking the first batch off leaves the rest of the log alone. *)
LEMMA AdvancedFields ==
  ASSUME NEW f, f = [n \in FulfilFields |-> f[n]],
         f.flush = [at |-> f.flush.at, rows |-> f.flush.rows, behind |-> f.flush.behind]
  PROVE  LET a == Advanced(f) IN
         /\ a = [n \in FulfilFields |-> a[n]]
         /\ a.calls = f.calls /\ a.recorded = f.recorded /\ a.pending = f.pending
         /\ a.batches = Tail(f.batches) /\ a.broken = f.broken /\ a.disk = f.disk
         /\ a.flush.at = f.flush.at /\ a.flush.rows = f.flush.rows
         /\ a.flush.behind = IF f.flush.behind > 0 THEN f.flush.behind - 1 ELSE 0
         /\ a.flush = [at |-> a.flush.at, rows |-> a.flush.rows, behind |-> a.flush.behind]
<1> DEFINE a == Advanced(f)
           behind == IF f.flush.behind > 0 THEN f.flush.behind - 1 ELSE 0
           flush == [at |-> f.flush.at, rows |-> f.flush.rows, behind |-> behind]
<1>1. /\ flush.at = f.flush.at /\ flush.rows = f.flush.rows /\ flush.behind = behind
      /\ flush = [at |-> flush.at, rows |-> flush.rows, behind |-> flush.behind]
  OBVIOUS
<1>2. a.flush = flush
  BY DEF Advanced, FulfilFields
<1> HIDE DEF flush
<1>3. /\ a = [n \in FulfilFields |-> a[n]]
      /\ a.calls = f.calls /\ a.recorded = f.recorded /\ a.pending = f.pending
      /\ a.batches = Tail(f.batches) /\ a.broken = f.broken /\ a.disk = f.disk
  BY DEF Advanced, FulfilFields
<1>4. QED
  BY <1>1, <1>2, <1>3

(* A batch is written, fails after some rows, or is skipped behind one that failed. *)
LEMMA WriterGood ==
  ASSUME FulfilInv, BatchWritten \/ BatchFails \/ BatchSkipped
  PROVE  FulfilInv'
<1>1. /\ LogShape(fulfil) /\ \E cut : Cuts(fulfil, cut)
      /\ fulfil = [f \in FulfilFields |-> fulfil[f]]
      /\ fulfil.flush = [at |-> fulfil.flush.at, rows |-> fulfil.flush.rows, behind |-> fulfil.flush.behind]
  BY DEF FulfilInv, FulfilShape
<1>2. PICK cut : Cuts(fulfil, cut)
  BY <1>1
<1>3. fulfil.batches # <<>>
  BY DEF BatchWritten, BatchFails, BatchSkipped
<1>4. ASSUME NEW disk, NEW broken,
             \/ fulfil' = [Advanced(fulfil) EXCEPT !.disk = disk, !.broken = broken]
             \/ fulfil' = [Advanced(fulfil) EXCEPT !.disk = disk] /\ broken = fulfil.broken
             \/ fulfil' = Advanced(fulfil) /\ disk = fulfil.disk /\ broken = fulfil.broken,
             Len(disk) <= Len(fulfil.recorded), Piece(disk, fulfil.recorded, 0, Len(disk)),
             ~broken => Len(disk) = cut[1], Range(fulfil.disk) \subseteq Range(disk)
      PROVE  FulfilInv'
  <2>1. /\ fulfil' = [n \in FulfilFields |-> fulfil'[n]]
        /\ fulfil'.calls = fulfil.calls /\ fulfil'.recorded = fulfil.recorded
        /\ fulfil'.pending = fulfil.pending
        /\ fulfil'.batches = Tail(fulfil.batches) /\ fulfil'.broken = broken /\ fulfil'.disk = disk
        /\ fulfil'.flush.at = fulfil.flush.at /\ fulfil'.flush.rows = fulfil.flush.rows
        /\ fulfil'.flush.behind = IF fulfil.flush.behind > 0 THEN fulfil.flush.behind - 1 ELSE 0
        /\ fulfil'.flush = [at |-> fulfil'.flush.at, rows |-> fulfil'.flush.rows, behind |-> fulfil'.flush.behind]
    <3> DEFINE a == Advanced(fulfil)
    <3>1. /\ a = [n \in FulfilFields |-> a[n]]
          /\ a.calls = fulfil.calls /\ a.recorded = fulfil.recorded /\ a.pending = fulfil.pending
          /\ a.batches = Tail(fulfil.batches) /\ a.broken = fulfil.broken /\ a.disk = fulfil.disk
          /\ a.flush.at = fulfil.flush.at /\ a.flush.rows = fulfil.flush.rows
          /\ a.flush.behind = IF fulfil.flush.behind > 0 THEN fulfil.flush.behind - 1 ELSE 0
          /\ a.flush = [at |-> a.flush.at, rows |-> a.flush.rows, behind |-> a.flush.behind]
      BY <1>1, AdvancedFields
    <3>2. \/ fulfil' = [a EXCEPT !.disk = disk, !.broken = broken]
          \/ fulfil' = [a EXCEPT !.disk = disk] /\ broken = fulfil.broken
          \/ fulfil' = a /\ disk = fulfil.disk /\ broken = fulfil.broken
      BY <1>4
    <3> HIDE DEF a
    <3>3. /\ fulfil' = [n \in FulfilFields |-> fulfil'[n]]
          /\ fulfil'.calls = a.calls /\ fulfil'.recorded = a.recorded /\ fulfil'.pending = a.pending
          /\ fulfil'.batches = a.batches /\ fulfil'.broken = broken /\ fulfil'.disk = disk
          /\ fulfil'.flush = a.flush
      BY <3>1, <3>2 DEF FulfilFields
    <3>4. QED
      BY <3>1, <3>3
  <2>2. /\ Len(fulfil'.disk) <= Len(fulfil.recorded)
        /\ Piece(fulfil'.disk, fulfil.recorded, 0, Len(fulfil'.disk))
        /\ ~fulfil'.broken => Len(fulfil'.disk) = cut[1]
        /\ Range(fulfil.disk) \subseteq Range(fulfil'.disk)
    BY <1>4, <2>1
  <2>3. LogShape(fulfil') /\ \E d : Cuts(fulfil', d)
    BY <1>1, <1>2, <1>3, <2>1, <2>2, AdvancedCuts
  <2>4. QED
    BY <2>1, <2>3, LogMoves
<1>5. CASE BatchWritten
  <2> DEFINE disk == fulfil.disk \o Head(fulfil.batches)
  <2>1. ~fulfil.broken /\ fulfil' = [Advanced(fulfil) EXCEPT !.disk = Advanced(fulfil).disk \o Head(fulfil.batches)]
    BY <1>5 DEF BatchWritten
  <2>2. Advanced(fulfil).disk = fulfil.disk
    BY <1>1, AdvancedFields
  <2>3. fulfil' = [Advanced(fulfil) EXCEPT !.disk = disk]
    BY <2>1, <2>2
  <2>4. 0 \in 0 .. Len(Head(fulfil.batches))
    <3>1. Head(fulfil.batches) \in Seq(PaidCalls)
      BY <1>1, <1>3, HeadTailProperties DEF LogShape
    <3>2. QED
      BY <3>1, LenProperties
  <2>5. /\ Len(disk) = cut[1] /\ Len(disk) <= Len(fulfil.recorded)
        /\ Piece(disk, fulfil.recorded, 0, Len(disk)) /\ Range(fulfil.disk) \subseteq Range(disk)
    BY <1>1, <1>2, <1>3, <2>1, <2>4, FileGrows
  <2> HIDE DEF disk
  <2>6. QED
    BY <1>4, <2>3, <2>5
<1>6. CASE BatchFails
  <2>1. PICK rows \in 0 .. Len(Head(fulfil.batches)) : fulfil' = Failed(fulfil, rows)
    BY <1>6 DEF BatchFails
  <2> DEFINE disk == fulfil.disk \o SubSeq(Head(fulfil.batches), 1, rows)
  <2>2. ~fulfil.broken
    BY <1>6 DEF BatchFails
  <2>3. Advanced(fulfil).disk = fulfil.disk
    BY <1>1, AdvancedFields
  <2>4. fulfil' = [Advanced(fulfil) EXCEPT
          !.disk = Advanced(fulfil).disk \o SubSeq(Head(fulfil.batches), 1, rows), !.broken = TRUE]
    BY <2>1 DEF Failed
  <2>5. fulfil' = [Advanced(fulfil) EXCEPT !.disk = disk, !.broken = TRUE]
    BY <2>3, <2>4
  <2>6. /\ Len(disk) <= Len(fulfil.recorded)
        /\ Piece(disk, fulfil.recorded, 0, Len(disk)) /\ Range(fulfil.disk) \subseteq Range(disk)
    BY <1>1, <1>2, <1>3, <2>2, FileGrows
  <2> HIDE DEF disk
  <2>7. QED
    BY <1>4, <2>5, <2>6
<1>7. CASE BatchSkipped
  <2>1. fulfil.broken /\ fulfil' = Advanced(fulfil)
    BY <1>7 DEF BatchSkipped
  <2>2. /\ Len(fulfil.disk) <= Len(fulfil.recorded)
        /\ Piece(fulfil.disk, fulfil.recorded, 0, Len(fulfil.disk))
    BY <1>2 DEF Cuts
  <2>3. QED
    BY <1>4, <2>1, <2>2
<1>8. QED
  BY <1>5, <1>6, <1>7

(* The rows of the file are the rows recorded up to its length. *)
LEMMA FileIsRows ==
  ASSUME NEW f, LogShape(f), NEW cut, Cuts(f, cut)
  PROVE  Range(f.disk) = RowsUpTo(f.recorded, Len(f.disk))
<1>1. /\ f.disk \in Seq(PaidCalls) /\ Len(f.disk) \in Nat
      /\ \A k \in 1 .. Len(f.disk) : f.disk[k] = f.recorded[0 + k]
  BY CutsAreNumbers DEF Cuts, Piece
<1>2. DOMAIN f.disk = 1 .. Len(f.disk)
  BY <1>1, LenProperties
<1>3. \A k \in 1 .. Len(f.disk) : f.disk[k] = f.recorded[k]
  BY <1>1
<1>4. QED
  BY <1>2, <1>3 DEF Range, RowsUpTo

(* A flush with no batch before it resolves only while the disk holds. *)
LEMMA FlushEndsGood ==
  ASSUME FulfilInv, FlushEnds
  PROVE  FulfilInv'
<1> DEFINE end == IF fulfil.broken THEN "rejected" ELSE "resolved"
           flush == [at |-> end, rows |-> fulfil.flush.rows, behind |-> fulfil.flush.behind]
<1>1. /\ LogShape(fulfil) /\ \E cut : Cuts(fulfil, cut)
      /\ fulfil = [f \in FulfilFields |-> fulfil[f]]
      /\ fulfil.flush = [at |-> fulfil.flush.at, rows |-> fulfil.flush.rows, behind |-> fulfil.flush.behind]
  BY DEF FulfilInv, FulfilShape
<1>2. /\ fulfil.flush.at = "waiting" /\ fulfil.flush.behind = 0
      /\ fulfil' = [fulfil EXCEPT !.flush.at = end]
  BY DEF FlushEnds
<1>3. fulfil'.flush = flush
  BY <1>1, <1>2 DEF FulfilFields
<1>4. /\ flush.at = end /\ flush.rows = fulfil.flush.rows /\ flush.behind = fulfil.flush.behind
      /\ flush = [at |-> flush.at, rows |-> flush.rows, behind |-> flush.behind]
  OBVIOUS
<1> HIDE DEF flush
<1>5. /\ fulfil' = [f \in FulfilFields |-> fulfil'[f]]
      /\ fulfil'.calls = fulfil.calls /\ fulfil'.recorded = fulfil.recorded
      /\ fulfil'.pending = fulfil.pending /\ fulfil'.batches = fulfil.batches
      /\ fulfil'.broken = fulfil.broken /\ fulfil'.disk = fulfil.disk
  BY <1>1, <1>2 DEF FulfilFields
<1>6. PICK cut : Cuts(fulfil, cut)
  BY <1>1
<1>7. ASSUME ~fulfil.broken PROVE fulfil.flush.rows \subseteq Range(fulfil.disk)
  <2>1. fulfil.flush.rows \subseteq RowsUpTo(fulfil.recorded, cut[0])
    BY <1>2, <1>6 DEF Cuts
  <2>2. Len(fulfil.disk) = cut[0]
    BY <1>6, <1>7 DEF Cuts
  <2>3. QED
    BY <1>1, <1>6, <2>1, <2>2, FileIsRows
<1>8. /\ fulfil'.flush.at # "waiting"
      /\ fulfil'.flush.at = "resolved" => fulfil'.flush.rows \subseteq Range(fulfil'.disk)
  BY <1>3, <1>4, <1>5, <1>7
<1>9. LogShape(fulfil') /\ Cuts(fulfil', cut)
  BY <1>1, <1>5, <1>6, <1>8 DEF LogShape, Cuts
<1>10. QED
  BY <1>3, <1>4, <1>5, <1>9, LogMoves

(* The log starts empty, with nothing called. *)
LEMMA FulfilStarts ==
  ASSUME FulfilInit
  PROVE  FulfilInv
<1> DEFINE cut == [i \in 0 .. 0 |-> 0]
<1>1. fulfil = FulfilIdle
  BY DEF FulfilInit
<1>2. /\ fulfil = [f \in FulfilFields |-> fulfil[f]]
      /\ fulfil.calls = [c \in PaidCalls |-> CallIdle] /\ fulfil.recorded = <<>>
      /\ fulfil.pending = <<>> /\ fulfil.batches = <<>> /\ fulfil.disk = <<>>
      /\ fulfil.flush = [at |-> "none", rows |-> {}, behind |-> 0]
  BY <1>1 DEF FulfilIdle, FulfilFields
<1>3. \A c \in PaidCalls : /\ fulfil.calls[c].at = "idle" /\ fulfil.calls[c].record = None
                           /\ fulfil.calls[c] = [at |-> fulfil.calls[c].at, payment |-> fulfil.calls[c].payment,
                                answer |-> fulfil.calls[c].answer, record |-> fulfil.calls[c].record]
  BY <1>2 DEF CallIdle
<1>4. FulfilShape
  <2>1. fulfil.calls = [c \in PaidCalls |-> fulfil.calls[c]]
    BY <1>2
  <2>2. fulfil.calls = [c \in PaidCalls |->
          [at |-> fulfil.calls[c].at, payment |-> fulfil.calls[c].payment,
           answer |-> fulfil.calls[c].answer, record |-> fulfil.calls[c].record]]
    BY <1>3, <2>1
  <2>3. fulfil.flush = [at |-> fulfil.flush.at, rows |-> fulfil.flush.rows, behind |-> fulfil.flush.behind]
    BY <1>2
  <2>4. QED
    BY <1>2, <2>2, <2>3 DEF FulfilShape
<1>5. RecordsBuilt /\ ReadingIsUnrecorded
  BY <1>3 DEF RecordsBuilt, ReadingIsUnrecorded
<1>6. /\ <<>> \in Seq(PaidCalls) /\ <<>> \in Seq(Seq(PaidCalls)) /\ Len(<<>>) = 0 /\ DOMAIN <<>> = {}
  BY EmptySeq, LenProperties
<1>7. LogShape(fulfil)
  BY <1>2, <1>6 DEF LogShape
<1>8. RecordedAreOver
  BY <1>2, <1>6 DEF RecordedAreOver, IsInjective
<1>9. Cuts(fulfil, cut)
  <2>1. cut \in [0 .. 0 -> 0 .. 0] /\ cut[0] = 0
    OBVIOUS
  <2> HIDE DEF cut
  <2>2. Piece(<<>>, <<>>, 0, 0)
    BY <1>6 DEF Piece
  <2>3. fulfil.flush.at = "none"
    BY <1>2
  <2>4. QED
    BY <1>2, <1>6, <2>1, <2>2, <2>3 DEF Cuts
<1>10. QED
  BY <1>4, <1>5, <1>7, <1>8, <1>9 DEF FulfilInv

(* While the disk holds, every row recorded is in the file, in a batch or pending. *)
LEMMA NoRowIsMissing ==
  ASSUME LogShape(fulfil), NEW cut, Cuts(fulfil, cut), ~fulfil.broken
  PROVE  Range(fulfil.recorded) = RowsHeld
<1> DEFINE n == Len(fulfil.batches)
           rows == Len(fulfil.recorded)
<1>1. /\ n \in Nat /\ rows \in Nat /\ DOMAIN fulfil.batches = 1 .. n
      /\ \A i \in 0 .. n : cut[i] \in Nat /\ cut[i] <= rows
      /\ fulfil.pending \in Seq(PaidCalls)
  BY CutsAreNumbers
<1>2. DOMAIN fulfil.recorded = 1 .. rows /\ DOMAIN fulfil.pending = 1 .. Len(fulfil.pending)
  BY <1>1, LenProperties DEF LogShape
<1>3. Range(fulfil.disk) = RowsUpTo(fulfil.recorded, cut[0])
  BY FileIsRows DEF Cuts
<1>4. /\ Len(fulfil.pending) = rows - cut[n]
      /\ \A k \in 1 .. Len(fulfil.pending) : fulfil.pending[k] = fulfil.recorded[cut[n] + k]
  BY DEF Cuts, Piece
<1>5. ASSUME NEW i \in 1 .. n
      PROVE  /\ fulfil.batches[i] \in Range(fulfil.batches)
             /\ DOMAIN fulfil.batches[i] = 1 .. Len(fulfil.batches[i])
             /\ Len(fulfil.batches[i]) = cut[i] - cut[i - 1]
             /\ \A k \in 1 .. Len(fulfil.batches[i]) : fulfil.batches[i][k] = fulfil.recorded[cut[i - 1] + k]
  <2>1. fulfil.batches[i] \in Range(fulfil.batches)
    BY <1>1 DEF Range
  <2>2. Piece(fulfil.batches[i], fulfil.recorded, cut[i - 1], cut[i])
    BY DEF Cuts
  <2>3. QED
    BY <2>1, <2>2, LenProperties DEF Piece
<1>6. cut[0] \in Nat /\ cut[0] <= rows /\ cut[n] \in Nat /\ cut[n] <= rows
  <2>1. 0 \in 0 .. n /\ n \in 0 .. n
    BY <1>1
  <2>2. QED
    BY <1>1, <2>1
<1> HIDE DEF n, rows
<1>7. ASSUME NEW r \in Range(fulfil.recorded) PROVE r \in RowsHeld
  <2>1. PICK k \in 1 .. rows : r = fulfil.recorded[k]
    BY <1>2 DEF Range
  <2>2. CASE k <= cut[0]
    <3>1. k \in 1 .. cut[0]
      BY <1>6, <2>2
    <3>2. QED
      BY <1>3, <2>1, <3>1 DEF RowsHeld, RowsUpTo
  <2>3. CASE cut[n] < k
    <3>1. k - cut[n] \in 1 .. Len(fulfil.pending) /\ cut[n] + (k - cut[n]) = k
      BY <1>1, <1>4, <1>6, <2>3
    <3>2. fulfil.pending[k - cut[n]] = r
      BY <1>4, <2>1, <3>1
    <3>3. r \in Range(fulfil.pending)
      BY <1>2, <3>1, <3>2 DEF Range
    <3>4. QED
      BY <3>3 DEF RowsHeld
  <2>4. CASE cut[0] < k /\ k <= cut[n]
    <3> DEFINE T == {i \in 0 .. n : k <= cut[i]}
    <3>1. T \subseteq Nat /\ n \in T
      BY <1>1, <2>4
    <3>2. PICK i \in T : \A j \in T : i <= j
      BY <3>1, LeastCounterexample
    <3>3. i \in 0 .. n /\ k <= cut[i]
      BY <3>2
    <3>4. i # 0
      BY <1>6, <2>4, <3>3
    <3>5. i \in 1 .. n /\ i - 1 \in 0 .. n /\ i \in 0 .. n
      BY <1>1, <3>3, <3>4
    <3>6. ~(k <= cut[i - 1])
      BY <1>1, <3>2, <3>5
    <3>7. cut[i] \in Nat /\ cut[i - 1] \in Nat
      BY <1>1, <3>5
    <3>8. k - cut[i - 1] \in 1 .. Len(fulfil.batches[i]) /\ cut[i - 1] + (k - cut[i - 1]) = k
      <4>1. Len(fulfil.batches[i]) = cut[i] - cut[i - 1]
        BY <1>5, <3>5
      <4>2. QED
        BY <3>3, <3>6, <3>7, <4>1
    <3>9. r = fulfil.batches[i][k - cut[i - 1]]
      BY <1>5, <2>1, <3>5, <3>8
    <3>10. r \in Range(fulfil.batches[i]) /\ fulfil.batches[i] \in Range(fulfil.batches)
      BY <1>5, <3>5, <3>8, <3>9 DEF Range
    <3>11. QED
      BY <3>10 DEF RowsHeld
  <2>5. QED
    BY <1>6, <2>2, <2>3, <2>4
<1>8. ASSUME NEW r \in RowsHeld PROVE r \in Range(fulfil.recorded)
  <2>1. \A k \in 1 .. rows : fulfil.recorded[k] \in Range(fulfil.recorded)
    BY <1>2 DEF Range
  <2>2. CASE r \in Range(fulfil.disk)
    <3>1. PICK k \in 1 .. cut[0] : r = fulfil.recorded[k]
      BY <1>3, <2>2 DEF RowsUpTo
    <3>2. QED
      BY <1>1, <1>6, <2>1, <3>1
  <2>3. CASE r \in Range(fulfil.pending)
    <3>1. PICK k \in 1 .. Len(fulfil.pending) : r = fulfil.pending[k]
      BY <1>2, <2>3 DEF Range
    <3>2. cut[n] + k \in 1 .. rows
      BY <1>1, <1>4, <1>6
    <3>3. QED
      BY <1>4, <2>1, <3>1, <3>2
  <2>4. CASE \E b \in Range(fulfil.batches) : r \in Range(b)
    <3>1. PICK i \in 1 .. n : r \in Range(fulfil.batches[i])
      BY <1>1, <2>4 DEF Range
    <3>2. PICK k \in 1 .. Len(fulfil.batches[i]) : r = fulfil.batches[i][k]
      BY <1>5, <3>1 DEF Range
    <3>3. i \in 0 .. n /\ i - 1 \in 0 .. n
      BY <1>1
    <3>4. cut[i] \in Nat /\ cut[i - 1] \in Nat /\ cut[i] <= rows
      BY <1>1, <3>3
    <3>5. cut[i - 1] + k \in 1 .. rows
      <4>1. Len(fulfil.batches[i]) = cut[i] - cut[i - 1]
        BY <1>5
      <4>2. QED
        BY <1>1, <3>4, <4>1
    <3>6. QED
      BY <1>5, <2>1, <3>2, <3>5
  <2>5. QED
    BY <2>2, <2>3, <2>4 DEF RowsHeld
<1>9. QED
  BY <1>7, <1>8

(* The file is the start of what was recorded. *)
LEMMA FileIsPrefix ==
  ASSUME LogShape(fulfil), NEW cut, Cuts(fulfil, cut)
  PROVE  IsPrefix(fulfil.disk, fulfil.recorded)
<1> DEFINE d == fulfil.disk
           r == fulfil.recorded
           m == Len(d)
<1>1. /\ d \in Seq(PaidCalls) /\ r \in Seq(PaidCalls) /\ m \in Nat /\ Len(r) \in Nat /\ m <= Len(r)
      /\ \A k \in 1 .. m : d[k] = r[0 + k]
  BY CutsAreNumbers DEF Cuts, Piece, LogShape
<1> HIDE DEF d, r
<1>2. /\ \A k \in 1 .. m : d[k] \in PaidCalls
      /\ \A k \in 1 .. Len(r) : r[k] \in PaidCalls
  BY <1>1, ElementOfSeq
<1>3. \A k \in 1 .. m : r[k] \in PaidCalls
  BY <1>1, <1>2
<1> HIDE DEF m
<1>4. /\ SubSeq(d, 1, m) \in Seq(PaidCalls) /\ SubSeq(r, 1, m) \in Seq(PaidCalls)
      /\ Len(SubSeq(d, 1, m)) = (IF 1 <= m THEN m - 1 + 1 ELSE 0)
      /\ Len(SubSeq(r, 1, m)) = (IF 1 <= m THEN m - 1 + 1 ELSE 0)
      /\ \A k \in 1 .. m - 1 + 1 : SubSeq(d, 1, m)[k] = d[1 + k - 1]
      /\ \A k \in 1 .. m - 1 + 1 : SubSeq(r, 1, m)[k] = r[1 + k - 1]
  BY <1>1, <1>2, <1>3, SubSeqProperties
<1>5. Len(SubSeq(d, 1, m)) = m /\ Len(SubSeq(r, 1, m)) = m
  BY <1>1, <1>4
<1>6. ASSUME NEW k \in 1 .. m PROVE SubSeq(d, 1, m)[k] = SubSeq(r, 1, m)[k]
  <2>1. k \in 1 .. m - 1 + 1 /\ 1 + k - 1 = k /\ 0 + k = k
    BY <1>1
  <2>2. SubSeq(d, 1, m)[k] = d[k] /\ SubSeq(r, 1, m)[k] = r[k] /\ d[k] = r[k]
    BY <1>1, <1>4, <2>1
  <2>3. QED
    BY <2>2
<1>7. SubSeq(d, 1, m) = SubSeq(r, 1, m)
  BY <1>4, <1>5, <1>6, SeqEqual
<1>8. QED
  BY <1>1, <1>7 DEF IsPrefix, d, r, m

(* What the fulfilment log keeps at every step. *)
LEMMA FulfilInvariance == FulfilSpec => []FulfilInv
<1>1. FulfilInit => FulfilInv
  BY FulfilStarts
<1>2. FulfilInv /\ [FulfilNext]_fulfilVars => FulfilInv'
  <2> SUFFICES ASSUME FulfilInv, [FulfilNext]_fulfilVars PROVE FulfilInv'
    OBVIOUS
  <2>1. CASE \E c \in PaidCalls : PassesThrough(c) \/ PaidAnswer(c) \/ RecordThrows(c)
    BY <2>1, PaidCallMovesGood
  <2>2. CASE \E c \in PaidCalls : Recorded(c)
    BY <2>2, RecordedGood
  <2>3. CASE FlushTask
    BY <2>3, FlushTaskGood
  <2>4. CASE FlushAsked
    BY <2>4, FlushAskedGood
  <2>5. CASE BatchWritten \/ BatchFails \/ BatchSkipped
    BY <2>5, WriterGood
  <2>6. CASE FlushEnds
    BY <2>6, FlushEndsGood
  <2>7. CASE UNCHANGED fulfilVars
    <3>1. fulfil' = fulfil
      BY <2>7 DEF fulfilVars
    <3>2. QED
      BY <3>1 DEF FulfilInv, FulfilShape, RecordsBuilt, ReadingIsUnrecorded, RecordedAreOver
  <2>8. QED
    BY <2>1, <2>2, <2>3, <2>4, <2>5, <2>6, <2>7 DEF FulfilNext
<1>3. QED
  BY <1>1, <1>2, PTL DEF FulfilSpec

(* wrapFetchRecordFulfillment and createFileFulfillmentLog keep their file: rows
   once and in order, none lost while the disk holds, all of those a resolved
   flush was asked for, and no match against a settlement, a transaction or a
   readiness that says otherwise. *)
THEOREM FulfilmentLogKept == FulfilSpec => []FulfilmentIsKept
<1>1. FulfilInv => FulfilmentIsKept
  <2> SUFFICES ASSUME FulfilInv PROVE FulfilmentIsKept
    OBVIOUS
  <2>1. PICK cut : Cuts(fulfil, cut)
    BY DEF FulfilInv
  <2>2. LogShape(fulfil) /\ RecordsBuilt /\ RecordedAreOver
    BY DEF FulfilInv
  <2>3. IsPrefix(fulfil.disk, fulfil.recorded) /\ IsInjective(fulfil.recorded)
    BY <2>1, <2>2, FileIsPrefix DEF RecordedAreOver
  <2>4. ~fulfil.broken => Range(fulfil.recorded) = RowsHeld
    BY <2>1, <2>2, NoRowIsMissing
  <2>5. fulfil.flush.at = "resolved" => fulfil.flush.rows \subseteq Range(fulfil.disk)
    BY <2>1 DEF Cuts
  <2>6. ASSUME NEW c \in PaidCalls, fulfil.calls[c].record # None,
               fulfil.calls[c].record[1].verdict = "match"
        PROVE  LET answer == fulfil.calls[c].answer[1]  record == fulfil.calls[c].record[1] IN
               /\ record.settled # <<FALSE>> /\ BodyOf(answer).ready # <<FALSE>>
               /\ HeaderTx(answer) # None => SameTx(HeaderTx(answer)[1], Or(BodyOf(answer).tx, HeaderTx(answer))[1])
    <3>1. fulfil.calls[c].record[1] = BuildRecord(fulfil.calls[c].payment, fulfil.calls[c].answer[1])
      BY <2>2, <2>6 DEF RecordsBuilt
    <3>2. QED
      BY <2>6, <3>1, MatchIsClean
  <2>7. QED
    BY <2>3, <2>4, <2>5, <2>6 DEF FulfilmentIsKept
<1>2. QED
  BY <1>1, FulfilInvariance, PTL

-----------------------------------------------------------------------------
(* The cold start, for any diet, directory and answers of intel.             *)

(* What the gate approves while it refuses flagged sellers and outages was read
   of the merchant card, if there is one. *)
LEMMA ApprovedReadsCard ==
  ASSUME NEW ctx, NEW cfg, NEW preflight, NEW lookup,
         cfg.refuseWashFlagged, ~cfg.failOpen, lookup.card # None,
         ApprovePayment(ctx, cfg, preflight, lookup).approved
  PROVE  ApprovePayment(ctx, cfg, preflight, lookup).washFlagged = lookup.card[1].washFlagged
<1>1. \A why : ~Refused(why).approved
  BY DEF Refused, Result, Verdict
<1>2. \A v, onScored : Tightened(v, lookup, ctx.price, cfg, onScored).washFlagged = lookup.card[1].washFlagged
  BY DEF Tightened, Result
<1>3. ASSUME ApproveUnscored(ctx, cfg, lookup).approved
      PROVE  ApproveUnscored(ctx, cfg, lookup).washFlagged = lookup.card[1].washFlagged
  <2>1. \A v : ~v.approved => ~Result(v, FALSE, None).approved
    BY DEF Result
  <2>2. QED
    BY <1>2, <1>3, <2>1 DEF ApproveUnscored
<1>4. ASSUME ApproveScored(ctx, cfg, preflight, lookup).approved
      PROVE  ApproveScored(ctx, cfg, preflight, lookup).washFlagged = lookup.card[1].washFlagged
  <2>1. ~Outage(cfg).approved
    BY DEF Outage, Result, Verdict
  <2>2. \A unevaluated : ~Result(Verdict(FALSE, "block", unevaluated, "over_cap"), TRUE, None).approved
    BY DEF Result, Verdict
  <2>3. QED
    BY <1>2, <1>4, <2>1, <2>2 DEF ApproveScored
<1>5. QED
  BY <1>1, <1>3, <1>4 DEF ApprovePayment

(* consider vets what it lists. *)
LEMMA ConsiderVets ==
  ASSUME NEW role, NEW site, KnownSite(site), NEW cfg \in ColdConfigs, NEW asked \in ColdAnswers
  PROVE  LET row == Consider(role, site, cfg, asked) IN
         /\ row.role = role /\ row.site = site
         /\ row.status = "allowlisted" => VettedBy(row, cfg)
<1> DEFINE req == PickRequirements(PaymentRequired(site.header, site.body).accepts, None)
           row == Consider(role, site, cfg, asked)
           approval == ApprovePayment(Context(req), cfg, asked.preflight, asked.lookup)
<1>1. row.role = role /\ row.site = site
  BY DEF Consider, ColdRow
<1>2. ASSUME row.status = "allowlisted" PROVE VettedBy(row, cfg)
  <2>1. /\ site.forbidden = "no" /\ PayTo(req) # None /\ PayTo(req)[1] # RefuseFixture
        /\ PriceUsdc(req) # None /\ ColdApproves(req, cfg, asked) /\ ~(PriceUsdc(req)[1] > MaxPerCall)
        /\ row.payTo = PayTo(req) /\ row.asked = asked
    BY <1>2 DEF Consider, ColdRow
  <2>2. ~Conflicted(req) /\ approval.approved /\ approval.washFlagged # <<TRUE>>
    BY <2>1 DEF ColdApproves
  <2>3. asked = [preflight |-> asked.preflight, lookup |-> asked.lookup] /\ asked.preflight \in Preflights
    BY ColdAnswersAssumption
  <2>4. Numeric(req)
    BY DEF KnownSite
  <2>5. WithinFreeBounds(req, cfg, asked)
    <3>1. WithinFreeBounds(req, cfg, [preflight |-> asked.preflight, lookup |-> asked.lookup])
      BY <2>2, <2>3, <2>4, ApprovedIsBounded
    <3>2. QED
      BY <2>3, <3>1
  <2>6. ASSUME asked.lookup.card # None PROVE asked.lookup.card[1].washFlagged # <<TRUE>>
    <3>1. cfg.refuseWashFlagged /\ ~cfg.failOpen
      BY ColdConfigsAssumption
    <3>2. approval.washFlagged = asked.lookup.card[1].washFlagged
      BY ONLY <2>2, <2>6, <3>1, ApprovedReadsCard DEF approval
    <3>3. QED
      BY <2>2, <3>2
  <2>7. PriceUsdc(req)[1] <= MaxPerCall
    <3>1. PriceUsdc(req)[1] \in Int /\ MaxPerCall \in Int
      BY <2>1, <2>4, PriceIsNumber, MaxPerCallAssumption
    <3>2. QED
      BY <2>1, <3>1
  <2> HIDE DEF row, req
  <2>8. QED
    BY <1>1, <2>1, <2>5, <2>6, <2>7 DEF VettedBy, req
<1>3. QED
  BY <1>1, <1>2

(* One more row leaves those before it as they are. *)
LEMMA RowsGrow ==
  ASSUME NEW rows, rows \in Seq(Range(rows)), NEW row
  PROVE  LET more == Append(rows, row)  n == Len(rows) IN
         /\ more \in Seq(Range(more)) /\ n \in Nat /\ Len(more) = n + 1
         /\ DOMAIN rows = 1 .. n /\ DOMAIN more = 1 .. n + 1
         /\ \A i \in 1 .. n : more[i] = rows[i]
         /\ more[n + 1] = row /\ SubSeq(more, 1, n) = rows
<1> DEFINE S == Range(rows) \cup {row}
           more == Append(rows, row)
           n == Len(rows)
<1>1. n \in Nat /\ DOMAIN rows = 1 .. n
  BY LenProperties
<1>2. rows \in Seq(S)
  <2>1. \A i \in 1 .. n : rows[i] \in S
    BY <1>1 DEF Range
  <2>2. QED
    BY <1>1, <2>1
<1>3. /\ more \in Seq(S) /\ Len(more) = n + 1 /\ \A i \in 1 .. n : more[i] = rows[i]
      /\ more[n + 1] = row
  BY <1>2, AppendProperties
<1>4. DOMAIN more = 1 .. n + 1 /\ more \in Seq(Range(more))
  BY <1>3, LenProperties, SeqOfRange
<1> HIDE DEF more
<1>5. SubSeq(more, 1, n) = rows
  <2>1. \A i \in 1 .. n : more[i] \in S
    BY <1>1, <1>3, <1>4, ElementOfSeq
  <2> HIDE DEF S, n
  <2>2. /\ SubSeq(more, 1, n) \in Seq(S)
        /\ Len(SubSeq(more, 1, n)) = IF 1 <= n THEN n - 1 + 1 ELSE 0
        /\ \A i \in 1 .. n - 1 + 1 : SubSeq(more, 1, n)[i] = more[1 + i - 1]
    BY <1>1, <2>1, SubSeqProperties
  <2>3. Len(SubSeq(more, 1, n)) = n
    BY <1>1, <2>2
  <2>4. ASSUME NEW i \in 1 .. n PROVE SubSeq(more, 1, n)[i] = rows[i]
    <3>1. i \in 1 .. n - 1 + 1 /\ 1 + i - 1 = i
      BY <1>1
    <3>2. QED
      BY <1>3, <2>2, <3>1
  <2>5. QED
    BY <1>2, <2>2, <2>3, <2>4, SeqEqual DEF n
<1>6. QED
  BY <1>1, <1>3, <1>4, <1>5 DEF more

(* What stands of the rows when one more is vetted. *)
LEMMA RowIsVetted ==
  ASSUME NEW rows, rows \in Seq(Range(rows)), NEW cfg, AllVetted(rows, cfg), NEW row,
         row.status = "allowlisted" => VettedBy(row, cfg)
  PROVE  LET more == Append(rows, row) IN
         /\ more \in Seq(Range(more)) /\ AllVetted(more, cfg)
         /\ DietRows(rows) /\ row.role = "diet" /\ row.site.host # "none" => DietRows(more)
         /\ (/\ DietRows(rows) /\ row.role = "hop" /\ row.site.host \notin Hosts(rows)
             /\ row.payTo # None => row.payTo[1] \notin PayTos(rows)) => HopIsNew(more)
<1> DEFINE more == Append(rows, row)
           n == Len(rows)
<1>1. /\ more \in Seq(Range(more)) /\ n \in Nat /\ Len(more) = n + 1
      /\ DOMAIN rows = 1 .. n /\ DOMAIN more = 1 .. n + 1
      /\ \A i \in 1 .. n : more[i] = rows[i]
      /\ more[n + 1] = row /\ SubSeq(more, 1, n) = rows
  BY RowsGrow
<1> HIDE DEF more, n
<1>2. \A i \in DOMAIN more : i = n + 1 \/ i \in DOMAIN rows
  BY <1>1
<1>3. AllVetted(more, cfg)
  <2> SUFFICES ASSUME NEW i \in DOMAIN more, more[i].status = "allowlisted" PROVE VettedBy(more[i], cfg)
    BY DEF AllVetted
  <2>1. CASE i = n + 1
    BY <1>1, <2>1
  <2>2. CASE i \in DOMAIN rows
    BY <1>1, <2>2 DEF AllVetted
  <2>3. QED
    BY <1>2, <2>1, <2>2
<1>4. DietRows(rows) /\ row.role = "diet" /\ row.site.host # "none" => DietRows(more)
  BY <1>1, <1>2 DEF DietRows
<1>5. ASSUME DietRows(rows), row.role = "hop", row.site.host \notin Hosts(rows),
             row.payTo # None => row.payTo[1] \notin PayTos(rows)
      PROVE  HopIsNew(more)
  <2> SUFFICES ASSUME NEW i \in DOMAIN more, more[i].role = "hop"
               PROVE  /\ i = Len(more)
                      /\ more[i].site.host \notin Hosts(SubSeq(more, 1, i - 1))
                      /\ more[i].payTo # None => more[i].payTo[1] \notin PayTos(SubSeq(more, 1, i - 1))
    BY DEF HopIsNew
  <2>1. i = n + 1
    BY <1>1, <1>2, <1>5 DEF DietRows
  <2>2. i - 1 = n
    BY <1>1, <2>1
  <2>3. QED
    BY <1>1, <1>5, <2>1, <2>2
<1>6. QED
  BY <1>1, <1>3, <1>4, <1>5 DEF more

(* The policy is written of the rows there are. *)
LEMMA WritesGood ==
  ASSUME NEW c, c = [f \in ColdFields |-> c[f]], Writes(c),
         c.cfg[1] \in ColdConfigs, c.rows \in Seq(Range(c.rows)), AllVetted(c.rows, c.cfg[1]), HopIsNew(c.rows)
  PROVE  ColdInv'
<1>1. /\ cold' = [f \in ColdFields |-> cold'[f]]
      /\ cold'.at = "done" /\ cold'.cfg = c.cfg /\ cold'.rows = c.rows
      /\ cold'.policy = BuildPolicy(c.rows)
  BY DEF Writes, ColdFields
<1>2. QED
  BY <1>1 DEF ColdInv, AllVetted, VettedBy, HopIsNew

(* Rows of the diet alone hold no hop. *)
LEMMA NoHopYet == ASSUME NEW rows, DietRows(rows) PROVE HopIsNew(rows)
BY DEF DietRows, HopIsNew

(* Cold start begins with no site considered. *)
LEMMA StartsGood ==
  ASSUME ColdInv, Starts
  PROVE  ColdInv'
<1>1. PICK cfg \in ColdConfigs, diet \in Diets, hop \in BOOLEAN :
        cold' = [cold EXCEPT !.at = "diet", !.cfg = <<cfg>>, !.diet = diet, !.hop = hop]
  BY DEF Starts
<1>2. cold = ColdIdle
  BY DEF Starts
<1>3. /\ cold' = [f \in ColdFields |-> cold'[f]]
      /\ cold'.at = "diet" /\ cold'.cfg = <<cfg>> /\ cold'.diet = diet
      /\ cold'.listings = <<>> /\ cold'.rows = <<>> /\ cold'.policy = {}
  BY <1>1, <1>2 DEF ColdIdle, ColdFields
<1>4. <<>> \in Seq({}) /\ Range(<<>>) = {} /\ DOMAIN <<>> = {}
  BY EmptySeq, LenProperties DEF Range
<1>5. diet \in Seq(Range(diet)) /\ \A site \in Range(diet) : KnownSite(site)
  BY SitesAssumption
<1>6. QED
  BY <1>3, <1>4, <1>5 DEF ColdInv, AllVetted, DietRows

(* A site of the diet, considered, adds one row and keeps what holds. *)
LEMMA ConsidersDietGood ==
  ASSUME ColdInv, ConsidersDiet
  PROVE  ColdInv'
<1> DEFINE site == Head(cold.diet)
           cfg == cold.cfg[1]
<1>1. PICK asked \in ColdAnswers :
        cold' = [cold EXCEPT !.diet = Tail(@), !.rows = Append(@, Consider("diet", site, cfg, asked))]
  BY DEF ConsidersDiet
<1> DEFINE row == Consider("diet", site, cfg, asked)
<1>2. /\ cold.at = "diet" /\ cold.diet # <<>>
      /\ cold = [f \in ColdFields |-> cold[f]]
      /\ cfg \in ColdConfigs /\ cold.rows \in Seq(Range(cold.rows)) /\ AllVetted(cold.rows, cfg)
      /\ DietRows(cold.rows) /\ cold.policy = {}
      /\ cold.diet \in Seq(Range(cold.diet)) /\ \A x \in Range(cold.diet) : KnownSite(x)
      /\ cold.listings \in Seq(Range(cold.listings))
      /\ \A listing \in Range(cold.listings) : KnownSite(listing.site)
  BY DEF ConsidersDiet, ColdInv
<1>3. /\ site \in Range(cold.diet) /\ Tail(cold.diet) \in Seq(Range(cold.diet))
  BY <1>2, HeadTailProperties
<1>4. Tail(cold.diet) \in Seq(Range(Tail(cold.diet))) /\ Range(Tail(cold.diet)) \subseteq Range(cold.diet)
  BY <1>3, SeqOfRange, RangeOfSeq
<1>5. row.role = "diet" /\ row.site = site /\ (row.status = "allowlisted" => VettedBy(row, cfg))
  BY <1>2, <1>3, ConsiderVets
<1>6. site.host # "none"
  BY <1>2, <1>3 DEF KnownSite
<1> HIDE DEF row, cfg, site
<1>7. /\ cold' = [f \in ColdFields |-> cold'[f]]
      /\ cold'.at = "diet" /\ cold'.cfg = cold.cfg /\ cold'.diet = Tail(cold.diet)
      /\ cold'.listings = cold.listings /\ cold'.rows = Append(cold.rows, row) /\ cold'.policy = {}
  BY <1>1, <1>2 DEF ColdFields, row
<1>8. /\ Append(cold.rows, row) \in Seq(Range(Append(cold.rows, row)))
      /\ AllVetted(Append(cold.rows, row), cfg) /\ DietRows(Append(cold.rows, row))
  BY <1>2, <1>5, <1>6, RowIsVetted
<1>9. AllVetted(cold'.rows, cold'.cfg[1]) /\ DietRows(cold'.rows) /\ cold'.rows \in Seq(Range(cold'.rows))
  BY <1>7, <1>8 DEF cfg
<1>10. \A i \in DOMAIN cold'.rows : cold'.rows[i].role = "diet"
  BY <1>9 DEF DietRows
<1>11. /\ cold'.diet \in Seq(Range(cold'.diet)) /\ \A x \in Range(cold'.diet) : KnownSite(x)
  BY <1>2, <1>4, <1>7
<1>12. QED
  BY <1>2, <1>7, <1>9, <1>10, <1>11 DEF ColdInv, cfg, AllVetted, VettedBy, DietRows

(* A note that no hop was found, or that the directory failed. *)
LEMMA NotedGood ==
  ASSUME ColdInv, cold.at \in {"diet", "hop"}, NEW status, status # "allowlisted",
         Writes([cold EXCEPT !.rows = Noted(status)])
  PROVE  ColdInv'
<1> DEFINE row == ColdRow("hop", [host |-> "none"], None, None, status, None)
           more == Append(cold.rows, row)
           c == [cold EXCEPT !.rows = more]
<1>1. /\ cold = [f \in ColdFields |-> cold[f]]
      /\ cold.cfg[1] \in ColdConfigs /\ cold.rows \in Seq(Range(cold.rows))
      /\ AllVetted(cold.rows, cold.cfg[1]) /\ DietRows(cold.rows)
  BY DEF ColdInv
<1>2. row.role = "hop" /\ row.site.host = "none" /\ row.payTo = None /\ row.status # "allowlisted"
  BY DEF ColdRow
<1>3. "none" \notin Hosts(cold.rows)
  BY <1>1 DEF DietRows, Hosts
<1>4. Writes(c)
  BY DEF Noted
<1> HIDE DEF row
<1>5. more \in Seq(Range(more)) /\ AllVetted(more, cold.cfg[1]) /\ HopIsNew(more)
  BY <1>1, <1>2, <1>3, RowIsVetted
<1> HIDE DEF more
<1>6. /\ c = [f \in ColdFields |-> c[f]] /\ c.cfg = cold.cfg /\ c.rows = more
  BY <1>1 DEF ColdFields
<1> HIDE DEF c
<1>7. /\ c.cfg[1] \in ColdConfigs /\ c.rows \in Seq(Range(c.rows))
      /\ AllVetted(c.rows, c.cfg[1]) /\ HopIsNew(c.rows)
  BY <1>1, <1>5, <1>6
<1>8. QED
  BY <1>4, <1>6, <1>7, WritesGood

(* Going on to the directory, or without it, keeps what holds. *)
LEMMA DirectoryGood ==
  ASSUME ColdInv, SkipsHop \/ AsksDirectory \/ NoHop
  PROVE  ColdInv'
<1>1. cold = [f \in ColdFields |-> cold[f]]
  BY DEF ColdInv
<1>2. CASE SkipsHop
  <2>1. cold.at = "diet" /\ Writes(cold)
    BY <1>2 DEF SkipsHop, DietDone
  <2>2. /\ cold.cfg[1] \in ColdConfigs /\ cold.rows \in Seq(Range(cold.rows))
        /\ AllVetted(cold.rows, cold.cfg[1]) /\ DietRows(cold.rows)
    BY <2>1 DEF ColdInv
  <2>3. QED
    BY <1>1, <2>1, <2>2, NoHopYet, WritesGood
<1>3. CASE AsksDirectory /\ Writes([cold EXCEPT !.rows = Noted("directory_error")])
  BY <1>3, NotedGood DEF AsksDirectory, DietDone
<1>4. CASE NoHop
  BY <1>4, NotedGood DEF NoHop
<1>5. ASSUME AsksDirectory, NEW listings \in Directories,
             cold' = [cold EXCEPT !.at = "hop", !.listings = listings]
      PROVE  ColdInv'
  <2>1. cold.at = "diet"
    BY <1>5 DEF AsksDirectory, DietDone
  <2>2. /\ cold' = [f \in ColdFields |-> cold'[f]]
        /\ cold'.at = "hop" /\ cold'.cfg = cold.cfg /\ cold'.diet = cold.diet
        /\ cold'.listings = listings /\ cold'.rows = cold.rows /\ cold'.policy = cold.policy
    BY <1>1, <1>5 DEF ColdFields
  <2>3. listings \in Seq(Range(listings)) /\ \A listing \in Range(listings) : KnownSite(listing.site)
    BY SitesAssumption
  <2>4. /\ cold'.cfg[1] \in ColdConfigs /\ cold'.rows \in Seq(Range(cold'.rows))
        /\ AllVetted(cold'.rows, cold'.cfg[1]) /\ DietRows(cold'.rows)
        /\ cold'.diet \in Seq(Range(cold'.diet)) /\ \A site \in Range(cold'.diet) : KnownSite(site)
        /\ cold'.policy = {} /\ \A i \in DOMAIN cold'.rows : cold'.rows[i].role = "diet"
    BY <2>1, <2>2 DEF ColdInv
  <2>5. QED
    BY <2>2, <2>3, <2>4 DEF ColdInv, AllVetted, VettedBy, DietRows
<1>6. QED
  BY <1>2, <1>3, <1>4, <1>5 DEF AsksDirectory

(* A listing inspected adds one row at most and keeps what holds. *)
LEMMA InspectsGood ==
  ASSUME ColdInv, Inspects
  PROVE  ColdInv'
<1> DEFINE listing == Head(cold.listings)
           rest == [cold EXCEPT !.listings = Tail(@)]
           cfg == cold.cfg[1]
<1>1. /\ cold.at = "hop" /\ cold.listings # <<>>
      /\ cold = [f \in ColdFields |-> cold[f]]
      /\ cfg \in ColdConfigs /\ cold.rows \in Seq(Range(cold.rows)) /\ AllVetted(cold.rows, cfg)
      /\ DietRows(cold.rows) /\ cold.policy = {}
      /\ cold.diet \in Seq(Range(cold.diet)) /\ \A x \in Range(cold.diet) : KnownSite(x)
      /\ cold.listings \in Seq(Range(cold.listings))
      /\ \A x \in Range(cold.listings) : KnownSite(x.site)
  BY DEF Inspects, ColdInv
<1>2. /\ listing \in Range(cold.listings) /\ Tail(cold.listings) \in Seq(Range(cold.listings))
  BY <1>1, HeadTailProperties
<1>3. /\ Tail(cold.listings) \in Seq(Range(Tail(cold.listings)))
      /\ Range(Tail(cold.listings)) \subseteq Range(cold.listings)
  BY <1>2, SeqOfRange, RangeOfSeq
<1>4. /\ rest = [f \in ColdFields |-> rest[f]] /\ rest.at = "hop" /\ rest.cfg = cold.cfg
      /\ rest.diet = cold.diet /\ rest.listings = Tail(cold.listings) /\ rest.rows = cold.rows
      /\ rest.policy = cold.policy
  BY <1>1 DEF ColdFields
<1>5. \/ cold' = rest
      \/ /\ ~PassedOver(listing)
         /\ \E asked \in ColdAnswers :
              LET row == Consider("hop", listing.site, cfg, asked)
              IN IF EndsHop(row) THEN Writes([rest EXCEPT !.inspected = @ + 1, !.rows = Append(@, row)])
                 ELSE cold' = [rest EXCEPT !.inspected = @ + 1]
  BY DEF Inspects
<1> HIDE DEF rest, listing, cfg
<1>6. ASSUME cold'.at = "hop", cold' = [f \in ColdFields |-> cold'[f]], cold'.cfg = cold.cfg,
             cold'.diet = cold.diet, cold'.listings = Tail(cold.listings), cold'.rows = cold.rows,
             cold'.policy = cold.policy
      PROVE  ColdInv'
  <2>1. \A x \in Range(cold'.listings) : KnownSite(x.site)
    BY <1>1, <1>3, <1>6
  <2>2. cold'.listings \in Seq(Range(cold'.listings))
    BY <1>3, <1>6
  <2>3. AllVetted(cold'.rows, cold'.cfg[1]) /\ cold'.cfg[1] \in ColdConfigs
    BY <1>1, <1>6 DEF cfg
  <2>4. DietRows(cold'.rows) /\ \A i \in DOMAIN cold'.rows : cold'.rows[i].role = "diet"
    BY <1>1, <1>6 DEF DietRows
  <2>5. QED
    BY <1>1, <1>6, <2>1, <2>2, <2>3, <2>4 DEF ColdInv, AllVetted, VettedBy, DietRows
<1>7. CASE cold' = rest
  BY <1>4, <1>6, <1>7
<1>8. ASSUME ~PassedOver(listing), NEW asked \in ColdAnswers,
             LET row == Consider("hop", listing.site, cfg, asked)
             IN IF EndsHop(row) THEN Writes([rest EXCEPT !.inspected = @ + 1, !.rows = Append(@, row)])
                ELSE cold' = [rest EXCEPT !.inspected = @ + 1]
      PROVE  ColdInv'
  <2> DEFINE row == Consider("hop", listing.site, cfg, asked)
             more == Append(cold.rows, row)
             c == [rest EXCEPT !.inspected = @ + 1, !.rows = more]
  <2>1. KnownSite(listing.site)
    BY <1>1, <1>2
  <2>2. row.role = "hop" /\ row.site = listing.site /\ (row.status = "allowlisted" => VettedBy(row, cfg))
    BY <1>1, <2>1, ConsiderVets
  <2>3. row.site.host \notin Hosts(cold.rows)
    BY <1>8, <2>2 DEF PassedOver
  <2> HIDE DEF row
  <2>4. CASE EndsHop(row)
    <3>1. row.payTo # None => row.payTo[1] \notin PayTos(cold.rows)
      BY <2>4 DEF EndsHop
    <3>2. more \in Seq(Range(more)) /\ AllVetted(more, cfg) /\ HopIsNew(more)
      BY <1>1, <2>2, <2>3, <3>1, RowIsVetted
    <3>3. Writes(c)
      BY <1>4, <1>8, <2>4 DEF row
    <3> HIDE DEF more
    <3>4. c = [f \in ColdFields |-> c[f]] /\ c.cfg = cold.cfg /\ c.rows = more
      BY <1>4 DEF ColdFields
    <3> HIDE DEF c
    <3>5. /\ c.cfg[1] \in ColdConfigs /\ c.rows \in Seq(Range(c.rows))
          /\ AllVetted(c.rows, c.cfg[1]) /\ HopIsNew(c.rows)
      BY <1>1, <3>2, <3>4 DEF cfg
    <3>6. QED
      BY <3>3, <3>4, <3>5, WritesGood
  <2>5. CASE ~EndsHop(row)
    <3>1. cold' = [rest EXCEPT !.inspected = rest.inspected + 1]
      BY <1>8, <2>5 DEF row
    <3>2. /\ cold' = [f \in ColdFields |-> cold'[f]] /\ cold'.at = "hop" /\ cold'.cfg = cold.cfg
          /\ cold'.diet = cold.diet /\ cold'.listings = Tail(cold.listings)
          /\ cold'.rows = cold.rows /\ cold'.policy = cold.policy
      BY <1>4, <3>1 DEF ColdFields
    <3>3. QED
      BY <1>6, <3>2
  <2>6. QED
    BY <2>4, <2>5
<1>9. QED
  BY <1>5, <1>7, <1>8

(* What cold start keeps at every step. *)
LEMMA ColdInvariance == ColdSpec => []ColdInv
<1>1. ColdInit => ColdInv
  <2> SUFFICES ASSUME ColdInit PROVE ColdInv
    OBVIOUS
  <2>1. /\ cold = [f \in ColdFields |-> cold[f]]
        /\ cold.at = "idle" /\ cold.rows = <<>> /\ cold.policy = {}
    BY DEF ColdInit, ColdIdle, ColdFields
  <2>2. DOMAIN <<>> = {}
    BY EmptySeq, LenProperties
  <2>3. QED
    BY <2>1, <2>2 DEF ColdInv
<1>2. ColdInv /\ [ColdNext]_coldVars => ColdInv'
  <2> SUFFICES ASSUME ColdInv, [ColdNext]_coldVars PROVE ColdInv'
    OBVIOUS
  <2>1. CASE Starts
    BY <2>1, StartsGood
  <2>2. CASE ConsidersDiet
    BY <2>2, ConsidersDietGood
  <2>3. CASE SkipsHop \/ AsksDirectory \/ NoHop
    BY <2>3, DirectoryGood
  <2>4. CASE Inspects
    BY <2>4, InspectsGood
  <2>5. CASE UNCHANGED coldVars
    <3>1. cold' = cold
      BY <2>5 DEF coldVars
    <3>2. QED
      BY <3>1 DEF ColdInv
  <2>6. QED
    BY <2>1, <2>2, <2>3, <2>4, <2>5 DEF ColdNext
<1>3. QED
  BY <1>1, <1>2, PTL DEF ColdSpec

(* The policy that cold start writes lists only what the gate approved of one
   price within the cap, each seller once, and the hop brought in a seller that
   the diet had not. *)
THEOREM PolicyVetted == ColdSpec => []PolicyIsVetted
<1>1. ColdInv => PolicyIsVetted
  <2> SUFFICES ASSUME ColdInv PROVE PolicyIsVetted
    OBVIOUS
  <2>1. CASE cold.at = "done"
    <3>1. cold.policy = BuildPolicy(cold.rows) /\ HopIsNew(cold.rows) /\ AllVetted(cold.rows, cold.cfg[1])
          /\ cold.rows \in Seq(Range(cold.rows))
      BY <2>1 DEF ColdInv
    <3>2. DOMAIN cold.rows \subseteq Nat
      BY <3>1, LenProperties
    <3>3. ASSUME NEW i \in cold.policy
          PROVE  Vetted(cold.rows[i])
      <4>1. i \in DOMAIN cold.rows /\ cold.rows[i].status = "allowlisted"
        BY <3>1 DEF BuildPolicy
      <4>2. QED
        BY <3>1, <4>1 DEF AllVetted, VettedBy, Vetted
    <3>4. ASSUME NEW i \in cold.policy, NEW j \in cold.policy, i < j
          PROVE  <<cold.rows[i].site.host, cold.rows[i].payTo>> # <<cold.rows[j].site.host, cold.rows[j].payTo>>
      BY <3>1, <3>4 DEF BuildPolicy
    <3>5. QED
      BY <3>1, <3>3, <3>4 DEF PolicyIsVetted, HopIsNew
  <2>2. CASE cold.at # "done"
    BY <2>2 DEF ColdInv, PolicyIsVetted
  <2>3. QED
    BY <2>1, <2>2
<1>2. QED
  BY <1>1, ColdInvariance, PTL

-----------------------------------------------------------------------------
(* The evidence bundle, for any export, edits and readers.                   *)

(* An export leaves nothing of a secret and says what it removed. *)
LEMMA ExportIsScrubbed ==
  ASSUME NEW input \in EvidenceInputs, NEW attestation
  PROVE  LET b == Export(input, attestation) IN
         /\ \A hit \in b.found : hit.path \in Verbatim /\ hit.kind # "secret_key_name"
         /\ b.redactions = input.found \ b.found
         /\ Internal(input.integration) => b.lineage = "dogfood"
<1> DEFINE b == Export(input, attestation)
<1>1. b.found = input.found \ Removed(input.found) /\ b.redactions = Removed(input.found)
      /\ b.lineage = ExportedLineage(input)
  BY DEF Export
<1>2. \A hit \in b.found : hit.path \in Verbatim /\ hit.kind # "secret_key_name"
  BY <1>1 DEF Removed
<1>3. b.redactions = input.found \ b.found
  <2>1. Removed(input.found) \subseteq input.found
    BY DEF Removed
  <2>2. QED
    BY <1>1, <2>1
<1>4. ASSUME Internal(input.integration) PROVE ExportedLineage(input) = "dogfood"
  <2> DEFINE requested == Or(input.lineage, IF input.transcript = None THEN None ELSE <<input.transcript[1].lineage>>)
             lineage == OrElse(requested, IF Internal(input.integration) THEN "dogfood" ELSE "external_candidate")
  <2>1. ExportedLineage(input) = IF lineage = "external_candidate" THEN "dogfood" ELSE lineage
    BY <1>4 DEF ExportedLineage
  <2>2. requested = None \/ requested[1] \in Lineages
    <3>1. CASE input.lineage # None
      BY <3>1, EvidenceInputsAssumption DEF Or
    <3>2. CASE input.lineage = None /\ input.transcript # None
      <4>1. requested = <<input.transcript[1].lineage>>
        BY <3>2 DEF Or
      <4>2. input.transcript[1].lineage \in Lineages
        BY <3>2, EvidenceInputsAssumption
      <4>3. QED
        BY <4>1, <4>2
    <3>3. CASE input.lineage = None /\ input.transcript = None
      BY <3>3 DEF Or
    <3>4. QED
      BY <3>1, <3>2, <3>3
  <2> HIDE DEF requested
  <2>3. lineage \in Lineages
    BY <1>4, <2>2 DEF OrElse, Lineages
  <2>4. QED
    BY <2>1, <2>3 DEF Lineages
<1>5. QED
  BY <1>1, <1>2, <1>3, <1>4

(* A code is given exactly where its condition holds. *)
LEMMA Coded ==
  ASSUME NEW b
  PROVE  /\ Contradictions(b) = {} <=> ~AtOdds(b)
         /\ LineageErrors(b) = {} <=> ~Overclaims(b)
<1>1. \A code, holds : Code(code, holds) = {} <=> ~holds
  BY DEF Code
<1>2. LineageErrors(b) = {} <=> ~Overclaims(b)
  BY <1>1 DEF LineageErrors, Overclaims
<1> DEFINE d == b.decision[1]
           outcome == b.attestation[1].outcome
           SignedYet == d.approved = <<FALSE>> /\ SignerRan(d)
           Passing == d.approved = <<TRUE>> /\ d.signer = <<0>> /\ d.verdict = <<"block">>
           Belie == \/ outcome = "settled" /\ d.approved = <<FALSE>>
                    \/ outcome = "blocked_never_signed" /\ (d.approved = <<TRUE>> \/ SignerRan(d))
<1>3. DecisionContradicts(d) = {} <=> ~SignedYet /\ ~Passing
  BY <1>1 DEF DecisionContradicts
<1>4. OutcomeContradicts(d, outcome) = {} <=> ~Belie
  BY <1>1 DEF OutcomeContradicts
<1>5. AtOdds(b) <=> b.decision # None /\ (SignedYet \/ Passing \/ (b.attestation # None /\ Belie))
  BY DEF AtOdds
<1> HIDE DEF SignedYet, Passing, Belie, outcome, d
<1>6. Contradictions(b) = {} <=>
        \/ b.decision = None
        \/ /\ DecisionContradicts(d) = {}
           /\ b.attestation = None \/ OutcomeContradicts(d, outcome) = {}
  BY DEF Contradictions, outcome, d
<1>7. QED
  BY <1>2, <1>3, <1>4, <1>5, <1>6

(* The decision, lineage, scan and receipt of what a reader finds ok agree. *)
LEMMA OkIsCoherent ==
  ASSUME NEW b, MayHaveLeaf(b.bind), NEW expected, NEW peers, VerifyBundle(b, expected, peers).ok
  PROVE  OkMeans(b)
<1> DEFINE links == Linkage(b, expected, peers)
<1>1. ValidationErrors(b) = {} /\ Violations(b.found) = {} /\ \A id \in DOMAIN links : links[id] # "failed"
  BY DEF VerifyBundle
<1>2. ShapeErrors(b) = {} /\ ~AtOdds(b) /\ ~Overclaims(b)
  BY <1>1, Coded DEF ValidationErrors
<1>3. ~(b.bind # None /\ b.bind[1].leaf = <<NotHex>>)
  BY <1>2 DEF ShapeErrors, Code
<1>4. ReceiptCheck(b) # "failed" /\ BindLeafCheck(b) # "failed"
  <2>1. links.receipt_binds_bind = ReceiptCheck(b) /\ links.bind_leaf_recomputed = BindLeafCheck(b)
    BY DEF Linkage
  <2>2. QED
    BY <1>1, <2>1 DEF Linkage
<1>5. ASSUME b.receipt # None, Rehashable(b), b.receipt[1].resourceBound
      PROVE  b.receipt[1].leaf = <<OfferHash(b.requirements[1])>>
  <2>1. b.bind # None /\ b.bind[1].leaf # None /\ b.receipt[1].leaf = b.bind[1].leaf
    BY <1>4, <1>5 DEF ReceiptCheck, Checked
  <2>2. b.bind[1].leaf # <<NotHex>>
    BY <1>3, <2>1
  <2>3. b.bind[1].leaf[1] = OfferHash(b.requirements[1])
    BY <1>4, <1>5, <2>1, <2>2 DEF BindLeafCheck, Checked, Rehashable
  <2>4. b.bind[1].leaf = <<b.bind[1].leaf[1]>>
    BY <2>1 DEF MayHaveLeaf
  <2>5. QED
    BY <2>1, <2>3, <2>4
<1>6. QED
  BY <1>1, <1>2, <1>5 DEF OkMeans, ForAnotherOffer

(* A label says no more than what was established. *)
LEMMA LabelsStand ==
  ASSUME NEW b, NEW expected, NEW peers, NEW report, report = VerifyBundle(b, expected, peers)
  PROVE  LabelsAreEarned(b, report)
<1> DEFINE links == Linkage(b, expected, peers)
<1>1. ASSUME NEW id \in DOMAIN report.claims \cap DOMAIN report.links, ReadsVerified(report, id)
      PROVE  report.links[id] = "verified"
  <2>1. id \in {"bind_leaf_recomputed", "receipt_binds_bind", "outcome_leaf_recomputed", "outcome_signature"}
    BY <1>1 DEF VerifyBundle, Linkage
  <2>2. report.links = links /\ report.claims[id] = LabelOf(links, id, expected)
    BY <2>1 DEF VerifyBundle
  <2>3. QED
    BY <1>1, <2>2 DEF LabelOf, ReadsVerified
<1>2. \A holds : Established(holds) = "MACHINE_VERIFIED" <=> holds
  BY DEF Established
<1>3. /\ report.claims.well_formed_v1 = Established(ValidationErrors(b) = {})
      /\ report.claims.internally_consistent = Established(Contradictions(b) = {})
      /\ report.claims.lineage_honest = Established(LineageErrors(b) = {})
      /\ report.claims.scrub_clean = Established(Violations(b.found) = {})
      /\ report.claims.redactions_derived = IF b.derived THEN "MACHINE_VERIFIED" ELSE "ASSERTED"
      /\ report.ok => Violations(b.found) = {}
  BY DEF VerifyBundle
<1>4. ValidationErrors(b) = {} => Contradictions(b) = {} /\ LineageErrors(b) = {}
  BY DEF ValidationErrors
<1>5. QED
  BY <1>1, <1>2, <1>3, <1>4, Coded DEF LabelsAreEarned, ReadsVerified

(* No check of what a reader finds ok has failed. *)
LEMMA OkChecks ==
  ASSUME NEW b, NEW expected, NEW peers, VerifyBundle(b, expected, peers).ok
  PROVE  \A id \in DOMAIN Linkage(b, expected, peers) : Linkage(b, expected, peers)[id] # "failed"
BY DEF VerifyBundle

Takes(b, expected, peers) ==
  VerifyBundle(b, expected, peers).claims.outcome_signature = "MACHINE_VERIFIED"

LeafIsSigned(b, expected, peers, signed) ==
  LET a == b.attestation[1] IN
  /\ expected # None /\ b.attestation # None /\ a.leaf # None /\ a.leaf = <<a.leaf[1]>>
  /\ peers.base58 /\ \E made \in signed : made.leaf = a.leaf

(* A signature that a reader with the operator's key takes is the operator's,
   over the leaf the bundle carries. *)
LEMMA TakenIsSigned ==
  ASSUME NEW signed, \A a \in signed : Made(a), NEW b, Authentic(b, signed),
         NEW expected \in {None, <<OperatorKey>>}, NEW peers, Takes(b, expected, peers)
  PROVE  LeafIsSigned(b, expected, peers, signed)
<1> USE DEF Takes, LeafIsSigned
<1> DEFINE a == b.attestation[1]
           links == Linkage(b, expected, peers)
<1>1. LabelOf(links, "outcome_signature", expected) = "MACHINE_VERIFIED"
  BY DEF VerifyBundle
<1>2. links["outcome_signature"] = "verified" /\ expected # None
  BY <1>1 DEF LabelOf
<1>3. SignatureCheck(b.attestation, expected, peers) = "verified"
  BY <1>2 DEF Linkage
<1>4. expected = <<OperatorKey>> /\ Or(expected, a.signing_pubkey) = <<OperatorKey>>
  BY <1>2 DEF Or
<1>5. /\ b.attestation # None /\ a.signature # None /\ a.leaf # None
      /\ SignatureVerifies(a.leaf[1], a.signature, OperatorKey, peers.base58)
  BY <1>3, <1>4 DEF SignatureCheck, Checked
<1>6. peers.base58 /\ a.signature = <<[by |-> OperatorKey, over |-> a.leaf[1]]>>
  BY <1>5 DEF SignatureVerifies
<1>7. a.leaf = <<a.leaf[1]>>
  BY <1>5 DEF Authentic, MayHaveLeaf
<1>8. a.signature[1].by = OperatorKey
  BY <1>6
<1>9. PICK made \in signed : made.signature = a.signature
  BY <1>5, <1>8 DEF Authentic
<1>10. made = Attested(made.preimage[1], OperatorKey)
  BY <1>9 DEF Made
<1> DEFINE leaf == OutcomeLeaf(made.preimage[1], TRUE)
<1> HIDE DEF leaf
<1>11. made.leaf = <<leaf>> /\ made.signature = <<[by |-> OperatorKey, over |-> leaf]>>
  <2>1. \A fields : /\ Attested(fields, OperatorKey).leaf = <<OutcomeLeaf(fields, TRUE)>>
                    /\ Attested(fields, OperatorKey).signature
                         = <<[by |-> OperatorKey, over |-> OutcomeLeaf(fields, TRUE)]>>
    BY DEF Attested
  <2>2. /\ Attested(made.preimage[1], OperatorKey).leaf = <<leaf>>
        /\ Attested(made.preimage[1], OperatorKey).signature = <<[by |-> OperatorKey, over |-> leaf]>>
    BY <2>1 DEF leaf
  <2>3. QED
    BY <1>10, <2>2
<1>12. leaf = a.leaf[1]
  <2>1. made.signature[1].over = leaf /\ a.signature[1].over = a.leaf[1]
    BY <1>6, <1>11
  <2>2. QED
    BY <1>9, <2>1
<1>13. QED
  BY <1>2, <1>5, <1>6, <1>7, <1>9, <1>11, <1>12

(* Nothing is said of a report that its checks did not establish. *)
LEMMA ReportStands ==
  ASSUME EvidenceInv, evidence.report # None
  PROVE  ReportIsEarned
<1> DEFINE b == evidence.bundle[1]
           report == evidence.report[1]
<1>1. PICK expected \in {None, <<OperatorKey>>}, peers \in Peers : evidence.report = <<VerifyBundle(b, expected, peers)>>
  BY DEF EvidenceInv, ReportedOn
<1>2. report = VerifyBundle(b, expected, peers)
  BY <1>1
<1>3. evidence.at = "verified" /\ \A a \in evidence.signed : Made(a)
  BY DEF EvidenceInv
<1>4. CASE evidence.bundle # None
  <2>1. Authentic(b, evidence.signed) /\ MayHaveLeaf(b.bind)
    BY <1>4 DEF EvidenceInv, Authentic
  <2> DEFINE links == Linkage(b, expected, peers)
             a == b.attestation[1]
  <2>2. report.expected = expected /\ report.peers = peers
    BY <1>2 DEF VerifyBundle
  <2>3. ASSUME report.ok PROVE OkMeans(b)
    BY <1>2, <2>1, <2>3, OkIsCoherent
  <2>4. ASSUME report.claims.outcome_signature = "MACHINE_VERIFIED"
        PROVE  /\ expected # None /\ b.attestation # None /\ a.leaf # None /\ a.leaf = <<a.leaf[1]>>
               /\ peers.base58 /\ \E made \in evidence.signed : made.leaf = a.leaf
    <3>1. Takes(b, expected, peers)
      BY <1>2, <2>4 DEF Takes
    <3>2. Authentic(b, evidence.signed) /\ expected \in {None, <<OperatorKey>>}
      BY <2>1
    <3> HIDE DEF b, report
    <3>3. LeafIsSigned(b, expected, peers, evidence.signed)
      BY ONLY <1>3, <3>1, <3>2, TakenIsSigned
    <3>4. QED
      BY ONLY <3>3 DEF LeafIsSigned
  <2>5. ASSUME report.claims.outcome_signature = "MACHINE_VERIFIED" PROVE report.expected # None /\ Behind(b) # {}
    BY <2>2, <2>4, <2>5 DEF Behind
  <2>6. ASSUME report.claims.outcome_signature = "MACHINE_VERIFIED", report.ok,
               NEW made \in Behind(b)
        PROVE  LET signed == made.preimage[1]  shown == b.attestation[1].preimage IN
               /\ HonoursContract(signed.verdict, signed.outcome, signed.tx, signed.payer)
               /\ (report.peers.keccak /\ shown # None) =>
                    (Encodable(shown[1]) => OutcomeLeaf(shown[1], TRUE) = OutcomeLeaf(signed, TRUE))
    <3> DEFINE signed == made.preimage[1]
               shown == b.attestation[1].preimage
    <3>1. Made(made) /\ made.leaf = a.leaf
      BY <1>3 DEF Behind
    <3>2. HonoursContract(signed.verdict, signed.outcome, signed.tx, signed.payer)
      BY <3>1 DEF Made, Encodable
    <3>3. made.leaf = <<OutcomeLeaf(signed, TRUE)>>
      <4>1. made = Attested(signed, OperatorKey)
        BY <3>1 DEF Made
      <4>2. Attested(signed, OperatorKey).leaf = <<OutcomeLeaf(signed, TRUE)>>
        BY DEF Attested
      <4>3. QED
        BY <4>1, <4>2
    <3>4. a.leaf[1] = OutcomeLeaf(signed, TRUE)
      BY <3>1, <3>3
    <3>5. OutcomeLeafCheck(b.attestation, peers) # "failed"
      <4>1. \A id \in DOMAIN links : links[id] # "failed"
        <5>1. VerifyBundle(b, expected, peers).ok
          BY <1>2, <2>6
        <5> HIDE DEF b, report
        <5>2. QED
          BY <5>1, OkChecks
      <4>2. links.outcome_leaf_recomputed = OutcomeLeafCheck(b.attestation, peers)
        BY DEF Linkage
      <4>3. QED
        BY <4>1, <4>2 DEF Linkage
    <3>6. ASSUME peers.keccak, shown # None, Encodable(shown[1])
          PROVE  OutcomeLeaf(shown[1], TRUE) = OutcomeLeaf(signed, TRUE)
      <4>1. OutcomeLeaf(shown[1], peers.base58) = a.leaf[1]
        BY <2>4, <2>6, <3>5, <3>6 DEF OutcomeLeafCheck, Checked
      <4>2. peers.base58 = TRUE
        BY <1>1, <2>4, <2>6, PeersAssumption
      <4>3. QED
        BY <3>4, <4>1, <4>2
    <3>7. QED
      BY <2>2, <3>2, <3>6
  <2>7. LabelsAreEarned(b, report)
    BY <1>2, LabelsStand
  <2>8. QED
    BY <2>3, <2>5, <2>6, <2>7 DEF ReportIsEarned, ReadsVerified, SignedAsShown
<1>5. CASE evidence.bundle = None
  BY <1>3, <1>5 DEF EvidenceInv
<1>6. QED
  BY <1>4, <1>5

(* A bundle that an edit changes keeps to signatures the operator made. *)
LEMMA EditedIsAuthentic ==
  ASSUME NEW signed, NEW b, Authentic(b, signed), NEW edit \in EvidenceEdits,
         (edit.field = "attestation" /\ edit.value # None) =>
           LET a == edit.value[1]
           IN (a.signature # None /\ a.signature[1].by = OperatorKey) =>
                \E made \in signed : made.signature = a.signature,
         NEW c, c = [b EXCEPT ![edit.field] = edit.value]
  PROVE  Authentic(c, signed)
<1>1. b = [f \in BundleFields |-> b[f]] /\ MayHaveLeaf(b.bind) /\ MayHaveLeaf(b.attestation)
  BY DEF Authentic
<1>2. /\ c = [f \in BundleFields |-> c[f]]
      /\ c.bind = IF edit.field = "bind" THEN edit.value ELSE b.bind
      /\ c.attestation = IF edit.field = "attestation" THEN edit.value ELSE b.attestation
  BY <1>1 DEF BundleFields
<1>3. edit.field \in {"bind", "attestation"} => MayHaveLeaf(edit.value)
  BY EvidenceEditsAssumption
<1>4. MayHaveLeaf(c.bind) /\ MayHaveLeaf(c.attestation)
  BY <1>1, <1>2, <1>3
<1>5. ASSUME c.attestation # None, c.attestation[1].signature # None,
             c.attestation[1].signature[1].by = OperatorKey
      PROVE  \E made \in signed : made.signature = c.attestation[1].signature
  <2>1. CASE edit.field = "attestation"
    BY <1>2, <1>5, <2>1
  <2>2. CASE edit.field # "attestation"
    BY <1>2, <1>5, <2>2 DEF Authentic
  <2>3. QED
    BY <2>1, <2>2
<1>6. QED
  BY <1>2, <1>4, <1>5 DEF Authentic

(* An export carries no attestation but one the operator made. *)
LEMMA ExportIsAuthentic ==
  ASSUME NEW signed, \A a \in signed : Made(a), NEW input \in EvidenceInputs,
         NEW attestation \in {None} \cup {<<a>> : a \in signed}
  PROVE  Authentic(Export(input, attestation), signed)
<1> DEFINE b == Export(input, attestation)
<1>1. /\ b = [f \in BundleFields |-> b[f]] /\ b.bind = input.bind /\ b.attestation = attestation
  BY DEF Export, BundleFields
<1>2. MayHaveLeaf(input.bind)
  BY EvidenceInputsAssumption
<1>3. ASSUME attestation # None
      PROVE  attestation[1] \in signed /\ attestation[1].leaf = <<attestation[1].leaf[1]>>
  <2>1. attestation[1] \in signed
    BY <1>3
  <2>2. attestation[1] = Attested(attestation[1].preimage[1], OperatorKey)
    BY <2>1 DEF Made
  <2>3. \A fields : Attested(fields, OperatorKey).leaf = <<OutcomeLeaf(fields, TRUE)>>
    BY DEF Attested
  <2>4. attestation[1].leaf = <<OutcomeLeaf(attestation[1].preimage[1], TRUE)>>
    BY <2>2, <2>3
  <2>5. QED
    BY <2>1, <2>4
<1>4. MayHaveLeaf(attestation)
  BY <1>3 DEF MayHaveLeaf
<1> HIDE DEF b
<1>5. QED
  BY <1>1, <1>2, <1>3, <1>4 DEF Authentic, b

(* The operator signs nothing but what it encodes. *)
LEMMA AttestsGood ==
  ASSUME EvidenceInv, AttestsRefusal \/ AttestsOutcome
  PROVE  EvidenceInv'
<1>1. PICK fields : /\ Encodable(fields)
                    /\ evidence' = [evidence EXCEPT !.at = "attested", !.signed = {Attested(fields, OperatorKey)}]
  BY DEF AttestsRefusal, AttestsOutcome
<1>2. evidence = EvidenceIdle
  BY DEF AttestsRefusal, AttestsOutcome
<1> DEFINE made == Attested(fields, OperatorKey)
<1>3. made.preimage = <<fields>>
  BY DEF Attested
<1>4. Made(made)
  BY <1>1, <1>3 DEF Made
<1> HIDE DEF made
<1>5. /\ evidence' = [f \in EvidenceFields |-> evidence'[f]]
      /\ evidence'.at = "attested" /\ evidence'.signed = {made} /\ evidence'.bundle = None
      /\ evidence'.edits = 0 /\ evidence'.report = None
  BY <1>1, <1>2 DEF EvidenceIdle, EvidenceFields, made
<1>6. QED
  BY <1>4, <1>5 DEF EvidenceInv, Made

(* An export publishes an authentic bundle, not yet edited. *)
LEMMA ExportsGood ==
  ASSUME EvidenceInv, Exports
  PROVE  EvidenceInv'
<1>1. PICK input \in EvidenceInputs, attestation \in {None} \cup {<<a>> : a \in evidence.signed} :
        evidence' = [evidence EXCEPT !.at = "published", !.input = <<input>>,
                                     !.bundle = <<Export(input, attestation)>>]
  BY DEF Exports
<1>2. /\ evidence.at \in {"idle", "attested"} /\ evidence = [f \in EvidenceFields |-> evidence[f]]
      /\ evidence.edits = 0 /\ evidence.report = None /\ \A a \in evidence.signed : Made(a)
  BY DEF Exports, EvidenceInv
<1>3. Authentic(Export(input, attestation), evidence.signed)
  BY <1>2, ExportIsAuthentic
<1>4. /\ evidence' = [f \in EvidenceFields |-> evidence'[f]]
      /\ evidence'.at = "published" /\ evidence'.signed = evidence.signed /\ evidence'.input = <<input>>
      /\ evidence'.bundle = <<Export(input, attestation)>> /\ evidence'.edits = 0 /\ evidence'.report = None
  BY <1>1, <1>2 DEF EvidenceFields
<1>5. /\ evidence'.bundle # None /\ evidence'.bundle = <<evidence'.bundle[1]>>
      /\ Authentic(evidence'.bundle[1], evidence'.signed)
  BY <1>3, <1>4 DEF None
<1>6. QED
  BY <1>2, <1>4, <1>5 DEF EvidenceInv, Made, Authentic

(* An edit leaves the bundle authentic: it signs nothing for the operator. *)
LEMMA EditsGood ==
  ASSUME EvidenceInv, Edits
  PROVE  EvidenceInv'
<1> DEFINE b == evidence.bundle[1]
<1>1. PICK edit \in EvidenceEdits :
        CanMake(edit) /\ evidence' = [evidence EXCEPT !.bundle[1][edit.field] = edit.value, !.edits = @ + 1]
  BY DEF Edits
<1>2. /\ evidence.at = "published" /\ evidence = [f \in EvidenceFields |-> evidence[f]]
      /\ evidence.edits \in Nat /\ evidence.report = None /\ \A a \in evidence.signed : Made(a)
      /\ evidence.bundle = <<b>> /\ Authentic(b, evidence.signed)
  BY DEF Edits, EvidenceInv
<1> DEFINE c == [b EXCEPT ![edit.field] = edit.value]
<1> HIDE DEF b
<1>3. Authentic(c, evidence.signed)
  BY <1>1, <1>2, EditedIsAuthentic DEF CanMake
<1> HIDE DEF c
<1>4. evidence'.bundle = <<c>>
  BY <1>1, <1>2 DEF EvidenceFields, b, c
<1>5. /\ evidence' = [f \in EvidenceFields |-> evidence'[f]]
      /\ evidence'.at = "published" /\ evidence'.signed = evidence.signed
      /\ evidence'.edits = evidence.edits + 1 /\ evidence'.report = None
  BY <1>1, <1>2 DEF EvidenceFields
<1>6. /\ evidence'.bundle # None /\ evidence'.bundle = <<evidence'.bundle[1]>>
      /\ Authentic(evidence'.bundle[1], evidence'.signed)
  BY <1>3, <1>4, <1>5 DEF None
<1>7. evidence'.edits \in Nat /\ evidence'.edits # 0
  BY <1>2, <1>5
<1>8. QED
  BY <1>2, <1>5, <1>6, <1>7 DEF EvidenceInv, Made, Authentic

(* A reader's report is on the bundle as it stands. *)
LEMMA VerifiesGood ==
  ASSUME EvidenceInv, Verifies
  PROVE  EvidenceInv'
<1>1. PICK expected \in {None, <<OperatorKey>>}, peers \in Peers :
        evidence' = [evidence EXCEPT !.at = "verified",
                       !.report = <<VerifyBundle(evidence.bundle[1], expected, peers)>>]
  BY DEF Verifies
<1>2. evidence.at = "published" /\ evidence = [f \in EvidenceFields |-> evidence[f]]
  BY DEF Verifies, EvidenceInv
<1>3. /\ evidence' = [f \in EvidenceFields |-> evidence'[f]]
      /\ evidence'.at = "verified" /\ evidence'.signed = evidence.signed /\ evidence'.input = evidence.input
      /\ evidence'.bundle = evidence.bundle /\ evidence'.edits = evidence.edits
      /\ evidence'.report = <<VerifyBundle(evidence.bundle[1], expected, peers)>>
  BY <1>1, <1>2 DEF EvidenceFields
<1>4. ReportedOn(evidence'.report, evidence'.bundle[1])
  BY <1>3 DEF ReportedOn
<1>5. /\ evidence.bundle # None /\ evidence.bundle = <<evidence.bundle[1]>> /\ evidence.edits \in Nat
      /\ Authentic(evidence.bundle[1], evidence.signed) /\ \A a \in evidence.signed : Made(a)
  BY <1>2 DEF EvidenceInv
<1>6. /\ Authentic(evidence'.bundle[1], evidence'.signed) /\ \A a \in evidence'.signed : Made(a)
      /\ evidence'.bundle # None /\ evidence'.bundle = <<evidence'.bundle[1]>> /\ evidence'.edits \in Nat
  BY <1>3, <1>5
<1>7. evidence'.edits = 0 =>
        \E input \in EvidenceInputs : \E attestation :
          evidence'.input = <<input>> /\ evidence'.bundle = <<Export(input, attestation)>>
  BY <1>3, <1>5 DEF EvidenceInv
<1>8. QED
  BY <1>3, <1>4, <1>6, <1>7 DEF EvidenceInv, Made, Authentic

(* What an evidence bundle keeps at every step. *)
LEMMA EvidenceInvariance == EvidenceSpec => []EvidenceInv
<1>1. EvidenceInit => EvidenceInv
  BY DEF EvidenceInit, EvidenceIdle, EvidenceInv, EvidenceFields
<1>2. EvidenceInv /\ [EvidenceNext]_evidenceVars => EvidenceInv'
  <2> SUFFICES ASSUME EvidenceInv, [EvidenceNext]_evidenceVars PROVE EvidenceInv'
    OBVIOUS
  <2>1. CASE UNCHANGED evidenceVars
    <3>1. evidence' = evidence
      BY <2>1 DEF evidenceVars
    <3>2. QED
      BY <3>1 DEF EvidenceInv
  <2>2. QED
    BY <2>1, AttestsGood, ExportsGood, EditsGood, VerifiesGood DEF EvidenceNext
<1>3. QED
  BY <1>1, <1>2, PTL DEF EvidenceSpec

(* exportEvidenceBundle publishes no secret, and what verifyEvidenceBundle says
   of a bundle, edited or not, is as much as ReportIsEarned lets a reader take. *)
THEOREM EvidenceEarned == EvidenceSpec => []EvidenceIsEarned
<1>1. EvidenceInv => EvidenceIsEarned
  <2> SUFFICES ASSUME EvidenceInv PROVE EvidenceIsEarned
    OBVIOUS
  <2>1. ReportIsEarned
    <3>1. evidence.report = None => ReportIsEarned
      BY DEF ReportIsEarned
    <3>2. QED
      BY <3>1, ReportStands
  <2>2. ASSUME Fresh PROVE ExportsNoSecrets
    <3>1. PICK input \in EvidenceInputs : \E attestation :
            evidence.input = <<input>> /\ evidence.bundle = <<Export(input, attestation)>>
      BY <2>2 DEF Fresh, EvidenceInv
    <3>2. PICK attestation : evidence.input = <<input>> /\ evidence.bundle = <<Export(input, attestation)>>
      BY <3>1
    <3>3. evidence.input[1] = input /\ evidence.bundle[1] = Export(input, attestation)
      BY <3>2
    <3>4. QED
      BY <3>3, ExportIsScrubbed DEF ExportsNoSecrets
  <2>3. QED
    BY <2>1, <2>2 DEF EvidenceIsEarned, ExportsNoSecrets
<1>2. QED
  BY <1>1, EvidenceInvariance, PTL

-----------------------------------------------------------------------------
(* What every machine's state is made of.                                    *)

\* What an evaluation bought, and got for it.
HopsFit(e) ==
  /\ e = [f \in EvalFields |-> e[f]]
  /\ \/ e.hops \in {<<>>, <<"quick">>} /\ e.receipt = None
     \/ e.hops = <<"receipt">>

EvalShape ==
  /\ HopsFit(eval)
  /\ eval.at \in {"idle", "free", "proving", "done"}
  /\ eval.at \in {"idle", "free"} => eval.hops = <<>>

(* An evaluation ends with what it has bought. *)
LEMMA EndsInShape == ASSUME NEW e, HopsFit(e), NEW approved, EEnds(e, approved) PROVE EvalShape'
<1>1. eval' = [f \in EvalFields |-> eval'[f]] /\ eval'.at = "done" /\ eval'.hops = e.hops /\ eval'.receipt = e.receipt
  BY DEF EEnds, HopsFit, EvalFields
<1>2. QED
  BY <1>1 DEF EvalShape, HopsFit

(* So it does without a receipt, asked for or not. *)
LEMMA MissesInShape == ASSUME NEW e, HopsFit(e), EMissed(e) \/ WithoutReceipt(e) PROVE EvalShape'
BY EndsInShape DEF EMissed, WithoutReceipt, LogEnds

(* The evaluation buys one piece of advice at most, and a receipt only by the
   receipt hop. *)
LEMMA EvalShaped == EvalSpec => []EvalTypeOK
<1>1. EvalInit => EvalShape
  BY DEF EvalInit, EvalShape, HopsFit, EvalIdle, EvalFields
<1>2. EvalShape /\ [EvalNext]_evalVars => EvalShape'
  <2> SUFFICES ASSUME EvalShape, [EvalNext]_evalVars PROVE EvalShape'
    OBVIOUS
  <2>1. CASE UNCHANGED evalVars
    BY <2>1 DEF evalVars, EvalShape, HopsFit
  <2>2. CASE Evaluates
    <3>1. eval = EvalIdle
      BY <2>2 DEF Evaluates
    <3>2. PICK req \in Reqs, opt \in EvalOptions, preflight \in Preflights, lookup \in Lookups :
            LET asked == [eval EXCEPT !.req = req, !.opt = <<opt>>]
                approval == ApprovePayment(Context(req), opt.cfg, preflight, lookup)
            IN IF Conflicted(req) THEN EEnds(asked, FALSE)
               ELSE eval' = [asked EXCEPT !.at = "free", !.approved = approval.approved,
                               !.asked = <<[preflight |-> preflight, lookup |-> lookup]>>,
                               !.approval = <<approval>>]
      BY <2>2 DEF Evaluates
    <3> DEFINE e == [eval EXCEPT !.req = req, !.opt = <<opt>>]
    <3>3. e = [f \in EvalFields |-> e[f]] /\ e.hops = <<>> /\ e.receipt = None
      BY <3>1 DEF EvalIdle, EvalFields
    <3> HIDE DEF e
    <3>4. CASE EEnds(e, FALSE)
      BY <3>3, <3>4, EndsInShape DEF HopsFit
    <3>5. ASSUME NEW approved, NEW asked, NEW approval,
                 eval' = [e EXCEPT !.at = "free", !.approved = approved, !.asked = asked, !.approval = approval]
          PROVE  EvalShape'
      <4>1. eval' = [f \in EvalFields |-> eval'[f]] /\ eval'.at = "free" /\ eval'.hops = <<>> /\ eval'.receipt = None
        BY <3>3, <3>5 DEF EvalFields
      <4>2. QED
        BY <4>1 DEF EvalShape, HopsFit
    <3>6. QED
      BY <3>2, <3>4, <3>5 DEF e
  <2>3. CASE Escalates
    <3>1. eval.hops = <<>> /\ eval = [f \in EvalFields |-> eval[f]] /\ eval.receipt = None
      BY <2>3 DEF Escalates, EvalShape, HopsFit
    <3>2. HopsFit(EBought("quick"))
      <4> DEFINE bought == EBought("quick")
      <4>1. Append(<<>>, "quick") = <<"quick">>
        OBVIOUS
      <4>2. bought = [f \in EvalFields |-> bought[f]] /\ bought.receipt = None
            /\ bought.hops = Append(<<>>, "quick")
        BY <3>1 DEF EBought, EvalFields
      <4>3. QED
        BY <4>1, <4>2 DEF HopsFit
    <3>3. ASSUME NEW score PROVE HopsFit([EBought("quick") EXCEPT !.score = score])
      <4> DEFINE bought == EBought("quick")
                 scored == [bought EXCEPT !.score = score]
      <4> HIDE DEF bought
      <4>1. scored = [f \in EvalFields |-> scored[f]] /\ scored.receipt = bought.receipt /\ scored.hops = bought.hops
        BY <3>2 DEF HopsFit, EvalFields, bought
      <4>2. HopsFit(scored)
        BY <3>2, <4>1 DEF HopsFit, bought
      <4>3. QED
        BY <4>2 DEF bought
    <3>4. \E approved : \/ EEnds(EBought("quick"), approved)
                        \/ \E score : EEnds([EBought("quick") EXCEPT !.score = score], approved)
      BY <2>3 DEF Escalates
    <3>5. QED
      BY <3>2, <3>3, <3>4, EndsInShape
  <2>4. CASE BuysReceipt
    <3>1. eval.hops = <<>> /\ eval = [f \in EvalFields |-> eval[f]]
      BY <2>4 DEF BuysReceipt, EvalShape, HopsFit
    <3> DEFINE bought == EBought("receipt")
    <3>2. bought = [f \in EvalFields |-> bought[f]] /\ bought.hops = <<"receipt">>
      <4>1. Append(<<>>, "receipt") = <<"receipt">>
        OBVIOUS
      <4>2. QED
        BY <3>1, <4>1 DEF EBought, EvalFields
    <3>3. \/ EMissed(bought)
          \/ \E receipt : LET e == [bought EXCEPT !.receipt = receipt, !.answered = TRUE]
                          IN \/ \E approved : EEnds(e, approved)
                             \/ eval' = [e EXCEPT !.at = "proving"]
      BY <2>4 DEF BuysReceipt, LogEnds
    <3> HIDE DEF bought
    <3>4. CASE EMissed(bought)
      BY <3>2, <3>4, MissesInShape DEF HopsFit
    <3>5. ASSUME NEW receipt,
                 LET e == [bought EXCEPT !.receipt = receipt, !.answered = TRUE]
                 IN \/ \E approved : EEnds(e, approved)
                    \/ eval' = [e EXCEPT !.at = "proving"]
          PROVE  EvalShape'
      <4> DEFINE e == [bought EXCEPT !.receipt = receipt, !.answered = TRUE]
      <4>1. e = [f \in EvalFields |-> e[f]] /\ e.hops = <<"receipt">>
        BY <3>2 DEF EvalFields
      <4>2. (\E approved : EEnds(e, approved)) \/ eval' = [e EXCEPT !.at = "proving"]
        BY <3>5
      <4> HIDE DEF e
      <4>3. ASSUME eval' = [e EXCEPT !.at = "proving"]
            PROVE  eval' = [f \in EvalFields |-> eval'[f]] /\ eval'.at = "proving" /\ eval'.hops = <<"receipt">>
        BY <4>1, <4>3 DEF EvalFields
      <4>4. QED
        BY <4>1, <4>2, <4>3, EndsInShape DEF HopsFit, EvalShape
    <3>6. QED
      BY <3>3, <3>4, <3>5
  <2>5. CASE SkipsReceipt
    BY <2>5, MissesInShape DEF SkipsReceipt, EvalShape
  <2>6. CASE ProvesReceipt
    <3>1. CASE LogEnds(eval, FALSE)
      BY <3>1, EndsInShape DEF LogEnds, EvalShape
    <3>2. ASSUME NEW reply, NEW allows, LogEnds([eval EXCEPT !.log = <<reply>>], allows) PROVE EvalShape'
      <4> DEFINE e == [eval EXCEPT !.log = <<reply>>]
      <4>1. HopsFit(e)
        BY DEF EvalShape, HopsFit, EvalFields
      <4>2. \E approved : EEnds(e, approved)
        BY <3>2 DEF LogEnds
      <4> HIDE DEF e
      <4>3. QED
        BY <4>1, <4>2, EndsInShape
    <3>3. QED
      BY <2>6, <3>1, <3>2 DEF ProvesReceipt
  <2>7. QED
    BY <2>1, <2>2, <2>3, <2>4, <2>5, <2>6 DEF EvalNext
<1>3. EvalShape => EvalTypeOK
  <2>1. Len(<<>>) <= 1 /\ Len(<<"quick">>) <= 1 /\ Len(<<"receipt">>) <= 1
    OBVIOUS
  <2>2. QED
    BY <2>1 DEF EvalShape, EvalTypeOK, HopsFit
<1>4. QED
  BY <1>1, <1>2, <1>3, PTL DEF EvalSpec

\* Nothing was reported, or once, or once more when the budget had run out.
ReportedOnce == \E report : settle.reports = <<report>>
ReportedTwice == \E first, second : settle.reports = <<first, second>>

SettleShape ==
  /\ settle = [f \in GuardFields |-> settle[f]]
  /\ settle.at \in {"idle", "extracting", "screening", "ended"}
  /\ settle.answer \in {None, <<TRUE>>, <<FALSE>>}
  /\ settle.at # "ended" => IF settle.answer = None THEN settle.reports = <<>> ELSE ReportedOnce
  /\ settle.reports = <<>> \/ ReportedOnce \/ ReportedTwice

(* The run that ends reports, after what the budget reported if it ran out. *)
LEMMA ConcludesInShape ==
  ASSUME SettleShape, settle.at # "ended", NEW abort \in BOOLEAN, NEW reason, Concludes(abort, reason)
  PROVE  SettleShape'
<1> DEFINE report == Report(abort, reason)
<1>1. /\ settle' = [f \in GuardFields |-> settle'[f]] /\ settle'.at = "ended"
      /\ settle'.answer = Or(settle.answer, <<abort>>) /\ settle'.reports = Append(settle.reports, report)
  BY DEF SettleShape, Concludes, GuardFields
<1> HIDE DEF report
<1>2. settle'.answer \in {None, <<TRUE>>, <<FALSE>>}
  BY <1>1 DEF Or, SettleShape
<1>3. ReportedOnce' \/ ReportedTwice'
  <2>1. CASE settle.reports = <<>>
    <3>1. settle'.reports = <<report>>
      BY <1>1, <2>1, FirstReport
    <3>2. QED
      BY <3>1 DEF ReportedOnce
  <2>2. ASSUME NEW first, settle.reports = <<first>> PROVE ReportedTwice'
    <3>1. settle'.reports = <<first, report>>
      BY <1>1, <2>2, AppendedPair
    <3>2. QED
      BY <3>1 DEF ReportedTwice
  <2>3. settle.reports = <<>> \/ ReportedOnce
    BY DEF SettleShape
  <2>4. QED
    BY <2>1, <2>2, <2>3 DEF ReportedOnce
<1>4. QED
  BY <1>1, <1>2, <1>3 DEF SettleShape

(* The guard answers once and reports twice at most. *)
LEMMA SettleShaped == SettleSpec => []SettleTypeOK
<1>1. SettleInit => SettleShape
  BY DEF SettleInit, SettleShape, SettleIdle, GuardFields
<1>2. SettleShape /\ [SettleNext]_settleVars => SettleShape'
  <2> SUFFICES ASSUME SettleShape, [SettleNext]_settleVars PROVE SettleShape'
    OBVIOUS
  <2>1. CASE UNCHANGED settleVars
    BY <2>1 DEF settleVars, SettleShape, ReportedOnce, ReportedTwice
  <2>2. CASE Presented
    <3>1. PICK pay \in Payments, opt \in SettleOptions, screen \in Screens :
            settle' = [settle EXCEPT !.at = "extracting", !.pay = <<pay>>, !.opt = <<opt>>, !.screen = <<screen>>]
      BY <2>2 DEF Presented
    <3>2. /\ settle' = [f \in GuardFields |-> settle'[f]] /\ settle'.at = "extracting"
          /\ settle'.answer = None /\ settle'.reports = <<>>
      BY <2>2, <3>1 DEF Presented, SettleIdle, GuardFields
    <3>3. QED
      BY <3>2 DEF SettleShape
  <2>3. CASE Extracts
    <3>1. settle.at = "extracting"
      BY <2>3 DEF Extracts, WithoutScreen
    <3>2. ASSUME NEW payer, settle' = [settle EXCEPT !.at = "screening", !.payer = payer] PROVE SettleShape'
      <4>1. /\ settle' = [f \in GuardFields |-> settle'[f]] /\ settle'.at = "screening"
            /\ settle'.answer = settle.answer /\ settle'.reports = settle.reports
        BY <3>2 DEF SettleShape, GuardFields
      <4>2. QED
        BY <3>1, <4>1 DEF SettleShape, ReportedOnce, ReportedTwice
    <3>3. (~FailsOpen(settle.opt[1])) \in BOOLEAN
      OBVIOUS
    <3>4. \/ \E reason : Concludes(~FailsOpen(settle.opt[1]), reason)
          \/ \E payer : settle' = [settle EXCEPT !.at = "screening", !.payer = payer]
      BY <2>3 DEF Extracts, WithoutScreen
    <3>5. QED
      BY <3>1, <3>2, <3>3, <3>4, ConcludesInShape
  <2>4. CASE ScreenAnswers
    <3>1. settle.at = "screening"
      BY <2>4 DEF ScreenAnswers, WithoutScreen
    <3>2. \E abort \in BOOLEAN : \E reason : Concludes(abort, reason)
      <4>1. (~FailsOpen(settle.opt[1])) \in BOOLEAN /\ \A reason : (reason # None) \in BOOLEAN
        OBVIOUS
      <4>2. QED
        BY <2>4, <4>1 DEF ScreenAnswers, WithoutScreen
    <3>3. QED
      BY <3>1, <3>2, ConcludesInShape
  <2>5. CASE ScreenThrows
    <3>1. settle.at = "screening"
      BY <2>5 DEF ScreenThrows, WithoutScreen
    <3>2. ASSUME settle' = [settle EXCEPT !.at = "ended"] PROVE SettleShape'
      <4>1. /\ settle' = [f \in GuardFields |-> settle'[f]] /\ settle'.at = "ended"
            /\ settle'.answer = settle.answer /\ settle'.reports = settle.reports
        BY <3>2 DEF SettleShape, GuardFields
      <4>2. QED
        BY <4>1 DEF SettleShape, ReportedOnce, ReportedTwice
    <3>3. (~FailsOpen(settle.opt[1])) \in BOOLEAN
      OBVIOUS
    <3>4. QED
      BY <2>5, <3>1, <3>2, <3>3, ConcludesInShape DEF ScreenThrows, WithoutScreen
  <2>6. CASE TimesOut
    <3> DEFINE abort == ~FailsOpen(settle.opt[1])
    <3>1. settle.at \in {"extracting", "screening"} /\ settle.reports = <<>>
      BY <2>6 DEF TimesOut, SettleShape
    <3>2. /\ settle' = [f \in GuardFields |-> settle'[f]] /\ settle'.at = settle.at
          /\ settle'.answer = <<abort>>
          /\ settle'.reports = Append(<<>>, Report(abort, "screen_timeout"))
      BY <2>6, <3>1 DEF TimesOut, SettleShape, GuardFields
    <3>3. abort \in BOOLEAN
      OBVIOUS
    <3> HIDE DEF abort
    <3>4. settle'.reports = <<Report(abort, "screen_timeout")>>
      BY <3>2, FirstReport
    <3>5. ReportedOnce'
      BY <3>4 DEF ReportedOnce
    <3>6. settle'.answer \in {<<TRUE>>, <<FALSE>>} /\ settle'.answer # None
      <4>1. abort = TRUE \/ abort = FALSE
        BY ONLY <3>3
      <4>2. <<abort>> \in {<<TRUE>>, <<FALSE>>}
        BY ONLY <4>1
      <4>3. \A b : <<b>> # None
        BY DEF None
      <4>4. QED
        BY <3>2, <4>2, <4>3
    <3>7. QED
      BY <3>1, <3>2, <3>5, <3>6 DEF SettleShape
  <2>7. QED
    BY <2>1, <2>2, <2>3, <2>4, <2>5, <2>6 DEF SettleNext
<1>3. SettleShape => SettleTypeOK
  <2>1. \A first, second : Len(<<>>) <= 2 /\ Len(<<first>>) <= 2 /\ Len(<<first, second>>) <= 2
    OBVIOUS
  <2>2. QED
    BY <2>1 DEF SettleShape, SettleTypeOK, ReportedOnce, ReportedTwice
<1>4. QED
  BY <1>1, <1>2, <1>3, PTL DEF SettleSpec

-----------------------------------------------------------------------------
SafeShape == safe = [f \in SafeFields |-> safe[f]] /\ SafeTypeOK

(* The pre-check asks at most twice, for itself and for the payer. *)
LEMMA SafeShaped == SafeSpec => []SafeTypeOK
<1>1. SafeInit => SafeShape
  BY DEF SafeInit, SafeShape, SafeTypeOK, SafeIdle, SafeFields
<1>2. SafeShape /\ [SafeNext]_safeVars => SafeShape'
  <2> SUFFICES ASSUME SafeShape, [SafeNext]_safeVars PROVE SafeShape'
    OBVIOUS
  <2>1. CASE UNCHANGED safeVars
    BY <2>1 DEF safeVars, SafeShape, SafeTypeOK
  <2>2. CASE Probes
    <3>1. PICK opt \in SafeOptions, reply \in ProbeAnswers, phase \in {"error", "passthrough", "blocked", "offered"} :
            safe' = [[safe EXCEPT !.opt = <<opt>>, !.probe = <<reply>>,
                                  !.requests = IF reply.kind = "throws" THEN 0 ELSE 1] EXCEPT !.phase = phase]
      BY <2>2 DEF Probes
    <3> DEFINE requests == IF reply.kind = "throws" THEN 0 ELSE 1
    <3>2. requests \in 0 .. 2
      OBVIOUS
    <3> HIDE DEF requests
    <3>3. /\ safe' = [f \in SafeFields |-> safe'[f]] /\ safe'.phase = phase /\ safe'.requests = requests
      BY <3>1 DEF SafeShape, SafeFields, requests
    <3>4. QED
      BY <3>2, <3>3 DEF SafeShape, SafeTypeOK
  <2>3. CASE Preflighted
    <3>1. PICK preflight \in Preflights, lookup \in Lookups :
            LET approved == ApprovePayment(Context(ScoredOffer), safe.opt[1].cfg, preflight, lookup).approved
            IN safe' = [safe EXCEPT !.asked = <<[preflight |-> preflight, lookup |-> lookup]>>,
                 !.phase = IF ~approved THEN "blocked"
                           ELSE IF safe.opt[1].dryRun THEN "dry_run_allowed"
                           ELSE "paying"]
      BY <2>3 DEF Preflighted
    <3> DEFINE phase == IF ~ApprovePayment(Context(ScoredOffer), safe.opt[1].cfg, preflight, lookup).approved THEN "blocked"
                        ELSE IF safe.opt[1].dryRun THEN "dry_run_allowed"
                        ELSE "paying"
    <3>9. phase \in {"blocked", "dry_run_allowed", "paying"}
      OBVIOUS
    <3>8. safe' = [safe EXCEPT !.asked = <<[preflight |-> preflight, lookup |-> lookup]>>, !.phase = phase]
      BY <3>1
    <3> HIDE DEF phase
    <3>2. /\ safe' = [f \in SafeFields |-> safe'[f]] /\ safe'.phase = phase /\ safe'.requests = safe.requests
      BY <3>8 DEF SafeShape, SafeFields
    <3>3. QED
      BY <3>2, <3>9 DEF SafeShape, SafeTypeOK
  <2>4. CASE PayerRuns
    <3>1. /\ safe' = [f \in SafeFields |-> safe'[f]] /\ safe'.phase \in {"payer_failed", "delivered"}
          /\ safe'.requests = 2
      BY <2>4 DEF PayerRuns, SafeShape, SafeFields
    <3>2. QED
      BY <3>1 DEF SafeShape, SafeTypeOK
  <2>5. CASE Captured
    <3>1. /\ safe' = [f \in SafeFields |-> safe'[f]] /\ safe'.phase = "paid" /\ safe'.requests = safe.requests
      BY <2>5 DEF Captured, SafeShape, SafeFields
    <3>2. QED
      BY <3>1 DEF SafeShape, SafeTypeOK
  <2>6. QED
    BY <2>1, <2>2, <2>3, <2>4, <2>5 DEF SafeNext
<1>3. QED
  BY <1>1, <1>2, PTL DEF SafeSpec, SafeShape

-----------------------------------------------------------------------------
\* A charge has one row at most, which is queued, written or lost.
OneRow(rows) == \E row : rows = <<row>>

ChargeShape ==
  /\ mpp = [f \in MppFields |-> mpp[f]]
  /\ \/ mpp.at \in {"idle", "intent"} /\ mpp.queued = <<>> /\ mpp.log = <<>>
     \/ mpp.at \in {"clearing", "refusing"} /\ OneRow(mpp.queued) /\ mpp.log = <<>>
     \/ mpp.at \in {"cleared", "refused", "paid", "lost"} /\ mpp.queued = <<>> /\ (mpp.log = <<>> \/ OneRow(mpp.log))

(* What is persisted is the one row of the charge. *)
LEMMA PersistsInShape ==
  ASSUME NEW start, start = [f \in MppFields |-> start[f]], start.queued = <<>>, start.log = <<>>,
         NEW outcome, NEW input, NEW next \in {"clearing", "refusing"}, Persists(start, outcome, input, next)
  PROVE  ChargeShape'
<1>1. mpp' = [start EXCEPT !.at = next, !.queued = Append(start.queued, Row(outcome, input))]
  BY DEF Persists, Queues
<1>2. /\ mpp'.at = next /\ mpp'.queued = <<Row(outcome, input)>> /\ mpp' = [f \in MppFields |-> mpp'[f]]
      /\ mpp'.log = <<>>
  BY <1>1, QueuedIs
<1>3. QED
  BY <1>2 DEF ChargeShape, OneRow

(* One row is queued or logged of a charge, never one of each. *)
LEMMA MppShaped == MppSpec => []MppTypeOK
<1>1. MppInit => ChargeShape
  BY DEF MppInit, ChargeShape, MppIdle, MppFields
<1>2. ChargeShape /\ [MppNext]_mppVars => ChargeShape'
  <2> SUFFICES ASSUME ChargeShape, [MppNext]_mppVars PROVE ChargeShape'
    OBVIOUS
  <2>1. CASE UNCHANGED mppVars
    BY <2>1 DEF mppVars, ChargeShape, OneRow
  <2>2. CASE Normalizes
    <3>1. PICK ch \in Challenges, opt \in MppOptions :
            LET m == [mpp EXCEPT !.ch = <<ch>>, !.opt = <<opt>>]
            IN \/ mpp' = [m EXCEPT !.at = "intent", !.intent = <<IntentOf(ch)>>]
               \/ Persists(m, "warn", None, "clearing") \/ Persists(m, "block", None, "refusing")
      BY <2>2 DEF Normalizes
    <3> DEFINE m == [mpp EXCEPT !.ch = <<ch>>, !.opt = <<opt>>]
    <3>2. m = [f \in MppFields |-> m[f]] /\ m.queued = <<>> /\ m.log = <<>>
      BY <2>2 DEF Normalizes, ChargeShape, MppFields
    <3>3. \/ mpp' = [m EXCEPT !.at = "intent", !.intent = <<IntentOf(ch)>>]
          \/ Persists(m, "warn", None, "clearing") \/ Persists(m, "block", None, "refusing")
      BY <3>1
    <3> HIDE DEF m
    <3>4. ASSUME mpp' = [m EXCEPT !.at = "intent", !.intent = <<IntentOf(ch)>>] PROVE ChargeShape'
      <4>1. /\ mpp' = [f \in MppFields |-> mpp'[f]] /\ mpp'.at = "intent" /\ mpp'.queued = <<>> /\ mpp'.log = <<>>
        BY <3>2, <3>4 DEF MppFields
      <4>2. QED
        BY <4>1 DEF ChargeShape
    <3>5. QED
      BY <3>2, <3>3, <3>4, PersistsInShape
  <2>3. CASE EvaluatesCharge
    <3>1. mpp = [f \in MppFields |-> mpp[f]] /\ mpp.queued = <<>> /\ mpp.log = <<>>
      BY <2>3 DEF EvaluatesCharge, ChargeShape
    <3>2. CASE Persists(mpp, "error", mpp.intent, "refusing")
      BY <3>1, <3>2, PersistsInShape
    <3>3. ASSUME NEW decided, Decides(decided) PROVE ChargeShape'
      <4> DEFINE m == [mpp EXCEPT !.verdict = <<decided>>]
      <4>1. m = [f \in MppFields |-> m[f]] /\ m.queued = <<>> /\ m.log = <<>>
        BY <3>1 DEF MppFields
      <4>2. \E outcome : \E next \in {"clearing", "refusing"} : Persists(m, outcome, mpp.intent, next)
        BY <3>3 DEF Decides
      <4> HIDE DEF m
      <4>3. QED
        BY <4>1, <4>2, PersistsInShape
    <3>4. QED
      BY <2>3, <3>2, <3>3 DEF EvaluatesCharge
  <2>4. CASE Flushes
    <3>1. PICK row : mpp.queued = <<row>>
      BY <2>4 DEF Flushes, ChargeShape, OneRow
    <3>2. /\ mpp' = [f \in MppFields |-> mpp'[f]] /\ mpp'.at \in {"cleared", "refused"}
          /\ mpp'.queued = <<>> /\ mpp'.log = <<>> \o <<row>>
      BY <2>4, <3>1 DEF Flushes, ChargeShape, MppFields
    <3>3. <<>> \o <<row>> = <<row>>
      OBVIOUS
    <3>4. QED
      BY <3>2, <3>3 DEF ChargeShape, OneRow
  <2>5. CASE FlushFails
    <3>1. /\ mpp' = [f \in MppFields |-> mpp'[f]] /\ mpp'.at = "refused"
          /\ mpp'.queued = <<>> /\ mpp'.log = <<>>
      BY <2>5 DEF FlushFails, ChargeShape, MppFields
    <3>2. QED
      BY <3>1 DEF ChargeShape
  <2>6. CASE CreatesCredential
    <3>1. /\ mpp' = [f \in MppFields |-> mpp'[f]] /\ mpp'.at = "paid"
          /\ mpp'.queued = <<>> /\ mpp'.log = mpp.log /\ (mpp.log = <<>> \/ OneRow(mpp.log))
      BY <2>6 DEF CreatesCredential, ChargeShape, MppFields
    <3>2. QED
      BY <3>1 DEF ChargeShape, OneRow
  <2>7. CASE MppCrash
    <3>1. /\ mpp' = [f \in MppFields |-> mpp'[f]] /\ mpp'.at \in {"paid", "lost"}
          /\ mpp'.queued = <<>> /\ mpp'.log = mpp.log /\ (mpp.log = <<>> \/ OneRow(mpp.log))
      BY <2>7 DEF MppCrash, ChargeShape, MppFields
    <3>2. QED
      BY <3>1 DEF ChargeShape, OneRow
  <2>8. QED
    BY <2>1, <2>2, <2>3, <2>4, <2>5, <2>6, <2>7 DEF MppNext
<1>3. ChargeShape => MppTypeOK
  <2> SUFFICES ASSUME ChargeShape PROVE MppTypeOK
    OBVIOUS
  <2>1. Len(<<>>) = 0 /\ \A row : Len(<<row>>) = 1
    OBVIOUS
  <2>2. /\ Len(mpp.queued) \in {0, 1} /\ Len(mpp.log) \in {0, 1}
        /\ Len(mpp.queued) = 0 \/ Len(mpp.log) = 0
    BY <2>1 DEF ChargeShape, OneRow
  <2>3. mpp.at \in {"idle", "intent", "clearing", "refusing", "cleared", "refused", "paid", "lost"}
    BY DEF ChargeShape
  <2>4. Len(mpp.queued) + Len(mpp.log) <= 1
    <3>1. \A a, b \in {0, 1} : a = 0 \/ b = 0 => a + b <= 1
      OBVIOUS
    <3>2. QED
      BY ONLY <2>2, <3>1
  <2>5. QED
    BY <2>3, <2>4 DEF MppTypeOK
<1>4. QED
  BY <1>1, <1>2, <1>3, PTL DEF MppSpec

\* A clearance that the hook holds is signed with the issuer's key.
GateShape ==
  /\ HookInv
  /\ gate.req \in Reqs \cup {NoOffer}
  /\ gate.clearance = None \/ gate.clearance[1].sig.by = IssuerKey

SameClearance == gate'.req = gate.req /\ gate'.clearance = gate.clearance

(* Only the clearance step puts a record beside the entry, and it puts one that
   it verified. *)
LEMMA GateKeepsShape == ASSUME GateShape, GateNext, HookInv' PROVE GateShape'
<1>1. gate = [f \in HookFields |-> gate[f]]
  BY DEF GateShape, HookInv
<1>2. CASE SameClearance
  BY <1>2 DEF GateShape, SameClearance
<1>3. \A hop : /\ Bought(hop) = [f \in HookFields |-> Bought(hop)[f]]
               /\ Bought(hop).req = gate.req /\ Bought(hop).clearance = gate.clearance
  BY <1>1 DEF Bought, HookFields
<1>4. \A g, at : g = [f \in HookFields |-> g[f]] /\ gate' = [g EXCEPT !.at = at] =>
                   gate'.req = g.req /\ gate'.clearance = g.clearance
  BY DEF HookFields
<1>5. CASE Opens
  <2>1. PICK req \in Reqs, opt \in HookOptions :
          LET g == [gate EXCEPT !.req = req, !.opt = <<opt>>]
          IN IF Conflicted(req) THEN Aborts(g) ELSE gate' = [g EXCEPT !.at = "opened"]
    BY <1>5 DEF Opens
  <2> DEFINE g == [gate EXCEPT !.req = req, !.opt = <<opt>>]
  <2>2. g = [f \in HookFields |-> g[f]] /\ g.req = req /\ g.clearance = None
    BY <1>1, <1>5 DEF Opens, GateIdle, HookFields
  <2>3. \E at : gate' = [g EXCEPT !.at = at]
    BY <2>1 DEF Aborts
  <2> HIDE DEF g
  <2>4. gate'.req = req /\ gate'.clearance = None
    BY <1>4, <2>2, <2>3
  <2>5. QED
    BY <2>4 DEF GateShape
<1>6. CASE Approves
  <2>1. SameClearance
    BY <1>1, <1>6 DEF Approves, SameClearance, HookFields
  <2>2. QED
    BY <1>2, <2>1
<1>7. CASE Controls
  <2>1. CASE Aborts(gate)
    BY <1>1, <1>2, <1>4, <2>1 DEF Aborts, SameClearance
  <2>2. ASSUME NEW spent, NEW at, gate' = [[gate EXCEPT !.spent = spent] EXCEPT !.at = at] PROVE GateShape'
    <3>1. SameClearance
      BY <1>1, <2>2 DEF SameClearance, HookFields
    <3>2. QED
      BY <1>2, <3>1
  <2>3. QED
    BY <1>7, <2>1, <2>2 DEF Controls, Aborts
<1>8. CASE Clearance
  <2> DEFINE policy == Opt.clearance[1]
  <2>1. Chosen
    BY <1>8 DEF Clearance, GateShape, HookInv, HookStage, GateIdle, Taken
  <2>2. ASSUME Opt.clearance # None, NEW g, g = [f \in HookFields |-> g[f]],
               g.req = gate.req, g.clearance = gate.clearance,
               Missed(policy, g) \/ \E rec : Cleared(policy, g, rec)
        PROVE  GateShape'
    <3>1. ASSUME NEW rec, Clears(policy, rec), gate' = [g EXCEPT !.at = "cleared", !.clearance = <<rec>>]
          PROVE  GateShape'
      <4>1. gate'.req = gate.req /\ gate'.clearance[1] = rec
        BY <2>2, <3>1 DEF HookFields
      <4>2. rec.sig = RecordFor(gate.req, rec.decision, rec.reason, rec.expires_at, None, "issuer", IssuerKey).sig
        BY <2>1, <2>2, <3>1, ClearsIsIssued
      <4>3. rec.sig.by = IssuerKey
        BY <4>2 DEF RecordFor
      <4>4. QED
        BY <4>1, <4>3 DEF GateShape
    <3>2. ASSUME NEW at, gate' = [g EXCEPT !.at = at] PROVE GateShape'
      BY <1>2, <1>4, <2>2, <3>2 DEF SameClearance
    <3> HIDE DEF policy
    <3>3. QED
      BY <2>2, <3>1, <3>2 DEF Missed, Cleared, Aborts
  <2>3. CASE Opt.clearance = None
    BY <1>1, <1>2, <1>4, <1>8, <2>3 DEF Clearance, SameClearance
  <2>4. CASE Opt.clearance # None
    <3>1. \/ Missed(policy, gate) \/ \E rec : Cleared(policy, gate, rec)
          \/ Missed(policy, Bought("clearance")) \/ \E rec : Cleared(policy, Bought("clearance"), rec)
      BY <1>8, <2>4 DEF Clearance
    <3> HIDE DEF policy
    <3>2. QED
      BY <1>1, <1>3, <2>2, <2>4, <3>1
  <2>5. QED
    BY <2>3, <2>4
<1>9. CASE Quick \/ Receipt
  <2>1. \/ Aborts(gate) \/ Proceeds(gate)
        \/ \E hop : \/ Aborts(Bought(hop)) \/ Proceeds(Bought(hop))
                    \/ Proceeds([Bought(hop) EXCEPT !.receipt = TRUE])
    BY <1>9 DEF Quick, Receipt, ReceiptMissed
  <2>2. CASE Aborts(gate) \/ Proceeds(gate)
    BY <1>1, <1>2, <1>4, <2>2 DEF Aborts, Proceeds, SameClearance
  <2>3. ASSUME NEW hop, Aborts(Bought(hop)) \/ Proceeds(Bought(hop)) PROVE GateShape'
    BY <1>2, <1>3, <1>4, <2>3 DEF Aborts, Proceeds, SameClearance
  <2>4. ASSUME NEW hop, Proceeds([Bought(hop) EXCEPT !.receipt = TRUE]) PROVE GateShape'
    <3> DEFINE g == [Bought(hop) EXCEPT !.receipt = TRUE]
    <3>1. g = [f \in HookFields |-> g[f]] /\ g.req = gate.req /\ g.clearance = gate.clearance
      BY <1>3 DEF HookFields
    <3> HIDE DEF g
    <3>2. QED
      BY <1>2, <1>4, <2>4, <3>1 DEF Proceeds, SameClearance, g
  <2>5. QED
    BY <2>1, <2>2, <2>3, <2>4
<1>10. QED
  BY <1>5, <1>6, <1>7, <1>8, <1>9 DEF GateNext

(* The hook buys two things at most, and clears on the issuer's word alone. *)
LEMMA GateShaped == GateSpec => []GateTypeOK
<1>1. GateInit => GateShape
  BY DEF GateInit, GateShape, HookInv, HookStage, GateIdle, HookFields
<1>2. GateShape /\ HookInv' /\ [GateNext]_gateVars => GateShape'
  BY GateKeepsShape DEF gateVars, GateShape
<1>3. GateShape => GateTypeOK
  <2> SUFFICES ASSUME GateShape PROVE GateTypeOK
    OBVIOUS
  <2>1. gate.at \in {"idle", "opened", "approved", "free", "cleared", "proceed", "abort"}
    BY DEF GateShape, HookInv, HookStage, GateIdle
  <2>2. PICK hops \in {<<>>, <<"clearance">>} :
          gate.hops = hops \/ \E hop \in AdviceHops : gate.hops = Append(hops, hop)
    BY DEF GateShape, HookInv, HookStage, HookHops, GateIdle
  <2>3. \A first, second : Len(<<>>) <= 2 /\ Len(<<first>>) <= 2 /\ Len(<<first, second>>) <= 2
    OBVIOUS
  <2>4. Len(gate.hops) <= 2
    <3>1. CASE gate.hops = hops
      BY ONLY <2>2, <2>3, <3>1
    <3>2. ASSUME NEW hop, gate.hops = Append(hops, hop) PROVE Len(gate.hops) <= 2
      <4>1. CASE hops = <<>>
        <5>1. gate.hops = <<hop>>
          BY ONLY <3>2, <4>1, FirstReport
        <5>2. QED
          BY ONLY <2>3, <5>1
      <4>2. CASE hops = <<"clearance">>
        <5>1. gate.hops = <<"clearance", hop>>
          BY ONLY <3>2, <4>2, AppendedPair
        <5>2. QED
          BY ONLY <2>3, <5>1
      <4>3. QED
        BY ONLY <2>2, <4>1, <4>2
    <3>3. QED
      BY <2>2, <3>1, <3>2
  <2>5. QED
    BY <2>1, <2>4 DEF GateShape, GateTypeOK
<1>4. QED
  BY <1>1, <1>2, <1>3, HookInvariance, PTL DEF GateSpec

(* The wallet's clock, ledger and calls. *)
LEMMA DeskShaped == DeskSpec => []DeskTypeOK
<1>1. DeskInv => DeskTypeOK
  BY DEF DeskInv, DeskTypes, DeskTypeOK, LedgerStates, CallStates
<1>2. QED
  BY <1>1, DeskInvariance, PTL

\* An answer is filed by the step that ends the call.
FiledOne(w) == \E merchant : w.observed = <<merchant>>

WrapShape ==
  /\ WrapInv
  /\ wrap.observed = <<>> \/ (wrap.at = "done" /\ FiledOne(wrap))

(* The step that ends a call files its answer at most. *)
LEMMA EndedFilesOnce ==
  ASSUME WrapShape, wrap.at # "done", NEW good, wrap' = Ended(wrap, good)
  PROVE  wrap'.observed = <<>> \/ (wrap'.at = "done" /\ FiledOne(wrap'))
<1>1. wrap = [f \in WrapFields |-> wrap[f]] /\ wrap.observed = <<>>
  BY DEF WrapShape, WrapInv
<1>2. CASE wrap.leg = "route"
  <2>1. wrap' = FreshLeg(wrap, "destination")
    BY <1>2 DEF Ended
  <2>2. wrap'.observed = wrap.observed
    BY ONLY <1>1, <2>1 DEF FreshLeg, WrapFields
  <2>3. QED
    BY <1>1, <2>2
<1>3. CASE wrap.leg # "route"
  <2>1. wrap' = [Files(wrap, good) EXCEPT !.at = "done"]
    BY <1>3 DEF Ended
  <2>2. CASE Files(wrap, good) = wrap
    <3>1. wrap' = [wrap EXCEPT !.at = "done"]
      BY <2>1, <2>2
    <3>2. wrap'.observed = wrap.observed
      BY ONLY <1>1, <3>1 DEF WrapFields
    <3>3. QED
      BY <1>1, <3>2
  <2>3. ASSUME NEW merchant, Files(wrap, good) = [wrap EXCEPT !.observed = Append(@, merchant)]
        PROVE  wrap'.at = "done" /\ wrap'.observed = <<merchant>>
    <3>1. wrap'.at = "done" /\ wrap'.observed = Append(<<>>, merchant)
      BY <1>1, <2>1, <2>3 DEF WrapFields
    <3>2. QED
      BY <3>1, FirstReport
  <2>4. ASSUME NEW merchant, Files(wrap, good) = [wrap EXCEPT !.observed = Append(@, merchant)]
        PROVE  wrap'.at = "done" /\ FiledOne(wrap')
    BY <2>3, <2>4 DEF FiledOne
  <2>5. QED
    BY <2>2, <2>4 DEF Files
<1>4. QED
  BY <1>2, <1>3

(* A wrapped fetch is where the code can be, and files one answer. *)
LEMMA WrapShaped == WrapSpec => []WrapTypeOK
<1>1. WrapInit /\ WrapInv => WrapShape
  <2>1. WrapInit => wrap.observed = <<>>
    BY DEF WrapInit, WrapIdle
  <2>2. QED
    BY <2>1 DEF WrapShape
<1>2. WrapShape /\ WrapInv' /\ [WrapNext]_wrapVars => WrapShape'
  <2> SUFFICES ASSUME WrapShape, WrapInv', [WrapNext]_wrapVars PROVE WrapShape'
    OBVIOUS
  <2>1. wrap = [f \in WrapFields |-> wrap[f]]
    BY DEF WrapShape, WrapInv
  <2>2. ASSUME wrap'.observed = wrap.observed, wrap.at # "done" PROVE WrapShape'
    BY <2>2 DEF WrapShape
  <2>3. CASE UNCHANGED wrapVars
    BY <2>3 DEF WrapShape, wrapVars
  <2>4. CASE Begins
    BY <2>1, <2>2, <2>4 DEF Begins, WrapIdle, WrapFields
  <2>5. CASE AskedFreely
    BY <2>5, EndedFilesOnce DEF AskedFreely, WrapShape
  <2>6. CASE AskedOffers
    BY <2>1, <2>2, <2>6 DEF AskedOffers, RefusedBy, WrapFields
  <2>7. CASE Screens1
    BY <2>1, <2>2, <2>7 DEF Screens1, RefusedBy, WrapFields
  <2>8. CASE ClientPays
    BY <2>1, <2>2, <2>8 DEF ClientPays, WrapFields
  <2>9. CASE AnotherCall
    BY <2>1, <2>2, <2>9 DEF AnotherCall, WrapFields
  <2>10. CASE PaidFor \/ ClientReturns
    BY <2>10, EndedFilesOnce DEF PaidFor, ClientReturns, WrapShape
  <2>11. CASE Breaks
    BY <2>1, <2>2, <2>11 DEF Breaks, FailedOn, FreshLeg, WrapFields
  <2>12. QED
    BY <2>3, <2>4, <2>5, <2>6, <2>7, <2>8, <2>9, <2>10, <2>11 DEF WrapNext
<1>3. WrapShape => WrapTypeOK
  <2> SUFFICES ASSUME WrapShape PROVE WrapTypeOK
    OBVIOUS
  <2>1. \A merchant : Len(<<>>) <= 1 /\ Len(<<merchant>>) <= 1
    OBVIOUS
  <2>2. Len(wrap.observed) <= 1
    BY <2>1 DEF WrapShape, FiledOne
  <2>3. QED
    BY <2>2 DEF WrapShape, WrapInv, WrapTypeOK, Legs
<1>4. QED
  BY <1>1, <1>2, <1>3, WrapInvariance, PTL DEF WrapSpec

\* What a command has answered is of its kind.
CommandShape ==
  /\ command = [f \in CommandFields |-> command[f]]
  /\ command.at \in {"idle", "asked", "inclusion", "consistency", "equivocation", "anchor"}
  /\ command.convicts => command.at = "equivocation" /\ Len(command.heads) = 2

(* A head is convicted by the command on equivocation, whose two heads passed. *)
LEMMA CommandShaped == CommandSpec => []CommandTypeOK
<1>1. CommandInit => CommandShape
  BY DEF CommandInit, CommandIdle, CommandShape, CommandFields
<1>2. CommandShape /\ [CommandNext]_commandVars => CommandShape'
  <2> SUFFICES ASSUME CommandShape, [CommandNext]_commandVars PROVE CommandShape'
    OBVIOUS
  <2>1. CASE UNCHANGED commandVars
    BY <2>1 DEF CommandShape, commandVars
  <2>2. ASSUME NEW kind \in {"inclusion", "consistency", "anchor"}, NEW heads, NEW ok, ~command.convicts,
               Exits(kind, heads, ok)
        PROVE  CommandShape'
    BY <2>2 DEF Exits, CommandShape, CommandFields
  <2>3. command = CommandIdle => ~command.convicts
    BY DEF CommandIdle
  <2>4. CASE Inclusion
    BY <2>2, <2>3, <2>4 DEF Inclusion, CommandShape, CommandFields
  <2>5. CASE Consistency
    BY <2>2, <2>3, <2>5 DEF Consistency
  <2>6. CASE Equivocation
    <3>1. PICK a, b \in CommandHeads, path \in {None} \cup {<<p>> : p \in CommandPaths} :
            LET checked == /\ ValidHead(a, CommandTrust) /\ ValidHead(b, CommandTrust)
                           /\ \/ a.log_id # b.log_id \/ a.tree_size = b.tree_size \/ path = None
                              \/ ProvesExtension(a, b, CommandTrust, path)
            IN command' = [command EXCEPT !.at = "equivocation", !.heads = IF checked THEN <<a, b>> ELSE <<>>,
                             !.convicts = Convicts(a, b, CommandTrust, path)]
      BY <2>6 DEF Equivocation
    <3> DEFINE checked == /\ ValidHead(a, CommandTrust) /\ ValidHead(b, CommandTrust)
                          /\ \/ a.log_id # b.log_id \/ a.tree_size = b.tree_size \/ path = None
                             \/ ProvesExtension(a, b, CommandTrust, path)
               heads == IF checked THEN <<a, b>> ELSE <<>>
    <3>2. Convicts(a, b, CommandTrust, path) => checked
      BY DEF Convicts
    <3>3. checked => Len(heads) = 2
      OBVIOUS
    <3>4. command' = [command EXCEPT !.at = "equivocation", !.heads = heads,
                        !.convicts = Convicts(a, b, CommandTrust, path)]
      BY <3>1
    <3> HIDE DEF heads, checked
    <3>5. QED
      BY <3>2, <3>3, <3>4 DEF CommandShape, CommandFields
  <2>7. CASE AsksRpc
    BY <2>3, <2>7 DEF AsksRpc, CommandShape, CommandFields
  <2>8. CASE Anchor
    BY <2>2, <2>8 DEF Anchor, CommandShape
  <2>9. QED
    BY <2>1, <2>4, <2>5, <2>6, <2>7, <2>8 DEF CommandNext
<1>3. CommandShape => CommandTypeOK
  BY DEF CommandShape, CommandTypeOK
<1>4. QED
  BY <1>1, <1>2, <1>3, PTL DEF CommandSpec

\* A bundle that is verified has a report, and no other has.
EvidenceShape ==
  /\ evidence = [f \in EvidenceFields |-> evidence[f]]
  /\ EvidenceTypeOK

(* A bundle is edited at most as often as the bound says, and verified once. *)
LEMMA EvidenceShaped == EvidenceSpec => []EvidenceTypeOK
<1>1. EvidenceInit => EvidenceShape
  BY DEF EvidenceInit, EvidenceIdle, EvidenceShape, EvidenceTypeOK, EvidenceFields, MaxEdits
<1>2. EvidenceShape /\ [EvidenceNext]_evidenceVars => EvidenceShape'
  <2> SUFFICES ASSUME EvidenceShape, [EvidenceNext]_evidenceVars PROVE EvidenceShape'
    OBVIOUS
  <2>1. evidence = [f \in EvidenceFields |-> evidence[f]] /\ EvidenceTypeOK
    BY DEF EvidenceShape
  <2>2. ASSUME /\ evidence' = [f \in EvidenceFields |-> evidence'[f]]
               /\ evidence'.at = "verified" /\ evidence.at = "published" /\ evidence'.report # None
               /\ evidence'.edits = evidence.edits
        PROVE  EvidenceShape'
    BY <2>1, <2>2 DEF EvidenceShape, EvidenceTypeOK
  <2>3. ASSUME /\ evidence' = [f \in EvidenceFields |-> evidence'[f]]
               /\ evidence'.at \in {"attested", "published"} /\ evidence.at # "verified"
               /\ evidence'.report = evidence.report /\ evidence'.edits \in 0 .. MaxEdits
        PROVE  EvidenceShape'
    BY <2>1, <2>3 DEF EvidenceShape, EvidenceTypeOK
  <2>4. CASE UNCHANGED evidenceVars
    BY <2>4 DEF EvidenceShape, EvidenceTypeOK, evidenceVars
  <2>5. CASE AttestsRefusal \/ AttestsOutcome
    <3>1. PICK signed : evidence = EvidenceIdle /\ evidence' = [evidence EXCEPT !.at = "attested", !.signed = signed]
      BY <2>5 DEF AttestsRefusal, AttestsOutcome
    <3>2. evidence.at = "idle"
      BY <3>1 DEF EvidenceIdle
    <3>3. /\ evidence' = [f \in EvidenceFields |-> evidence'[f]] /\ evidence'.at = "attested"
          /\ evidence'.report = evidence.report /\ evidence'.edits = evidence.edits
      BY ONLY <2>1, <3>1 DEF EvidenceFields
    <3>4. QED
      BY <2>1, <2>3, <3>2, <3>3 DEF EvidenceTypeOK
  <2>6. CASE Exports
    <3>1. PICK input, bundle :
            evidence' = [evidence EXCEPT !.at = "published", !.input = input, !.bundle = bundle]
      BY <2>6 DEF Exports
    <3>2. /\ evidence' = [f \in EvidenceFields |-> evidence'[f]] /\ evidence'.at = "published"
          /\ evidence'.report = evidence.report /\ evidence'.edits = evidence.edits
      BY ONLY <2>1, <3>1 DEF EvidenceFields
    <3>3. evidence.at # "verified"
      BY <2>6 DEF Exports
    <3>4. QED
      BY <2>1, <2>3, <3>2, <3>3 DEF EvidenceTypeOK
  <2>7. CASE Edits
    <3>1. PICK edit \in EvidenceEdits :
            evidence' = [evidence EXCEPT !.bundle[1][edit.field] = edit.value, !.edits = @ + 1]
      BY <2>7 DEF Edits
    <3>2. /\ evidence' = [f \in EvidenceFields |-> evidence'[f]] /\ evidence'.at = evidence.at
          /\ evidence'.report = evidence.report /\ evidence'.edits = evidence.edits + 1
      BY ONLY <2>1, <3>1 DEF EvidenceFields
    <3>3. evidence.at = "published" /\ evidence'.edits \in 0 .. MaxEdits
      <4>1. evidence.at = "published" /\ evidence.edits < 2 /\ evidence.edits \in 0 .. 2
        BY <2>1, <2>7 DEF Edits, EvidenceTypeOK, MaxEdits
      <4>2. QED
        BY ONLY <4>1, <3>2 DEF MaxEdits
    <3>4. QED
      BY <2>3, <3>2, <3>3
  <2>8. CASE Verifies
    <3>1. PICK report : evidence' = [evidence EXCEPT !.at = "verified", !.report = <<report>>]
      BY <2>8 DEF Verifies
    <3>2. /\ evidence' = [f \in EvidenceFields |-> evidence'[f]] /\ evidence'.at = "verified"
          /\ evidence'.report = <<report>> /\ evidence'.edits = evidence.edits
      BY ONLY <2>1, <3>1 DEF EvidenceFields
    <3>3. evidence'.report # None
      BY <3>2 DEF None
    <3>4. QED
      BY <2>2, <2>8, <3>2, <3>3 DEF Verifies
  <2>9. QED
    BY <2>4, <2>5, <2>6, <2>7, <2>8 DEF EvidenceNext
<1>3. QED
  BY <1>1, <1>2, PTL DEF EvidenceSpec, EvidenceShape

CallStages == {"idle", "passed", "reading", "recorded", "swallowed"}

FulfilStages ==
  /\ \A c \in PaidCalls : fulfil.calls[c].at \in CallStages
  /\ fulfil.flush.at \in {"none", "waiting", "resolved", "rejected"}
  /\ fulfil.broken \in BOOLEAN

(* A paid call and the log's flush are where the code can be. *)
LEMMA FulfilShaped == FulfilSpec => []FulfilTypeOK
<1>1. FulfilInit => FulfilStages
  <2> SUFFICES ASSUME FulfilInit PROVE FulfilStages
    OBVIOUS
  <2>1. fulfil.broken = FALSE /\ fulfil.flush.at = "none"
    BY DEF FulfilInit, FulfilIdle
  <2>2. \A c \in PaidCalls : fulfil.calls[c].at = "idle"
    BY DEF FulfilInit, FulfilIdle, CallIdle
  <2>3. QED
    BY <2>1, <2>2 DEF FulfilStages, CallStages
<1>2. FulfilInv /\ FulfilStages /\ [FulfilNext]_fulfilVars => FulfilStages'
  <2> SUFFICES ASSUME FulfilInv, FulfilStages, [FulfilNext]_fulfilVars PROVE FulfilStages'
    OBVIOUS
  <2>1. /\ fulfil = [f \in FulfilFields |-> fulfil[f]]
        /\ fulfil.calls = [c \in PaidCalls |->
             [at |-> fulfil.calls[c].at, payment |-> fulfil.calls[c].payment,
              answer |-> fulfil.calls[c].answer, record |-> fulfil.calls[c].record]]
        /\ fulfil.flush = [at |-> fulfil.flush.at, rows |-> fulfil.flush.rows, behind |-> fulfil.flush.behind]
    BY DEF FulfilInv, FulfilShape
  <2>2. ASSUME fulfil'.calls = fulfil.calls, fulfil'.flush.at \in {fulfil.flush.at, "waiting", "resolved", "rejected"},
               fulfil'.broken \in {fulfil.broken, TRUE}
        PROVE  FulfilStages'
    BY <2>2 DEF FulfilStages
  <2>3. ASSUME NEW c \in PaidCalls, NEW call, call.at \in CallStages,
               fulfil'.calls = [fulfil.calls EXCEPT ![c] = call],
               fulfil'.flush = fulfil.flush, fulfil'.broken = fulfil.broken
        PROVE  FulfilStages'
    <3>1. ASSUME NEW d \in PaidCalls PROVE fulfil'.calls[d].at \in CallStages
      <4>1. fulfil'.calls[d] = IF d = c THEN call ELSE fulfil.calls[d]
        BY ONLY <2>1, <2>3, <3>1
      <4>2. QED
        BY <2>3, <4>1 DEF FulfilStages
    <3>2. QED
      BY <2>3, <3>1 DEF FulfilStages
  <2>4. ASSUME NEW c \in PaidCalls, PassesThrough(c) PROVE FulfilStages'
    <3> DEFINE call == [fulfil.calls[c] EXCEPT !.at = "passed"]
    <3>1. fulfil' = [fulfil EXCEPT !.calls = [@ EXCEPT ![c] = call]]
      BY <2>4 DEF PassesThrough
    <3>2. call.at \in CallStages
      BY <2>1, <2>4 DEF CallStages
    <3> HIDE DEF call
    <3>3. /\ fulfil'.calls = [fulfil.calls EXCEPT ![c] = call]
          /\ fulfil'.flush = fulfil.flush /\ fulfil'.broken = fulfil.broken
      BY ONLY <2>1, <3>1 DEF FulfilFields
    <3>4. QED
      BY <2>3, <2>4, <3>2, <3>3
  <2>5. ASSUME NEW c \in PaidCalls, PaidAnswer(c) PROVE FulfilStages'
    <3>1. PICK payment \in PaymentHeaders, reply \in CallAnswers :
            fulfil' = [fulfil EXCEPT !.calls[c] =
                         [@ EXCEPT !.at = "reading", !.payment = payment, !.answer = <<reply>>]]
      BY <2>5 DEF PaidAnswer
    <3> DEFINE call == [fulfil.calls[c] EXCEPT !.at = "reading", !.payment = payment, !.answer = <<reply>>]
    <3>2. fulfil' = [fulfil EXCEPT !.calls = [@ EXCEPT ![c] = call]]
      BY <3>1
    <3>3. call.at \in CallStages
      BY <2>1, <2>5 DEF CallStages
    <3> HIDE DEF call
    <3>4. /\ fulfil'.calls = [fulfil.calls EXCEPT ![c] = call]
          /\ fulfil'.flush = fulfil.flush /\ fulfil'.broken = fulfil.broken
      BY ONLY <2>1, <3>2 DEF FulfilFields
    <3>5. QED
      BY <2>3, <2>5, <3>3, <3>4
  <2>6. ASSUME NEW c \in PaidCalls, RecordThrows(c) PROVE FulfilStages'
    <3> DEFINE call == [fulfil.calls[c] EXCEPT !.at = "swallowed"]
    <3>1. fulfil' = [fulfil EXCEPT !.calls = [@ EXCEPT ![c] = call]]
      BY <2>6 DEF RecordThrows
    <3>2. call.at \in CallStages
      BY <2>1, <2>6 DEF CallStages
    <3> HIDE DEF call
    <3>3. /\ fulfil'.calls = [fulfil.calls EXCEPT ![c] = call]
          /\ fulfil'.flush = fulfil.flush /\ fulfil'.broken = fulfil.broken
      BY ONLY <2>1, <3>1 DEF FulfilFields
    <3>4. QED
      BY <2>3, <2>6, <3>2, <3>3
  <2>7. ASSUME NEW c \in PaidCalls, Recorded(c) PROVE FulfilStages'
    <3> DEFINE record == <<BuildRecord(fulfil.calls[c].payment, fulfil.calls[c].answer[1])>>
               call == [fulfil.calls[c] EXCEPT !.at = "recorded", !.record = record]
    <3>1. PICK recorded, pending :
            fulfil' = [fulfil EXCEPT !.calls[c].at = "recorded", !.calls[c].record = record,
                         !.recorded = recorded, !.pending = pending]
      BY <2>7 DEF Recorded
    <3> HIDE DEF record
    <3>2. call.at \in CallStages
      BY <2>1, <2>7 DEF CallStages
    <3>3. fulfil'.calls = [[fulfil.calls EXCEPT ![c].at = "recorded"] EXCEPT ![c].record = record]
      BY ONLY <2>1, <3>1 DEF FulfilFields
    <3>4. /\ fulfil'.calls = [fulfil.calls EXCEPT ![c] = call]
      BY ONLY <2>1, <2>7, <3>3
    <3>5. fulfil'.flush = fulfil.flush /\ fulfil'.broken = fulfil.broken
      BY ONLY <2>1, <3>1 DEF FulfilFields
    <3> HIDE DEF call
    <3>6. QED
      BY <2>3, <2>7, <3>2, <3>4, <3>5
  <2>8. /\ Batched(fulfil) = [f \in FulfilFields |-> Batched(fulfil)[f]]
        /\ Batched(fulfil).calls = fulfil.calls /\ Batched(fulfil).flush = fulfil.flush
        /\ Batched(fulfil).broken = fulfil.broken
    BY ONLY <2>1 DEF Batched, FulfilFields
  <2>9. CASE FlushTask
    BY <2>2, <2>8, <2>9 DEF FlushTask
  <2>10. CASE FlushAsked
    <3>1. PICK flush : flush.at = "waiting" /\ fulfil' = [Batched(fulfil) EXCEPT !.flush = flush]
      BY <2>10 DEF FlushAsked
    <3>2. fulfil'.calls = fulfil.calls /\ fulfil'.flush = flush /\ fulfil'.broken = fulfil.broken
      BY ONLY <2>8, <3>1 DEF FulfilFields
    <3>3. QED
      BY <2>2, <3>1, <3>2
  <2>11. /\ Advanced(fulfil) = [f \in FulfilFields |-> Advanced(fulfil)[f]]
         /\ Advanced(fulfil).calls = fulfil.calls /\ Advanced(fulfil).flush.at = fulfil.flush.at
         /\ Advanced(fulfil).broken = fulfil.broken
    BY ONLY <2>1 DEF Advanced, FulfilFields
  <2>12. CASE BatchWritten
    <3>1. PICK disk : fulfil' = [Advanced(fulfil) EXCEPT !.disk = disk]
      BY <2>12 DEF BatchWritten
    <3>2. fulfil'.calls = fulfil.calls /\ fulfil'.flush.at = fulfil.flush.at /\ fulfil'.broken = fulfil.broken
      BY ONLY <2>11, <3>1 DEF FulfilFields
    <3>3. QED
      BY <2>2, <3>2
  <2>13. CASE BatchFails
    <3>1. PICK disk : fulfil' = [Advanced(fulfil) EXCEPT !.disk = disk, !.broken = TRUE]
      BY <2>13 DEF BatchFails, Failed
    <3>2. fulfil'.calls = fulfil.calls /\ fulfil'.flush.at = fulfil.flush.at /\ fulfil'.broken = TRUE
      BY ONLY <2>11, <3>1 DEF FulfilFields
    <3>3. QED
      BY <2>2, <3>2
  <2>14. CASE BatchSkipped
    BY <2>2, <2>11, <2>14 DEF BatchSkipped
  <2>15. CASE FlushEnds
    <3>1. PICK at \in {"rejected", "resolved"} : fulfil' = [fulfil EXCEPT !.flush.at = at]
      BY <2>15 DEF FlushEnds
    <3>2. fulfil'.calls = fulfil.calls /\ fulfil'.flush.at = at /\ fulfil'.broken = fulfil.broken
      BY ONLY <2>1, <3>1 DEF FulfilFields
    <3>3. QED
      BY <2>2, <3>2
  <2>16. CASE UNCHANGED fulfilVars
    BY <2>2, <2>16 DEF fulfilVars
  <2>17. QED
    BY <2>4, <2>5, <2>6, <2>7, <2>9, <2>10, <2>12, <2>13, <2>14, <2>15, <2>16 DEF FulfilNext
<1>3. FulfilStages => FulfilTypeOK
  BY DEF FulfilStages, FulfilTypeOK, CallStages
<1>4. QED
  BY <1>1, <1>2, <1>3, FulfilInvariance, PTL DEF FulfilSpec

ColdStages ==
  /\ cold.at \in {"idle", "diet", "hop", "done"}
  /\ cold.inspected \in 0 .. HopInspectCap

(* What cold start writes keeps how many listings it inspected. *)
LEMMA WritesStages ==
  ASSUME NEW c, c = [f \in ColdFields |-> c[f]], c.inspected \in 0 .. HopInspectCap, Writes(c)
  PROVE  ColdStages'
<1>1. PICK policy, ok : cold' = [c EXCEPT !.at = "done", !.policy = policy, !.ok = ok]
  BY DEF Writes
<1>2. cold'.at = "done" /\ cold'.inspected = c.inspected
  BY ONLY c = [f \in ColdFields |-> c[f]], <1>1 DEF ColdFields
<1>3. QED
  BY <1>2 DEF ColdStages

(* Cold start inspects at most as many listings as its cap, and has no policy
   before it is done. *)
LEMMA ColdShaped == ColdSpec => []ColdTypeOK
<1>1. ColdInit => ColdStages
  BY HopInspectCapAssumption DEF ColdInit, ColdIdle, ColdStages
<1>2. ColdInv /\ ColdStages /\ [ColdNext]_coldVars => ColdStages'
  <2> SUFFICES ASSUME ColdInv, ColdStages, [ColdNext]_coldVars PROVE ColdStages'
    OBVIOUS
  <2>1. cold = [f \in ColdFields |-> cold[f]] /\ cold.inspected \in 0 .. HopInspectCap
    BY DEF ColdInv, ColdStages
  <2>2. ASSUME cold'.at \in {"diet", "hop"}, cold'.inspected = cold.inspected PROVE ColdStages'
    BY <2>1, <2>2 DEF ColdStages
  <2>3. CASE Starts
    <3>1. PICK cfg \in ColdConfigs, diet \in Diets, hop \in BOOLEAN :
            cold' = [cold EXCEPT !.at = "diet", !.cfg = <<cfg>>, !.diet = diet, !.hop = hop]
      BY <2>3 DEF Starts
    <3>2. cold'.at = "diet" /\ cold'.inspected = cold.inspected
      BY ONLY <2>1, <3>1 DEF ColdFields
    <3>3. QED
      BY <2>2, <3>2
  <2>4. CASE ConsidersDiet
    <3>1. PICK diet, rows : cold.at = "diet" /\ cold' = [cold EXCEPT !.diet = diet, !.rows = rows]
      BY <2>4 DEF ConsidersDiet
    <3>2. cold'.at = "diet" /\ cold'.inspected = cold.inspected
      BY ONLY <2>1, <3>1 DEF ColdFields
    <3>3. QED
      BY <2>2, <3>2
  <2>5. CASE SkipsHop
    BY <2>1, <2>5, WritesStages DEF SkipsHop
  <2>6. ASSUME NEW rows, Writes([cold EXCEPT !.rows = rows]) PROVE ColdStages'
    <3> DEFINE c == [cold EXCEPT !.rows = rows]
    <3>1. c = [f \in ColdFields |-> c[f]] /\ c.inspected = cold.inspected
      BY ONLY <2>1 DEF ColdFields
    <3>2. Writes(c)
      BY <2>6
    <3> HIDE DEF c
    <3>3. QED
      BY <2>1, <3>1, <3>2, WritesStages
  <2>7. CASE AsksDirectory
    <3>1. ASSUME NEW listings, cold' = [cold EXCEPT !.at = "hop", !.listings = listings] PROVE ColdStages'
      <4>1. cold'.at = "hop" /\ cold'.inspected = cold.inspected
        BY ONLY <2>1, <3>1 DEF ColdFields
      <4>2. QED
        BY <2>2, <4>1
    <3>2. QED
      BY <2>6, <2>7, <3>1 DEF AsksDirectory
  <2>8. CASE NoHop
    BY <2>6, <2>8 DEF NoHop
  <2>9. CASE Inspects
    <3> DEFINE rest == [cold EXCEPT !.listings = Tail(@)]
    <3>1. /\ rest = [f \in ColdFields |-> rest[f]] /\ rest.at = cold.at /\ rest.inspected = cold.inspected
      BY ONLY <2>1 DEF ColdFields
    <3>2. cold.at = "hop" /\ cold.inspected + 1 \in 0 .. HopInspectCap
      <4>1. cold.at = "hop" /\ cold.inspected < HopInspectCap
        BY <2>9 DEF Inspects
      <4>2. QED
        BY ONLY <2>1, <4>1, HopInspectCapAssumption
    <3>3. \/ cold' = rest
          \/ \E rows : Writes([rest EXCEPT !.inspected = @ + 1, !.rows = rows])
          \/ cold' = [rest EXCEPT !.inspected = @ + 1]
      <4>1. PICK row : \/ cold' = rest
                       \/ Writes([rest EXCEPT !.inspected = @ + 1, !.rows = Append(@, row)])
                       \/ cold' = [rest EXCEPT !.inspected = @ + 1]
        BY <2>9 DEF Inspects
      <4> HIDE DEF rest
      <4>2. QED
        BY <4>1
    <3> HIDE DEF rest
    <3>4. CASE cold' = rest
      BY <2>2, <3>1, <3>2, <3>4
    <3>5. CASE cold' = [rest EXCEPT !.inspected = @ + 1]
      <4>1. cold'.at = "hop" /\ cold'.inspected = cold.inspected + 1
        BY ONLY <3>1, <3>2, <3>5 DEF ColdFields
      <4>2. QED
        BY <3>2, <4>1 DEF ColdStages
    <3>6. ASSUME NEW rows, Writes([rest EXCEPT !.inspected = @ + 1, !.rows = rows]) PROVE ColdStages'
      <4> DEFINE c == [rest EXCEPT !.inspected = @ + 1, !.rows = rows]
      <4>1. c = [f \in ColdFields |-> c[f]] /\ c.inspected = cold.inspected + 1
        BY ONLY <3>1 DEF ColdFields
      <4>2. Writes(c)
        BY <3>6
      <4> HIDE DEF c
      <4>3. QED
        BY <3>2, <4>1, <4>2, WritesStages
    <3>7. QED
      BY <3>3, <3>4, <3>5, <3>6
  <2>10. CASE UNCHANGED coldVars
    BY <2>10 DEF coldVars, ColdStages
  <2>11. QED
    BY <2>3, <2>4, <2>5, <2>7, <2>8, <2>9, <2>10 DEF ColdNext
<1>3. ColdInv /\ ColdStages => ColdTypeOK
  BY DEF ColdInv, ColdStages, ColdTypeOK
<1>4. QED
  BY <1>1, <1>2, <1>3, ColdInvariance, PTL DEF ColdSpec

RoleOutcomes ==
  [role : ToSet(ROLE_ORDER), verdict : {"allow", "refuse", "hand_to_human"},
   checked : SUBSET RecordFields, skipped : SUBSET RecordFields]

(* A role answers with one of three verdicts, of fields that some role reads. *)
LEMMA OutcomeShaped ==
  ASSUME NEW record, NEW i \in Places
  PROVE  Outcome(ROLE_ORDER[i], record) \in RoleOutcomes
<1> DEFINE role == ROLE_ORDER[i]
           outcome == Outcome(role, record)
<1>1. (Required[role] \cup Observed(role)) \subseteq RecordFields
  BY RolesInOrder DEF RecordFields, Required, Places
<1>2. role \in ToSet(ROLE_ORDER)
  BY RolesInOrder DEF ToSet
<1>3. Present(role, record) \subseteq RecordFields /\ Untyped(role, record) \subseteq RecordFields
  BY <1>1 DEF Present, Untyped
<1> HIDE DEF role
<1>4. outcome.verdict \in {"allow", "refuse", "hand_to_human"} /\ outcome.role = role
  BY OutcomeIs
<1>5. outcome = [role |-> outcome.role, verdict |-> outcome.verdict, checked |-> outcome.checked,
                 skipped |-> outcome.skipped]
  BY DEF Outcome
<1>6. outcome.checked \subseteq RecordFields /\ outcome.skipped \subseteq RecordFields
  BY <1>1, <1>3 DEF Outcome
<1>7. QED
  BY ONLY <1>2, <1>4, <1>5, <1>6 DEF RoleOutcomes, role

CounselStages ==
  /\ counsel.record = None \/ counsel.record = <<counsel.record[1]>>
  /\ counsel.index \in 1 .. 8
  /\ counsel.checked \in Seq(RoleOutcomes)
  /\ counsel.skipped \subseteq ToSet(ROLE_ORDER)
  /\ counsel.authorized \in BOOLEAN

(* A fold that stops keeps the outcomes it has, and skips roles. *)
LEMMA StoppedShaped ==
  ASSUME NEW state, state = [f \in CounselFields |-> state[f]], NEW verdict, NEW role, NEW start
  PROVE  /\ Stopped(state, verdict, role, start) = [f \in CounselFields |-> Stopped(state, verdict, role, start)[f]]
         /\ Stopped(state, verdict, role, start).record = state.record
         /\ Stopped(state, verdict, role, start).index = state.index
         /\ Stopped(state, verdict, role, start).checked = state.checked
         /\ Stopped(state, verdict, role, start).authorized = state.authorized
         /\ Stopped(state, verdict, role, start).skipped \subseteq ToSet(ROLE_ORDER)
<1> DEFINE skipped == {ROLE_ORDER[n] : n \in {k \in DOMAIN ROLE_ORDER : k >= start}}
<1>1. skipped \subseteq ToSet(ROLE_ORDER)
  BY DEF ToSet
<1>2. Stopped(state, verdict, role, start) =
        [state EXCEPT !.at = verdict, !.refusing = <<role>>, !.skipped = skipped]
  BY DEF Stopped
<1> HIDE DEF skipped
<1>3. QED
  BY <1>1, <1>2 DEF CounselFields

(* The counsel fold reads an object, in its order, and answers in its terms. *)
LEMMA CounselShaped == CounselSpec => []CounselTypeOK
<1>1. CounselInit => CounselStages
  <2>1. <<>> \in Seq(RoleOutcomes)
    OBVIOUS
  <2>2. QED
    BY <2>1 DEF CounselInit, CounselIdle, CounselStages
<1>2. CounselInv /\ CounselStages /\ [CounselNext]_counselVars => CounselStages'
  <2> SUFFICES ASSUME CounselInv, CounselStages, [CounselNext]_counselVars PROVE CounselStages'
    OBVIOUS
  <2>1. counsel = [f \in CounselFields |-> counsel[f]]
    BY DEF CounselInv
  <2>2. CASE Asks
    <3>1. PICK case \in CounselCases :
            counsel' = IF case.record = None
                         THEN Stopped([CounselIdle EXCEPT !.record = case.record], "refuse", "input", 1)
                       ELSE IF ~Discovered(case.files)
                         THEN Stopped([CounselIdle EXCEPT !.record = case.record], "refuse", "discovery", 1)
                       ELSE [[CounselIdle EXCEPT !.record = case.record] EXCEPT !.at = "folding"]
      BY <2>2 DEF Asks
    <3> DEFINE state == [CounselIdle EXCEPT !.record = case.record]
    <3>2. /\ state = [f \in CounselFields |-> state[f]] /\ state.record = case.record /\ state.index = 1
          /\ state.checked = <<>> /\ state.skipped = {} /\ state.authorized = FALSE
      BY DEF CounselIdle, CounselFields
    <3>3. \/ \E role : counsel' = Stopped(state, "refuse", role, 1)
          \/ counsel' = [state EXCEPT !.at = "folding"]
      BY <3>1
    <3> HIDE DEF state
    <3>4. /\ counsel'.record = case.record /\ counsel'.index = 1 /\ counsel'.checked = <<>>
          /\ counsel'.skipped \subseteq ToSet(ROLE_ORDER) /\ counsel'.authorized = FALSE
      <4>1. CASE counsel' = [state EXCEPT !.at = "folding"]
        BY <3>2, <4>1 DEF CounselFields
      <4>2. ASSUME NEW role, counsel' = Stopped(state, "refuse", role, 1)
            PROVE  /\ counsel'.record = case.record /\ counsel'.index = 1 /\ counsel'.checked = <<>>
                   /\ counsel'.skipped \subseteq ToSet(ROLE_ORDER) /\ counsel'.authorized = FALSE
        BY <3>2, <4>2, StoppedShaped
      <4>3. QED
        BY <3>3, <4>1, <4>2
    <3>5. <<>> \in Seq(RoleOutcomes)
      OBVIOUS
    <3>6. case.record = None \/ case.record = <<case.record[1]>>
      BY CasesAssumption
    <3>7. QED
      <4>1. counsel'.record = None \/ counsel'.record = <<counsel'.record[1]>>
        BY ONLY <3>4, <3>6
      <4>2. counsel'.checked \in Seq(RoleOutcomes)
        BY ONLY <3>4, <3>5
      <4>3. counsel'.index \in 1 .. 8 /\ counsel'.authorized \in BOOLEAN
        <5>1. counsel'.index = 1 /\ counsel'.authorized = FALSE
          BY <3>4
        <5>2. counsel'.authorized \in BOOLEAN
          BY ONLY <5>1
        <5>3. counsel'.index \in 1 .. 8
          BY ONLY <5>1
        <5>4. QED
          BY <5>2, <5>3
      <4>4. QED
        BY <3>4, <4>1, <4>2, <4>3 DEF CounselStages
  <2>3. CASE RoleReads
    <3> DEFINE outcome == Outcome(ROLE_ORDER[counsel.index], counsel.record[1])
               state == [counsel EXCEPT !.checked = Append(@, outcome), !.index = @ + 1]
    <3>1. counsel.index \in Places
      BY <2>3, RolesInOrder DEF RoleReads
    <3>2. outcome \in RoleOutcomes
      BY <3>1, OutcomeShaped
    <3>3. \/ \E verdict, role, start : counsel' = Stopped(state, verdict, role, start)
          \/ \E handoff : counsel' = [state EXCEPT !.handoff = handoff]
          \/ counsel' = state
      BY <2>3 DEF RoleReads
    <3> HIDE DEF outcome
    <3>4. /\ state = [f \in CounselFields |-> state[f]] /\ state.record = counsel.record
          /\ state.index = counsel.index + 1 /\ state.checked = Append(counsel.checked, outcome)
          /\ state.skipped = counsel.skipped /\ state.authorized = counsel.authorized
      BY ONLY <2>1 DEF CounselFields
    <3> HIDE DEF state
    <3>5. /\ counsel'.record = counsel.record /\ counsel'.index = counsel.index + 1
          /\ counsel'.checked = Append(counsel.checked, outcome)
          /\ counsel'.skipped \subseteq ToSet(ROLE_ORDER) /\ counsel'.authorized = counsel.authorized
      <4>1. CASE counsel' = state
        BY <3>4, <4>1 DEF CounselStages
      <4>2. ASSUME NEW handoff, counsel' = [state EXCEPT !.handoff = handoff]
            PROVE  /\ counsel'.record = counsel.record /\ counsel'.index = counsel.index + 1
                   /\ counsel'.checked = Append(counsel.checked, outcome)
                   /\ counsel'.skipped \subseteq ToSet(ROLE_ORDER) /\ counsel'.authorized = counsel.authorized
        <5>1. /\ counsel'.record = state.record /\ counsel'.index = state.index /\ counsel'.checked = state.checked
              /\ counsel'.skipped = state.skipped /\ counsel'.authorized = state.authorized
          BY ONLY <3>4, <4>2 DEF CounselFields
        <5>2. QED
          BY <3>4, <5>1 DEF CounselStages
      <4>3. ASSUME NEW verdict, NEW role, NEW start, counsel' = Stopped(state, verdict, role, start)
            PROVE  /\ counsel'.record = counsel.record /\ counsel'.index = counsel.index + 1
                   /\ counsel'.checked = Append(counsel.checked, outcome)
                   /\ counsel'.skipped \subseteq ToSet(ROLE_ORDER) /\ counsel'.authorized = counsel.authorized
        BY <3>4, <4>3, StoppedShaped
      <4>4. QED
        BY <3>3, <4>1, <4>2, <4>3
    <3>6. Append(counsel.checked, outcome) \in Seq(RoleOutcomes)
      BY <3>2, AppendProperties DEF CounselStages
    <3>7. counsel.index + 1 \in 1 .. 8
      BY ONLY <3>1 DEF Places
    <3>8. QED
      BY <3>5, <3>6, <3>7 DEF CounselStages
  <2>4. CASE Concluded
    <3>1. \/ \E verdict, role, start : counsel' = Stopped(counsel, verdict, role, start)
          \/ counsel' = [counsel EXCEPT !.at = "allow", !.authorized = TRUE]
      BY <2>4 DEF Concluded
    <3>2. /\ counsel'.record = counsel.record /\ counsel'.index = counsel.index
          /\ counsel'.checked = counsel.checked /\ counsel'.skipped \subseteq ToSet(ROLE_ORDER)
          /\ counsel'.authorized \in {counsel.authorized, TRUE}
      <4>1. CASE counsel' = [counsel EXCEPT !.at = "allow", !.authorized = TRUE]
        <5>1. /\ counsel'.record = counsel.record /\ counsel'.index = counsel.index
              /\ counsel'.checked = counsel.checked /\ counsel'.skipped = counsel.skipped
              /\ counsel'.authorized = TRUE
          BY ONLY <2>1, <4>1 DEF CounselFields
        <5>2. QED
          BY <5>1 DEF CounselStages
      <4>2. ASSUME NEW verdict, NEW role, NEW start, counsel' = Stopped(counsel, verdict, role, start)
            PROVE  /\ counsel'.record = counsel.record /\ counsel'.index = counsel.index
                   /\ counsel'.checked = counsel.checked /\ counsel'.skipped \subseteq ToSet(ROLE_ORDER)
                   /\ counsel'.authorized \in {counsel.authorized, TRUE}
        <5>1. /\ counsel'.record = counsel.record /\ counsel'.index = counsel.index
              /\ counsel'.checked = counsel.checked /\ counsel'.skipped \subseteq ToSet(ROLE_ORDER)
              /\ counsel'.authorized = counsel.authorized
          BY <2>1, <4>2, StoppedShaped
        <5>2. QED
          BY <5>1
      <4>3. QED
        BY <3>1, <4>1, <4>2
    <3>3. QED
      BY <3>2 DEF CounselStages
  <2>5. CASE UNCHANGED counselVars
    BY <2>5 DEF counselVars, CounselStages
  <2>6. QED
    BY <2>2, <2>3, <2>4, <2>5 DEF CounselNext
<1>3. CounselInv /\ CounselStages => CounselTypeOK
  <2> SUFFICES ASSUME CounselInv, CounselStages PROVE CounselTypeOK
    OBVIOUS
  <2>1. counsel.at \in {"idle", "folding", "refuse", "hand_to_human", "allow"}
    BY DEF CounselInv, CounselIdle, Folding
  <2>2. Len(counsel.record) <= 1
    <3>1. \A record : Len(<<>>) <= 1 /\ Len(<<record>>) <= 1
      OBVIOUS
    <3>2. QED
      BY <3>1 DEF CounselStages, None
  <2>3. \A n \in DOMAIN counsel.checked : counsel.checked[n] \in RoleOutcomes
    BY LenProperties DEF CounselStages
  <2>4. counsel.index \in 1 .. Len(ROLE_ORDER) + 1
    BY RolesInOrder DEF CounselStages
  <2>5. QED
    BY <2>1, <2>2, <2>3, <2>4 DEF CounselStages, CounselTypeOK, RoleOutcomes
<1>4. QED
  BY <1>1, <1>2, <1>3, CounselInvariance, PTL DEF CounselSpec

(* The recursion of rememberRawInvoice over the first entries of a body. *)
KeepsAfter(kept, invoice, g, n) ==
  IF n = 0 THEN Keep(kept, invoice.url, invoice)
  ELSE KeepNamed(g[n - 1], invoice.accepts[n], invoice)

KeepsOn(kept, invoice, last, g) == g = [n \in 0 .. last |-> KeepsAfter(kept, invoice, g, n)]

IsSequence(s) == \E S : s \in Seq(S)

(* What is kept is a sequence after a write, if it was one. *)
LEMMA KeepKeepsSequence ==
  ASSUME NEW kept, IsSequence(kept), NEW resource, NEW invoice
  PROVE  IsSequence(Keep(kept, resource, invoice))
<1>1. PICK S : kept \in Seq(S)
  BY DEF IsSequence
<1> DEFINE pair == <<resource, invoice>>
           T == S \cup {pair}
<1> HIDE DEF pair
<1>2. kept \in Seq(T)
  BY <1>1, SeqMonotonic
<1>3. Append(kept, pair) \in Seq(T)
  BY <1>2, AppendProperties
<1>4. [i \in DOMAIN kept |-> IF kept[i][1] = resource THEN pair ELSE kept[i]] \in Seq(T)
  <2>1. Len(kept) \in Nat /\ DOMAIN kept = 1 .. Len(kept) /\ \A i \in DOMAIN kept : kept[i] \in T
    BY <1>2, LenProperties
  <2>2. QED
    BY <2>1, SeqDef
<1>5. Keep(kept, resource, invoice) \in Seq(T)
  BY <1>3, <1>4 DEF Keep, pair
<1>6. QED
  BY <1>5 DEF IsSequence

(* For every n a function satisfies the recursion up to n. *)
LEMMA KeepsExist ==
  ASSUME NEW kept, NEW invoice, NEW last \in Nat
  PROVE  \E g : KeepsOn(kept, invoice, last, g)
<1> DEFINE Bad == {m \in Nat : ~\E g : KeepsOn(kept, invoice, m, g)}
<1>1. SUFFICES ASSUME Bad # {} PROVE FALSE
  OBVIOUS
<1>2. PICK m \in Bad : \A k \in Bad : m <= k
  BY <1>1, LeastCounterexample
<1>3. m \in Nat /\ ~\E g : KeepsOn(kept, invoice, m, g)
  BY <1>2
<1>4. CASE m = 0
  <2> DEFINE g == [n \in 0 .. 0 |-> Keep(kept, invoice.url, invoice)]
  <2>1. g = [n \in 0 .. 0 |-> KeepsAfter(kept, invoice, g, n)]
    BY DEF KeepsAfter
  <2>2. QED
    BY <1>3, <1>4, <2>1 DEF KeepsOn
<1>5. CASE m # 0
  <2>1. m - 1 \in Nat /\ m - 1 \notin Bad
    BY <1>2, <1>5
  <2>2. PICK g : g = [n \in 0 .. m - 1 |-> KeepsAfter(kept, invoice, g, n)]
    BY <2>1 DEF KeepsOn
  <2> DEFINE h == [n \in 0 .. m |-> KeepsAfter(kept, invoice, g, n)]
  <2>3. \A n \in 0 .. m - 1 : h[n] = g[n]
    BY <1>3, <2>2
  <2>4. ASSUME NEW n \in 0 .. m PROVE KeepsAfter(kept, invoice, g, n) = KeepsAfter(kept, invoice, h, n)
    <3>1. n = 0 \/ n - 1 \in 0 .. m - 1
      BY <1>3
    <3> HIDE DEF h
    <3>2. QED
      BY <2>3, <3>1 DEF KeepsAfter
  <2>5. h = [n \in 0 .. m |-> KeepsAfter(kept, invoice, h, n)]
    <3> HIDE DEF h
    <3>1. [n \in 0 .. m |-> KeepsAfter(kept, invoice, g, n)] = [n \in 0 .. m |-> KeepsAfter(kept, invoice, h, n)]
      BY <2>4
    <3>2. QED
      BY <3>1 DEF h
  <2>6. QED
    BY <1>3, <2>5 DEF KeepsOn
<1>6. QED
  BY <1>4, <1>5

(* All that is kept along the way are sequences. *)
LEMMA KeepsAreSequences ==
  ASSUME NEW kept, IsSequence(kept), NEW invoice, NEW last \in Nat, NEW g, KeepsOn(kept, invoice, last, g)
  PROVE  IsSequence(g[last])
<1> DEFINE Bad == {n \in 0 .. last : ~IsSequence(g[n])}
<1>1. SUFFICES ASSUME Bad # {} PROVE FALSE
  OBVIOUS
<1>2. PICK n \in Bad : \A k \in Bad : n <= k
  <2>1. Bad \subseteq Nat
    OBVIOUS
  <2> HIDE DEF Bad
  <2>2. QED
    BY <1>1, <2>1, LeastCounterexample
<1>3. n \in 0 .. last /\ ~IsSequence(g[n])
  BY <1>2
<1>4. g[n] = KeepsAfter(kept, invoice, g, n)
  BY <1>3 DEF KeepsOn
<1>5. n # 0
  BY <1>3, <1>4, KeepKeepsSequence DEF KeepsAfter
<1>6. IsSequence(g[n - 1])
  <2>1. n - 1 \in 0 .. last /\ ~(n <= n - 1)
    BY <1>3, <1>5
  <2>2. QED
    BY <1>2, <2>1
<1>7. g[n] = KeepNamed(g[n - 1], invoice.accepts[n], invoice)
  BY <1>4, <1>5 DEF KeepsAfter
<1>8. QED
  BY <1>3, <1>6, <1>7, KeepKeepsSequence DEF KeepNamed

(* rememberRawInvoice keeps no more than its cap. *)
LEMMA RememberIsCapped ==
  ASSUME NEW kept, IsSequence(kept), Len(kept) <= InvoiceCap, NEW invoice \in Invoices
  PROVE  IsSequence(Remember(kept, invoice)) /\ Len(Remember(kept, invoice)) <= InvoiceCap
<1> DEFINE last == Len(invoice.accepts)
           after == CHOOSE g : KeepsOn(kept, invoice, last, g)
           all == after[last]
           first == IF Len(all) > InvoiceCap THEN Len(all) - InvoiceCap + 1 ELSE 1
<1>1. last \in Nat
  BY InvoicesAssumption, LenProperties
<1>2. KeepsOn(kept, invoice, last, after)
  <2> HIDE DEF last
  <2>1. \E g : KeepsOn(kept, invoice, last, g)
    BY <1>1, KeepsExist
  <2>2. QED
    BY <2>1
<1>3. Remember(kept, invoice) = IF invoice.version # 1 THEN kept ELSE SubSeq(all, first, Len(all))
  BY DEF Remember, KeepsOn, KeepsAfter
<1> HIDE DEF after, last
<1>4. IsSequence(all)
  BY <1>1, <1>2, KeepsAreSequences
<1> HIDE DEF all
<1>5. PICK S : all \in Seq(S)
  BY <1>4 DEF IsSequence
<1>6. Len(all) \in Nat /\ \A i \in 1 .. Len(all) : all[i] \in S
  BY <1>5, LenProperties, ElementOfSeq
<1>7. first \in Nat /\ first >= 1 /\ (Len(all) > InvoiceCap => first = (Len(all) - InvoiceCap) + 1)
      /\ (Len(all) <= InvoiceCap => first = 1)
  BY <1>6, FetchBoundsAssumption
<1> HIDE DEF first
<1>8. /\ SubSeq(all, first, Len(all)) \in Seq(S)
      /\ Len(SubSeq(all, first, Len(all))) = IF first <= Len(all) THEN Len(all) - first + 1 ELSE 0
  BY <1>6, <1>7, SubSeqProperties
<1>9. Len(SubSeq(all, first, Len(all))) <= InvoiceCap
  BY <1>6, <1>7, <1>8, FetchBoundsAssumption
<1>10. QED
  BY <1>3, <1>8, <1>9 DEF IsSequence

BindStages ==
  /\ bind.at \in {"idle", "selected", "stamped", "composed", "paid", "blocked"}
  /\ bind.fetches \in 0 .. MaxFetches
  /\ IsSequence(bind.kept) /\ Len(bind.kept) <= InvoiceCap

(* A binding is where the code can be, and the process keeps at most as many
   402s as its cap. *)
LEMMA BindShaped == BindSpec => []BindTypeOK
<1>1. BindInit => BindStages
  <2> SUFFICES ASSUME BindInit PROVE BindStages
    OBVIOUS
  <2>1. bind.at = "idle" /\ bind.fetches = 0 /\ bind.kept = <<>>
    BY DEF BindInit, BindIdle
  <2>2. IsSequence(<<>>)
    <3>1. <<>> \in Seq({})
      OBVIOUS
    <3>2. QED
      BY <3>1 DEF IsSequence
  <2>3. Len(<<>>) <= InvoiceCap /\ 0 \in 0 .. MaxFetches
    BY FetchBoundsAssumption
  <2>4. QED
    BY <2>1, <2>2, <2>3 DEF BindStages
<1>2. BindInv /\ BindStages /\ [BindNext]_bindVars => BindStages'
  <2> SUFFICES ASSUME BindInv, BindStages, [BindNext]_bindVars PROVE BindStages'
    OBVIOUS
  <2>1. bind = [f \in BindFields |-> bind[f]]
    BY DEF BindInv
  <2>2. ASSUME bind'.at \in {"idle", "selected", "stamped", "composed", "paid", "blocked"},
               bind'.fetches = bind.fetches, bind'.kept = bind.kept
        PROVE  BindStages'
    BY <2>2 DEF BindStages
  <2>3. CASE OtherFetch
    <3>1. PICK invoice \in Invoices :
            bind' = [bind EXCEPT !.fetches = @ + 1, !.kept = Remember(@, invoice)]
      BY <2>3 DEF OtherFetch
    <3>2. /\ bind'.at = bind.at /\ bind'.fetches = bind.fetches + 1
          /\ bind'.kept = Remember(bind.kept, invoice)
      BY ONLY <2>1, <3>1 DEF BindFields
    <3>3. bind.fetches < MaxFetches /\ bind.fetches \in 0 .. MaxFetches
      BY <2>3 DEF OtherFetch, BindStages
    <3>4. bind.fetches + 1 \in 0 .. MaxFetches
      BY ONLY <3>3, FetchBoundsAssumption
    <3>5. IsSequence(bind'.kept) /\ Len(bind'.kept) <= InvoiceCap
      BY <3>2, RememberIsCapped DEF BindStages
    <3>6. QED
      BY <3>2, <3>4, <3>5 DEF BindStages
  <2>4. CASE Selects
    <3>1. PICK invoice \in Invoices :
            LET picked == PickRequirements(invoice.accepts, None)
                selected == [picked EXCEPT !.resource = Or(@, invoice.envelope)]
                payable == /\ ~Conflicted(selected)
                           /\ None \notin {PayTo(selected), Amount(selected), PriceUsdc(selected)}
            IN bind' = [bind EXCEPT !.kept = Remember(@, invoice), !.invoice = <<invoice>>,
                          !.selected = <<selected>>, !.at = IF payable THEN "selected" ELSE "blocked"]
      BY <2>4 DEF Selects
    <3> DEFINE picked == PickRequirements(invoice.accepts, None)
               selected == [picked EXCEPT !.resource = Or(@, invoice.envelope)]
               payable == /\ ~Conflicted(selected)
                          /\ None \notin {PayTo(selected), Amount(selected), PriceUsdc(selected)}
               at == IF payable THEN "selected" ELSE "blocked"
    <3>2. bind' = [bind EXCEPT !.kept = Remember(@, invoice), !.invoice = <<invoice>>,
                     !.selected = <<selected>>, !.at = at]
      BY <3>1
    <3>3. at \in {"selected", "blocked"}
      OBVIOUS
    <3> HIDE DEF at, selected
    <3>4. bind'.at = at /\ bind'.fetches = bind.fetches /\ bind'.kept = Remember(bind.kept, invoice)
      BY ONLY <2>1, <3>2 DEF BindFields
    <3>5. IsSequence(bind'.kept) /\ Len(bind'.kept) <= InvoiceCap
      BY <3>4, RememberIsCapped DEF BindStages
    <3>6. QED
      BY <3>3, <3>4, <3>5 DEF BindStages
  <2>5. CASE Stamps
    <3>1. PICK decision \in Preflighting :
            LET leaf == Stamp(bind.selected[1], bind.invoice[1], bind.kept, decision)
            IN bind' = [bind EXCEPT !.leaf = leaf, !.at = IF leaf = None THEN "blocked" ELSE "stamped"]
      BY <2>5 DEF Stamps
    <3> DEFINE leaf == Stamp(bind.selected[1], bind.invoice[1], bind.kept, decision)
               at == IF leaf = None THEN "blocked" ELSE "stamped"
    <3>2. bind' = [bind EXCEPT !.leaf = leaf, !.at = at] /\ at \in {"blocked", "stamped"}
      BY <3>1
    <3> HIDE DEF at, leaf
    <3>3. bind'.at = at /\ bind'.fetches = bind.fetches /\ bind'.kept = bind.kept
      BY ONLY <2>1, <3>2 DEF BindFields
    <3>4. QED
      BY <2>2, <3>2, <3>3
  <2>6. CASE Composes
    <3>1. PICK tx : bind' = [bind EXCEPT !.at = "composed", !.tx = tx]
      BY <2>6 DEF Composes
    <3>2. bind'.at = "composed" /\ bind'.fetches = bind.fetches /\ bind'.kept = bind.kept
      BY ONLY <2>1, <3>1 DEF BindFields
    <3>3. QED
      BY <2>2, <3>2
  <2>7. CASE NothingComposed \/ PaysBound
    <3>1. PICK at \in {"blocked", "paid"} : bind' = [bind EXCEPT !.at = at]
      BY <2>7 DEF NothingComposed, PaysBound
    <3>2. bind'.at = at /\ bind'.fetches = bind.fetches /\ bind'.kept = bind.kept
      BY ONLY <2>1, <3>1 DEF BindFields
    <3>3. QED
      BY <2>2, <3>2
  <2>8. CASE UNCHANGED bindVars
    BY <2>8 DEF bindVars, BindStages
  <2>9. QED
    BY <2>3, <2>4, <2>5, <2>6, <2>7, <2>8 DEF BindNext
<1>3. BindStages => BindTypeOK
  BY DEF BindStages, BindTypeOK
<1>4. QED
  BY <1>1, <1>2, <1>3, BindInvariance, PTL DEF BindSpec

-----------------------------------------------------------------------------
(* The whole.                                                                *)

(* Whichever surface lets a payment through - the pre-sign hook, the pre-check
   and its payer, a transaction bound to its offer, a fetch wrapper over a whole
   402, the counsel fold - it stays within every bound that surface knew of,
   while the other surfaces do what they do. *)
THEOREM SurfacesPayWithinBounds == Spec => []PaysWithinBounds
BY MachinesRun, HookPaysBounded, PayerRunsBounded, DeliveryObserved, BindingPaysOffer,
   WrappersPayScreened, CounselClosed, PTL DEF PaysWithinBounds

(* What the log verifier says of the log, in its monitor and in its commands,
   follows from what the log or the anchor authority signed. *)
THEOREM LogVerdictsAreEarned == Spec => []VerdictsAreEarned
BY MachinesRun, VerdictsEarned, CommandsAreEarned, PTL DEF VerdictsAreEarned

(* The settle guard, the vault signer, the pre-sign hook, the MPP guard, the
   fulfilment log, cold start and the evidence bundle each keep their properties,
   as far as those go, in the whole as well as alone. *)
THEOREM SurfacesKeepTheirWord ==
  Spec => [](/\ SettlesOnEvidence /\ DeskSpendsOnce /\ BuysAdviceOnce /\ CredentialIsRecorded
             /\ FulfilmentIsKept /\ PolicyIsVetted /\ EvidenceIsEarned)
BY MachinesRun, DecidesOnEvidence, SpendsOnce, AdviceBoughtOnce, CredentialRecorded, FulfilmentLogKept,
   PolicyVetted, EvidenceEarned, PTL

(* The monitor's pins come of one history and the evaluation's yes of a receipt
   in the log. *)
THEOREM LogIsTrustedOnProof == Spec => [](AcceptedFormOneHistory /\ ApprovalIsEarned)
BY MachinesRun, OneHistoryAccepted, ApprovedOnAnswer, PTL

(* Every surface is at a place of its code and holds what that place may hold,
   whatever the others do: no counter passes its cap, and no cache. *)
THEOREM SurfacesTyped == Spec => []TypeOK
BY MachinesRun, PinsVerified, GateShaped, EvalShaped, MppShaped, DeskShaped, SettleShaped, SafeShaped,
   ColdShaped, CommandShaped, EvidenceShaped, BindShaped, FulfilShaped, WrapShaped, CounselShaped, PTL
   DEF TypeOK
==============================================================================
