---------------------------- MODULE SettleGuard ----------------------------
(***************************************************************************)
(* The seller's hook of seller-hook.ts: one budget over extracting the     *)
(* payer and screening it, and what the guard answers the settlement.  The *)
(* work the budget gives up on keeps running and reports a decision of its *)
(* own.                                                                    *)
(***************************************************************************)
EXTENDS GatePolicy

CONSTANTS
  Payments,      \* payloads a buyer may present
  Screens,       \* the injected screens: what each answers about each wallet
  SettleOptions  \* the options of the guard

\* What a payload names is absent, unreadable or one wallet.
ASSUME PaymentsAssumption ==
  \A pay \in Payments : \A scheme \in {pay.authorization, pay.permit2, pay.transaction} :
    \/ scheme = None
    \/ /\ DOMAIN scheme = {1}
       /\ scheme[1] = None \/ DOMAIN scheme[1] = {1}

VARIABLE settle  \* [at, pay, opt, screen, payer, answer, reports]
settleVars == <<settle>>

-----------------------------------------------------------------------------
(* The payer.  A payload is [authorization, permit2, transaction, loose]:  *)
(* a scheme is None or <<the wallet it names or None>>, loose the aliases  *)
(* in the order they are tried.                                            *)

\* hasAuthoritativeSchemeShape
Authoritative(pay) ==
  \/ pay.authorization # None
  \/ pay.permit2 # None
  \/ pay.transaction # None

WalletIn(scheme) == IF scheme = None THEN None ELSE scheme[1]

\* extractSvmPayerFromTransaction: the transaction is read by an optional peer.
SvmPayer(pay, peer) == IF peer THEN WalletIn(pay.transaction) ELSE None

LoosePayer(pay) ==
  LET written == SelectSeq(pay.loose, LAMBDA alias : alias # None)
  IN IF written = <<>> THEN None ELSE written[1]

\* Slip: an unreadable scheme falls back to what the client says.
ExtractAnyPayer(pay, peer) ==
  Or(WalletIn(pay.authorization),
     Or(WalletIn(pay.permit2), Or(SvmPayer(pay, peer), LoosePayer(pay))))

\* defaultExtractPayer
ExtractPayer(pay, peer) ==
  Or(WalletIn(pay.authorization),
     Or(WalletIn(pay.permit2),
        IF pay.transaction # None THEN SvmPayer(pay, peer)
        ELSE IF Authoritative(pay) THEN None
        ELSE LoosePayer(pay)))

\* svmShapeWithoutPeer
PeerMissing(pay, peer) == pay.transaction # None /\ ~peer

-----------------------------------------------------------------------------
(* The screen.                                                             *)

\* twzrdPayerScreen: an outage and a wallet without a card are no signal.
PayerScreen(lookup) ==
  IF ~lookup.reachable \/ lookup.card = None THEN None
  ELSE <<[washFlagged |-> lookup.card[1].washFlagged, decision |-> "none"]>>

\* Omitted failOpen fails open; a written one must be a true flag.
FailsOpen(opt) == opt.failOpen = "unset" \/ IsTrueFlag(opt.failOpen)

\* decideAbort: the reason, if the screen says to abort.
AbortReason(screen, opt) ==
  IF opt.onWash /\ screen.washFlagged = <<TRUE>> THEN <<"payer_wash_flagged">>
  ELSE IF opt.onBlock /\ screen.decision = "block" THEN <<"payer_block">>
  ELSE IF opt.onWarn /\ screen.decision = "warn" THEN <<"payer_warn">>
  ELSE None

-----------------------------------------------------------------------------
(* The guard.                                                              *)

SettleIdle == [at |-> "idle", pay |-> None, opt |-> None, screen |-> None, payer |-> None,
               answer |-> None, reports |-> <<>>]

Report(abort, reason) == [abort |-> abort, reason |-> reason, payer |-> settle.payer]

\* Slip: once the budget is spent the late report still decides.
DecidesLast(abort, reason) ==
  settle' = [settle EXCEPT !.at = "ended", !.answer = <<abort>>,
                           !.reports = Append(@, Report(abort, reason))]

\* run() ends: it always reports, and answers unless the budget was spent.
Concludes(abort, reason) ==
  settle' = [settle EXCEPT !.at = "ended", !.answer = Or(@, <<abort>>),
                           !.reports = Append(@, Report(abort, reason))]

\* Slip: a payer that could not be screened is settled.
SettlesUnscreened(reason) == Concludes(FALSE, reason)

\* Without an answer of the screen the guard fails as it was told to.
WithoutScreen(reason) == Concludes(~FailsOpen(settle.opt[1]), reason)

Presented ==
  /\ settle = SettleIdle
  /\ \E pay \in Payments, opt \in SettleOptions, screen \in Screens :
       settle' = [settle EXCEPT !.at = "extracting", !.pay = <<pay>>, !.opt = <<opt>>, !.screen = <<screen>>]

\* getPayer answers; without a payer the run ends here.
Extracts ==
  /\ settle.at = "extracting"
  /\ LET pay == settle.pay[1]  opt == settle.opt[1]
         payer == ExtractPayer(pay, opt.peer)
     IN IF payer = None
          THEN WithoutScreen(IF PeerMissing(pay, opt.peer) THEN "svm_peer_missing" ELSE "payer_unresolved")
        ELSE settle' = [settle EXCEPT !.at = "screening", !.payer = payer]

\* What the screen says of a wallet; one that throws says nothing.
Says(wallet) ==
  LET answer == settle.screen[1][wallet]
  IN IF answer.kind = "lookup" THEN PayerScreen(answer.lookup) ELSE answer.screen

ScreenAnswers ==
  /\ settle.at = "screening"
  /\ settle.screen[1][settle.payer[1]].kind # "throws"
  /\ LET opt == settle.opt[1]
         screen == Says(settle.payer[1])
     IN IF screen = None THEN WithoutScreen("screen_unavailable")
        ELSE LET reason == AbortReason(screen[1], opt)
             IN Concludes(reason # None, IF reason = None THEN "payer_ok" ELSE reason[1])

\* A throw is the guard's to handle, unless the budget was spent before it.
ScreenThrows ==
  /\ settle.at = "screening"
  /\ settle.screen[1][settle.payer[1]].kind = "throws"
  /\ IF settle.answer = None THEN WithoutScreen("screen_error")
     ELSE settle' = [settle EXCEPT !.at = "ended"]

\* The budget over both runs out; zero is no budget.
TimesOut ==
  /\ settle.at \in {"extracting", "screening"} /\ settle.answer = None
  /\ settle.opt[1].budget
  /\ LET abort == ~FailsOpen(settle.opt[1])
     IN settle' = [settle EXCEPT !.answer = <<abort>>,
                     !.reports = Append(@, Report(abort, "screen_timeout"))]

SettleInit == settle = SettleIdle
SettleNext == Presented \/ Extracts \/ ScreenAnswers \/ ScreenThrows \/ TimesOut
-----------------------------------------------------------------------------
SettleTypeOK ==
  /\ settle.at \in {"idle", "extracting", "screening", "ended"}
  /\ settle.answer \in {None, <<TRUE>>, <<FALSE>>}
  /\ Len(settle.reports) <= 2

\* The wallets the payload itself proves to be paying, whatever it also says.
Signers(pay) ==
  UNION {ToSet(WalletIn(scheme)) : scheme \in {pay.authorization, pay.permit2, pay.transaction}}

\* The screen answers of a wallet, and knows nothing that aborts.
PassedScreen(wallet) ==
  Says(wallet) # None /\ AbortReason(Says(wallet)[1], settle.opt[1]) = None

\* It answers, and the reason is one to abort for.
Incriminated(wallet, reason) ==
  Says(wallet) # None /\ AbortReason(Says(wallet)[1], settle.opt[1]) = <<reason>>

(* A guard that fails closed settles only a payer that its screen cleared before
   the budget ran out, and where the payload is signed that payer is one who
   signed it, whatever alias stands beside it; short of an answer it aborts.  One
   that fails open aborts only for what its screen answered of the payer.  The
   first report is the decision that was taken; a second comes only after the
   budget ran out. *)
SettlesOnEvidence ==
  settle.answer # None =>
    LET opt == settle.opt[1]  aborted == settle.answer[1]  first == settle.reports[1]
        signers == Signers(settle.pay[1])
    IN /\ first.abort = aborted
       /\ Len(settle.reports) = 2 => first.reason = "screen_timeout"
       /\ ~FailsOpen(opt) /\ ~aborted =>
            /\ first.payer # None
            /\ Authoritative(settle.pay[1]) => first.payer[1] \in signers
            /\ PassedScreen(first.payer[1]) /\ first.reason = "payer_ok"
       /\ FailsOpen(opt) /\ aborted => first.payer # None /\ Incriminated(first.payer[1], first.reason)
=============================================================================
