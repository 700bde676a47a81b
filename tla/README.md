# Verification of twzrd-trust

TLA+ models of the parts of this repository that decide whether an agent's
payment may be signed, that remember what became of it and that prove it to
others; the TLC runs that check them on small instances; and TLAPS proofs of
what matters most for every value of the constants.
The reference is the code under `src/`; `PROJECT.json` maps every definition
to the lines it models.

## The system

Two packages hold the logic. `twzrd-log-verifier` checks what a transparency
log says of itself. `twzrd-x402-gate` is a client library. An agent's HTTP
client meets a `402 Payment Required`; the gate decides, before the wallet
signs, whether the payment may go out. It is single-threaded JavaScript:
between two `await`s nothing else runs, and at every `await` everything else
may. What it keeps is small and matters: budgets, reservations, files of what
was spent, decided and paid. Nobody else remembers these; if they are wrong,
money moves twice or a cap is passed.

| Component | State it keeps | Operations | Talks to | Module |
|---|---|---|---|---|
| Outcome ledger (`outcome-ledger.ts`) | per intent the latest attempt; used decision ids; an append-only hash-chained file | begin, refuse, lapse, markSigning, markUnknown, complete, markNotSettled, open | its file | `OutcomeRecords`, `OutcomeLedger` |
| x402 binding (`outcome-ledger-x402.ts`, bracket in `guarded-x402-fetch.ts`) | the bound call of each request | open, close, the paid leg of the transport | ledger, signer, seller, settlement check, operator | `OutcomeX402` |
| Spend control (`spend-control.ts`, `spend-ledger-file.ts`) | reservations and recorded spend per agent, merchant and mandate; a file | check and reserve, pay, record, release, replay | preflight, payer, file | `SpendControl` |
| Decision ledger (`decision-ledger-file.ts`) | a buffer of rows, a chain of batches | record, scheduled and awaited flush | file system | `DecisionLedger` |
| Buyer fetch (`buyer-fetch.ts`) | reservations of an hourly budget | pre-sign hook, paying transport | both ledgers, preflight | `BuyerFetch` |
| Guarded fetch (`guarded-x402-fetch.ts`) | entries of a rolling hour, a reservation | pre-sign hook | evaluation hook, x402 binding | `GuardedBudget` |
| Policy runtime and decision tokens (`policy-runtime.ts`, `decision-token.ts`) | spend per scope, first sight of a counterparty, consumed ids | evaluateIntent, assertIntentApproved | intelligence, signer | `PolicyRuntime` |
| Policy fetch (`policy-fetch.ts`) | one pending evaluation per closure | evaluate, book on a good answer | policy runtime, payer | `PolicyFetch` |
| Demand Desk (`demand-desk-wallet.ts`, `demand-desk-authorization.ts`) | none; reads the host's outcome ledger | sign, sign a batch, sign and send | ledger, mandate, signer | `DemandDesk` |
| Verdict and pre-sign hook (`policy.ts`, `x402-client-hook.ts`, `wash-default.ts`, `merchant-card.ts`, `clearance.ts`, `quick.ts`) | one payment's hook: what it looked up and bought | preflight, merchant card, Payment Control, clearance, quick score, receipt, decision | intelligence, decision records, wallet | `Offers`, `GatePolicy`, `PaymentGate` |
| Resource evaluation (`evaluate.ts`, `receipt-policy.ts`, `log-inclusion.ts`) | one evaluation | verdict, clearance, quick score, receipt, log proof | intelligence, log | `EvaluateResource` |
| MPP guard (`mpp-hook.ts`) | one charge, the queue of its sink | verdict, record, credential | wallet, sink | `MppCharge` |
| Seller's settle guard (`seller-hook.ts`) | one settlement with its timer | extract the payer, screen, decide | screen | `SettleGuard` |
| Fetch wrappers (`safe-fetch.ts`, `delivery-capture.ts`, `paying-fetch.ts`, `all-offers.ts`) | the last challenge of a fetch | probe, screen every offer, pay, fall back to a router, observe the delivery | seller, payer, router | `SafeFetch`, `PayingFetch` |
| Resource binding (`resource-bind.ts`, `resource-bind-tx.ts`) | a bounded cache of 402s | cache, stamp, check a composed transaction | composer | `ResourceBind` |
| Cold start (`cold-start.ts`) | the hosts seen, one hop | probe, hop to a directory, write a policy | sellers, directory | `ColdStart` |
| Evidence (`payment-decision.ts`, `outcome-attestation.ts`, `evidence-bundle.ts`, `evidence-verify.ts`, `fulfillment-record.ts`) | a bundle on its way to a verifier; a log of fulfilments | export, redact, verify; record, flush | file system, verifier | `Evidence`, `Fulfillment` |
| Transparency-log verifier (`twzrd-log-verifier`) | a pinned head, in memory and in a state file | observe a head, verify proofs, offline commands, anchor | log server, RPC | `Merkle`, `TreeHeads`, `HeadPinning`, `LogCommands` |
| Counsel (`counsel_orchestration/decide.py`) | the fold over one record | discover the roles, read them in order, conclude | none | `Counsel` |
| Intents, integration presets, plugins, scripts | none | | | not modelled |

What is hard here: reservations that must balance on every path out of an
`await`; checks that are made before an `await` and used after it; late
answers; a process that dies between a signature and its record; appends that
fail half-way; rows nobody waits for; evidence that fails to arrive and policies
that disagree on what then; heads of a log that lag, grow or fork.
`PROJECT.json` lists each at its line under "hazards".

## The modules

**OutcomeRecords** holds what `outcome-ledger.ts` decides on one record: the
states, the table `LEGAL`, `canAttempt`, the lapse of an approval, what
`complete()` resolves to. An approval is its expiry and its cap.

**OutcomeLedger** is the file-backed ledger. `file` is the sequence of rows,
`records` and `used` are the maps in memory, `status` says whether the process
runs, `intact` whether every line on disk still parses and chains: it stands
for the JSON and hash-chain checks, and a failed append clears it, because a
partial line makes the file unreadable whatever follows. One action per
operation; each takes the clock reading it was called with, in any order, so
nothing is assumed of the clock. An operation whose guard fails throws and
changes nothing. A failed append that leaves nothing on disk is a stutter. The
file survives a crash as it was appended: loss of power is not modelled.

**OnePayment** is the promise: per intent at most one outstanding payment,
outstanding until its outcome is established, no approval paying twice.
`OutcomeLedger` reads this state off its file and implements it.

**OutcomeX402** composes the record map with concurrent calls of the guarded
fetch (`Open`, the checks, `ClosePassed`, `SendPaid`, the answers, the
settlement check, `CompleteCall`), the chain, an operator, crashes and a
clock. A call draws a fresh decision id, so it stands for it. Restarts keep
the records, which is what `MemoryIsReplay` establishes for the file; appends do
not fail here. `payer` and `resolved` are history. The settlement check and
the operator read the chain and are truthful; the seller's word is arbitrary,
and so is the transaction it relays: the check confirms any that succeeded on
the record's terms, an earlier attempt's or another payer's too.

**SpendControl** models `spendControlSafeFetch` over a shared file ledger:
check and reserve in one tick, the awaits between reservation and payer as one
place (all of them end the call unsigned or go on), the payer, the recording
of up to three keys, its failure after a payer that returned and, in the finally
block, after one that threw, and death in its middle. The 365-day window
never expires within a behaviour.

**DecisionLedger** is the writer of `decision-ledger-file.ts`: the buffer, the
microtask flag, the promise chain as a queue of batches with tickets for those
who await them. **BuyerFetch** extends it with the pre-sign hook and the
transport. It has one budget scope, and one variable for the spend file and
its memory, which `SpendControl` shows to agree.

**GuardedBudget** is the rolling budget of `innerHook`. **PolicyRuntime** is
`evaluateIntent` with its early check, its await and its re-check, the three
scopes and the new-counterparty rule, and the wallet's check of the token with
the consume-once registry, verified and unverified. **PolicyFetch** is the
closure of `createTwzrdPolicyFetch`.

**DemandDesk** is the signing facade over a ledger the host changes at any
time: approvals are cleared, lapse and settle between a check and a signature.
A message is the sequence of its instructions, and the authorization checks
read it slot by slot (limit, price, transfer, memo). The signature, not the
call, is what the properties count.

**Merkle** is `merkle.ts`: RFC 6962 trees over free hashes, the proofs that a log
makes of them, and both verifications as the loops of the code over a path.
Free hashes are what collision resistance gives; that roots and proofs then
mean what they should is proved, not assumed. **TreeHeads** has on top of it
signatures, the key directory and equivocation; `HeadPinning` the pin store, whose `observe`
compares with the pin it read before its await, and the state file, with
restarts and failed saves; `LogCommands` the offline commands and the anchor
check, where the RPC chooses the bytes it answers with.

**GatePolicy** is the verdict on one entry of a 402: what conflicts, wash, caps
and outages make of a preflight and a merchant card. **Offers** is how an
entry is read and selected. **PaymentGate** begins with the decision record, what
it binds and what its signature proves, and is the pre-sign hook that runs the
verdict, Payment Control and the three paid tiers in the code's order;
**EvaluateResource** is the evaluation of a resource, in which a log proof can
be required too. **MppCharge** is the guard of an MPP challenge, up to the
credential and its record. **SettleGuard** is the seller's side: extraction,
screen and timer race.

**SafeFetch** is the pre-check with its payer and the delivery observation,
**PayingFetch** the wrapper that screens each distinct offer of each 402, those
that answer a payment included, and falls back to a router, **ResourceBind** the cache of 402s and the check of a composed
transaction, **ColdStart** the probes up to the policy file. **Evidence** is a
bundle from export through the edits a carrier may make to the verifier's
labels, the operator's outcome attestation in it; **Fulfillment** is the
batched writer of fulfilment rows. **Counsel** is the fold of the seven roles,
a turn of its loop a step. **Optional** writes a value that may be absent as a
sequence of at most one.

**BuyerSurfaces** composes all of these. No step of one reads another's state,
so it lets one machine move at a time, from the initial state of all the
others: the interleavings inside a machine are complete, and those between
machines, which reach nothing new, are left out.

`DemandDesk` reads the host's ledger and moves its records by the table of
`OutcomeRecords`; `OutcomeLedger` is the implementation the repository ships.

Modules whose names begin with `MC` give the constants their values. Operators
marked "Slip" are wrong variants of the definition below them; they are used
only by the mutants of `PROJECT.json`, each of which breaks the property it is
listed with.

## The runs

| Run | Shows | Bounds |
|---|---|---|
| `outcome_ledger` | the file is sound, memory is its replay, `OnePayment` is implemented | 2 intents, 2 decisions, 2 approvals, 2 clock readings, 6 rows |
| `outcome_x402` | no second signature on an operation while one is without evidence; nothing is settled on the seller's word; no attempt is left approved | 3 calls, 2 quotes of one operation, clock 0..1 |
| `outcome_x402_late_answer` | violation: a late answer resolves the next attempt | as above, operator may reconcile calls in flight |
| `outcome_x402_borrowed_approval` | violation: a slow hook signs under another call's approval | as above |
| `spend_control` | reservations balance or are held by a call whose payer and recording threw, capped calls keep the cap, each spend is recorded once | 4 calls of 3 kinds, 3 keys, appends may fail |
| `spend_control_restart` | violation: a crash during the payer re-opens the cap | 3 calls, appends do not fail |
| `buyer_fetch` | hourly cap in every window, allow row durable before signing, rows in order, settlement rows reach the disk | 3 calls, cap 2, hour 1, clock 0..2, buffer of 2 |
| `guarded_budget` | the budget holds at the moments of the checks | 4 calls, cap 3, hour 2, clock 0..4 |
| `guarded_budget_rolling` | violation: not at the moments of the signatures | as above |
| `policy_runtime` | ceilings in every window, new-counterparty cap, one signature per token, signatures within the ceilings shortened by a token's lifetime | 3 evaluations, 2 payees, clock 0..5 |
| `policy_fetch` | violation: a paid answer books nothing when requests overlap | 3 rounds |
| `buyer_surfaces` | accepted heads are of one history and verdicts on a log are earned; every surface that pays stays within what it knew; advice is bought once; no approval lacks evidence but in the two ways the code leaves open; credentials are recorded; the desk signs once; settlements, policies, labels, fulfilment rows and counsel's payouts are earned | 3 observers, 6 heads of 2 histories up to 6 leaves and 3 that are not the log's; 12 entries, 8 cards by 6 lookups, 9 hook options; 2 desk calls, clock 0..1; 2 probes per hop, 2 cached 402s, 2 distinct offers; decision records with up to two fields changed or missing |

Why the bounds are enough. Two intents and two decisions suffice for one
decision id on two intents and two attempts on one intent; six rows hold two
complete attempts (approved, signing, settled), or a lapse, a re-opening and a
settlement with a row of another intent. The proofs then remove these bounds.
Three calls are what the late answer needs: one that answers late, one whose
attempt it resolves, one that slips through. The budgets are chosen so that
some pairs of payments fit and others do not, and the clocks run past each
window, so that pruning, expiry and re-use of the budget happen. `buyer_fetch`
has a buffer of two rows, so that flushing by size and by microtask
interleave. `MaxRows`, `MaxClock`, `DeskClock`, `HookTime`, `MaxFetches` and
the sets of calls are the only bounds; every one is a constant. The sets of
`MCBuyerSurfaces` are made of cases: each card, answer, option or edit is
there because a branch of the code distinguishes it, alone and next to the one
it could be confused with, so that every branch fires and each pair of
failures that one handler can meet meets. Trees of up to six leaves hold sizes
that are no power of two, equal sizes, a fork that starts at an inner leaf,
and heads older than the pin, which replicas show. Three observations are a
first sight, a step, and a head judged by what the step pinned or by what a
restart found in the file. Two desk items let a batch sign one between the
check and the signature of the other. The caps of the code that are numbers
(`MaxPerCall`, `HopInspectCap`, `InvoiceCap`, `MaxDistinct`) are scaled down
so that they are reached. Deadlock is not checked because every model stops by
design: the calls are used up, the file is full, or its process has failed to
open it.

Fairness. `OutcomeX402` assumes weak fairness of each call's own steps: its
checks, its signer, its transport and its settlement check end or throw. It
assumes none of new calls, the operator or a restart. `BuyerFetch` assumes weak
fairness of the writer: queued microtasks run, and a file operation settles,
possibly by failing. Both are what an event loop gives a process that lives;
the liveness properties say "unless the process dies". `BuyerSurfaces` states
safety only and assumes no fairness.

### The properties

Each property of a passing run fails once the named definition is replaced by a
plausible slip of the code; each is stated in words above its definition.

| Run (config) | Property | Breaks with a slip in | Theorem |
|---|---|---|---|
| `outcome_ledger` (`OutcomeLedger.cfg`) | `TypeOK` | `LEGAL` | `TypeCorrect` |
| `outcome_ledger` (`OutcomeLedger.cfg`) | `MemoryIsReplay` | `AppendFails` | `RestartRebuilds` |
| `outcome_ledger` (`OutcomeLedger.cfg`) | `ReplayIsFold` | `Replay` | `LoopRebuilds` |
| `outcome_ledger` (`OutcomeLedger.cfg`) | `OneUnresolvedPayment` | `UnresolvedStates` | `NoSecondPayment` |
| `outcome_ledger` (`OutcomeLedger.cfg`) | `ApprovalSingleUse` | `CanAttempt` | `SingleUse` |
| `outcome_ledger` (`OutcomeLedger.cfg`) | `RefusedNeverSigned` | `ReplayUsed` | `RefusalIsFinal` |
| `outcome_ledger` (`OutcomeLedger.cfg`) | `SignedBeforeExpiry` | `MarkSigning` | `SignsInTime` |
| `outcome_ledger` (`OutcomeLedger.cfg`) | `CompletedWithinApproval` | `CompletionState` | `CompletesInCap` |
| `outcome_ledger` (`OutcomeLedger.cfg`) | `KeepsPromise` | `LEGAL` | `ImplementsOnePayment` |
| `outcome_x402` (`OutcomeX402.cfg`) | `TypeOK` | `LapsedOthers` | `RoundTripTypes` |
| `outcome_x402` (`OutcomeX402.cfg`) | `NoBypass` | `OtherUnresolved` | `NeverBypassed` |
| `outcome_x402` (`OutcomeX402.cfg`) | `OutstandingIsRecorded` | `LapsedOthers` | `LedgerKnows` |
| `outcome_x402` (`OutcomeX402.cfg`) | `SettledIsTrue` | `Confirmed` | `RecordsTellTruth` |
| `outcome_x402` (`OutcomeX402.cfg`) | `ReleasesApproval` | `CloseRefused` |  |
| `outcome_x402_late_answer` (`OutcomeX402LateAnswer.cfg`) | `NoBypass` | violated by the code |  |
| `outcome_x402_borrowed_approval` (`OutcomeX402BorrowedApproval.cfg`) | `SignsOwnApproval` | violated by the code |  |
| `spend_control` (`SpendControl.cfg`) | `TypeOK` | `Released` | `SpendTypes` |
| `spend_control` (`SpendControl.cfg`) | `PendingIsReserved` | `EndUnsigned` | `ReservationsAccounted` |
| `spend_control` (`SpendControl.cfg`) | `RecordedOnce` | `PayEnds` | `SpendRecordedOnce` |
| `spend_control` (`SpendControl.cfg`) | `CapHolds` | `WithinCap` | `CumulativeCapHolds` |
| `spend_control_restart` (`SpendControlRestart.cfg`) | `CapSurvivesRestart` | violated by the code |  |
| `buyer_fetch` (`BuyerFetch.cfg`) | `TypeOK` | `Release` | `BuyerTypes` |
| `buyer_fetch` (`BuyerFetch.cfg`) | `HourlyCap` | `WithinBudget` | `HourlyCapHolds` |
| `buyer_fetch` (`BuyerFetch.cfg`) | `SignedOnRecord` | `Durable` | `DurableBeforeSigning` |
| `buyer_fetch` (`BuyerFetch.cfg`) | `SettlementReachesDisk` | `Flush` |  |
| `guarded_budget` (`GuardedBudget.cfg`) | `TypeOK` | `HookPasses` | `BudgetTypes` |
| `guarded_budget` (`GuardedBudget.cfg`) | `CheckedWithinCap` | `WithinCap` | `HourIsWithinCap` |
| `guarded_budget_rolling` (`GuardedBudgetRolling.cfg`) | `RollingCap` | violated by the code |  |
| `policy_runtime` (`PolicyRuntime.cfg`) | `TypeOK` | `Approve` | `RuntimeTypes` |
| `policy_runtime` (`PolicyRuntime.cfg`) | `CeilingsHold` | `Recheck` | `CeilingsAreKept` |
| `policy_runtime` (`PolicyRuntime.cfg`) | `SlotTakenBySignature` | `UnsafeKey` | `SlotIsTheSignatures` |
| `policy_runtime` (`PolicyRuntime.cfg`) | `SignedWithinCeilings` | `Alive` | `SignedIsWithinCeilings` |
| `policy_fetch` (`PolicyFetch.cfg`) | `NotUndercounted` | violated by the code |  |
| `buyer_surfaces` (`BuyerSurfaces.cfg`) | `TypeOK` | `SignatureHolds` | `SurfacesTyped` |
| `buyer_surfaces` (`BuyerSurfaces.cfg`) | `AcceptedFormOneHistory` | `ProofStands` (also `Restart`) | `OneHistoryAccepted` |
| `buyer_surfaces` (`BuyerSurfaces.cfg`) | `VerdictsAreEarned` | `Convicts` (also `SignaturesVerify`, `IncludedUnder`) | `LogVerdictsAreEarned` |
| `buyer_surfaces` (`BuyerSurfaces.cfg`) | `PaysWithinBounds` | `OverRecommendedCap` (also `WashCapped`, `BoundTo`, `KeysPresent`, `Matches`, `OfferKey`, `RefusedBy`, `RoleReads`) | `SurfacesPayWithinBounds` |
| `buyer_surfaces` (`BuyerSurfaces.cfg`) | `BuysAdviceOnce` | `WantsQuick` | `AdviceBoughtOnce` |
| `buyer_surfaces` (`BuyerSurfaces.cfg`) | `ApprovalIsEarned` | `LogInclusionAllows` (also `EMissed`) | `ApprovedOnAnswer` |
| `buyer_surfaces` (`BuyerSurfaces.cfg`) | `CredentialIsRecorded` | `Persists` (also `NamedTwice`) | `CredentialRecorded` |
| `buyer_surfaces` (`BuyerSurfaces.cfg`) | `DeskSpendsOnce` | `Signs` (also `PriorityFee`) | `SpendsOnce` |
| `buyer_surfaces` (`BuyerSurfaces.cfg`) | `SettlesOnEvidence` | `ExtractPayer` (also `Concludes`, `WithoutScreen`) | `DecidesOnEvidence` |
| `buyer_surfaces` (`BuyerSurfaces.cfg`) | `PolicyIsVetted` | `EndsHop` (also `ColdApproves`) | `PolicyVetted` |
| `buyer_surfaces` (`BuyerSurfaces.cfg`) | `EvidenceIsEarned` | `LabelOf` (also `Removed`, `DecisionContradicts`) | `EvidenceEarned` |
| `buyer_surfaces` (`BuyerSurfaces.cfg`) | `FulfilmentIsKept` | `Failed` | `FulfilmentLogKept` |

## Disagreements with what is documented

Each is a run that TLC must find violated, and a "finding" in `PROJECT.json`.

- *Late answer.* `complete()` and `markUnknown()` name the intent, not the
  decision. After an operator has truthfully resolved an attempt whose call
  still waits, that call's answer resolves the next attempt on the intent, and
  a third one signs past an unresolved payment. `outcome_x402` shows that the
  rule holds if only ended calls are reconciled.
- *Borrowed approval.* `close()` finds its approval by intent. When it lapsed
  and another call opened a new one, the slow call signs under that one. The
  payment is still one at a time; the approval is not its own.
- *Caps across restarts.* Spend is recorded after the payer, so a death
  during the payer forgets it.
- *Rolling window.* The guarded fetch dates a payment before its awaited
  evaluation.
- *Undercounted ceiling.* The policy fetch keeps one pending evaluation for
  all requests of its closure, and any answer clears it.

Noted and not run. Each was met while translating the code; line numbers are
of files under `src/twzrd-x402-gate/src` unless another package is named.

*Ledgers and budgets.*

- The header of `outcome-ledger-x402.ts:14-15` still says that a relayed failure
  marks the attempt as not settled and a relayed success completes it, while
  the code marks both unknown.
- `spend-ledger-file.ts:7-8` says that truncation breaks the chain, which a
  missing tail does not; two processes on one file write one `prev` twice, and
  the next open throws.
- `outcome-ledger-x402.ts:385-419` gives the check a transaction the seller chose
  and the terms, and nothing ties it to the attempt or rejects one seen before:
  a payment on the same terms completes a record whose own payment is pending,
  where `docs/OUTCOME_CONTRACT.md:17` says "settlement confirmed" and line 24 that
  no unresolved payment is bypassed. `SettledIsTrue` claims no more than a
  transaction on the terms, and `NoBypass` takes the confirmation for evidence.
- A payer that throws and an append that throws after it leave the reservation
  held until the process ends: `release()` follows `recordSpend()` in the finally
  block (`spend-control.ts:388-389`), whose comment says that the reservation is
  dropped. The cap is only kept more strictly (`PendingIsReserved`).
- Calls without a cap reserve nothing (`spend-control.ts:289`); Payment Control
  books its spend before later steps of the hook abort.
- A payer that throws leaves the evaluation of `policy-fetch.ts:99` pending;
  `markUnknown` on an attempt resolved meanwhile throws over a good response
  (`outcome-ledger-x402.ts:381`); the consume-once registry is per process.

*Transparency log* (`twzrd-log-verifier/src`).

- Observations of one store that overlap compare with the pin they read before
  the await (`pinning.ts:133`, `:231`) and can accept a fork or roll the pin back,
  which the header (lines 13-16) excludes. The model keeps both; the property
  and the theorem speak of observations that do not overlap.
- An equivocation can be reported without a proof if the restored pin no
  longer verifies (line 54 says it is proven).
- The anchor memo binds whatever program and ledger are pinned.
- `merkle.ts:189` tests for a power of two with `&`, which reads 32 bits: from
  2^32 on it takes other sizes for one. And with more than 2^31 entries an
  honest consistency proof can have 33 hashes, where line 19 allows 32. The theorems
  are on trees of up to `MaxTreeSize` = 2^31 - 1 entries, the heads' histories
  included (`HistoriesAssumption`); soundness of the two verifications is
  proved for every size, with an exact `IsPowerOfTwo`.

*Verdicts and hooks.*

- A failed quick score skips a hard required receipt and pays
  (`x402-client-hook.ts:502-529`); a paid answer without a `twzrd_receipt`
  satisfies it.
- So does `evaluate.ts:278-283`: an escalation without a score approves as the
  free decision did, while lines 36-43 and 224-225 drop the receipt "only if the
  cheap hop did not already settle"; and a 200 without a receipt satisfies a
  policy that denies "if Path A cannot be obtained" (`receipt-policy.ts:26-27`).
  `ApprovalIsEarned` says which approvals these are.
- `evaluate.ts` denies a rail nobody scored when a hard receipt is required and
  no fetch is given (397-412), where line 101 promises otherwise; its comments
  near 226 claim checks of a receipt's decision that `attemptReceipt` lacks; it
  drops `refuseUncappedWarn` and `intelTimeoutMs`, as `with-guard.ts` does.
- `policy.ts` looks wash up under the card's seller wallet, else `payTo`; an
  entry that fails open skips wash and caps; an allow of unknown price is
  uncapped. `wash-default.ts:279` says every answer that is no boolean fails
  open, and the code refuses.
- `mpp-hook.ts:424-426`: a nested cluster shadows `methodDetails.network` beside
  it, by which the wallet pays (lines 53-57); the record then names the cluster.
  The challenges of the run hold the case, and `CredentialIsRecorded` says that
  it is the only one in which the network may differ.
- A late screen of `seller-hook.ts` reports a second decision, which may
  contradict the first; what was settled does not change (`SettlesOnEvidence`).

*Wrappers and binding.*

- `resource-bind.ts:231` prefers a cached invoice that may be stale, and the
  resource itself is never compared.
- `paying-fetch.ts:96`, `:136`: calls share `lastChallenge`, and a free answer
  after a paid route is filed too; an answer lost after paying goes to the
  router and pays again (141-149); a 402 that answers a payment is screened anew
  and may refuse a call that has paid.
- `safe-fetch.ts` files its observation under the first challenge's payee, even
  if the payer met another; a row that is a probe error uses up the hop of the
  cold start.

*Demand Desk.* Only `approved` is marked as signing
(`demand-desk-wallet.ts:89-97`); a batch is authorized once and its signer
awaited per item (line 120, comment at 65). The model keeps both.

*Evidence.*

- `evidence-verify.ts` prints a failed linkage as asserted where line 782 says
  refuted (also 987), labels self-anchored hashes as machine-verified against
  lines 554-559, and so labels `redactions_derived` when the scan is dirty
  (870-873) and `internally_consistent` without a decision, although
  lines 542-544 read no skipped check as verified and line 783 has the label track
  the outcome. The run reaches both, and `ReportIsEarned` states both labels as they are. Its published fields and its
  waivers differ (930-933). Its comments still describe the lineage as default
  where it is guarded.
- Without `@scure/base` an outcome signature reads "failed" and not
  "unchecked" (542-544); `outcomeAttestation.outcome` is never compared with
  the preimage, so that an edited `blocked_never_signed` reads ok over a signed
  `settled` (the run reaches it, `ReportIsEarned` claims nothing of it), and the head and the anchor of its settlement are not bound by
  the leaf.
- `fulfillment-record.ts:355`: a scheduled flush on a rejected writer is an
  unhandled rejection, and one failed write drops every later row (316).

*Counsel.* A role that misses a field lists every other field it has as
checked, so a flag that is no boolean is then not listed as skipped, as
`counsel_orchestration/decide.py:37-39` says it is.

## The proofs

Eight modules hold proofs. None assumes bounds: what a constant bounds (rows,
clock, calls) only removes steps.

| Module | Proves | Argument |
|---|---|---|
| `OutcomeLedgerProofs` | the safety of `outcome_ledger`, the refinement of `OnePayment` | `LedgerInv`, below |
| `OutcomeX402Proofs` | types, `NoBypass`, `OutstandingIsRecorded`, `SettledIsTrue`, if `ReconcileInFlight = FALSE`; without it `outcome_x402_late_answer` is the counterexample | where a call is and what the chain says of it match; one unresolved call per operation; the record of an unresolved intent names its payer, also across restarts |
| `Inductions` | what a sum over a finite set is: independent of the order, additive, monotone; that the proofs `merkle.ts` accepts are sound, and the ones it makes accepted | below |
| `SpendControlProofs` | types, `PendingIsReserved`, `RecordedOnce`, `CapHolds`; memory agrees with the file | appends go to both or, after a failure, to the same prefix; the holders of each key can be ranked in an order in which each found room (`Ranked`) |
| `BuyerFetchProofs` | types, `SignedOnRecord`, `HourlyCap` | every row of a call is in one place of the pipeline buffer, queue, log; a ticket names a batch that is in front of all later rows; what is reserved counts besides what is spent (`Counted`) |
| `GuardedBudgetProofs` | types, `CheckedWithinCap` | a hook that still evaluates is counted in its hour from its check on (`CountedWithinCap`), and pruning drops nothing that is in the window (`KeepsWindow`) |
| `PolicyRuntimeProofs` | types, `SlotTakenBySignature`, `CeilingsHold`, `SignedWithinCeilings` | a slot is taken by the step that signs, and by no other; the ceilings bound what is recorded, failed evaluations included (`WindowsKept`); a signature falls into its token's lifetime (`SignedAlive`) |
| `BuyerSurfacesProofs` | every safety property of `buyer_surfaces`, its types included, machine by machine and then for the composition | below |

**Sums.** Every budget is a sum over a set of calls, which the community
modules define by a recursive function that takes elements by `CHOOSE`. That
this function exists and does not depend on the choices is an induction on the
size of the set. The library's induction rules cannot be instantiated here, so
each induction of `Inductions` has the shape of a least counterexample: the
sizes of the sets that go wrong are a set of naturals, and its least element
(`NatLessThanWellFounded`) is one step away from a set that does not. With
additivity and monotonicity the caps follow. None is inductive as it stands,
because the step that signs, passes or records does not look at the cap
again. `CapHolds` needed most: capped calls carry different caps, so the
argument is that the calls that hold budget under a key can be listed such
that each, added to those before it, was within its own cap; the last of them
that paid is the witness of `CapKept`.

**Trees.** The second part of `Inductions` is on `Merkle`. The tree hash is a
recursive function on the spans of the entries and the verifications are walks
over a path, so there are three kinds of induction, each again a least
counterexample: on the size of a tree, on the width of a span, on the steps of
a walk.

- Two trees of one size with one root have the same entries
  (`SameRootSameEntries`): the halves of a span are cut at the same place, so
  their hashes are equal too.
- `InclusionIsSound` goes along the walk. The walk is always at a node of the
  tree that is over the index, and if its hash is that node's, then the leaf
  hash it started from is the one of the entry at the index (`WalkStaysOver`):
  a node's two hashes determine its children's. At a right edge the verifier
  skips the levels on which the last node has no sibling; there the node that
  is hashed in is the one the odd part of the position names (`OddPart`).
- `ConsistencyIsSound` carries two hashes back: one that ends the old tree and
  one that begins at the same entry in the new tree, with all entries before it
  equal. At the first node both are the same hash.
- `ConsistencyIsComplete` goes along the recursion of `consistencyProof`
  instead. The positions of the verifier's walk are those of the last old entry
  and the last new one, level by level, so at each span that the proof was
  made of the two accumulators are the hashes of what the span has of the old
  and of the new tree. The depth bound is that a proof has at most one hash
  more than the tree has levels.
- `InclusionIsComplete` is the same argument for `inclusionProof`: both proofs
  go down the tree to one entry and differ in where they end (`MadeOf`), so the
  depth bound is shared, and a step of the inclusion walk does to its one
  accumulator what a step of the consistency walk does to its second
  (`StepAtSpan`).

The log's theorems then speak of the code as it is: no pin, verdict or approval
depends on a hypothesis about proofs.

**The surfaces.** `BuyerSurfaces` moves one machine at a time, so a behaviour of
the whole is one of every machine (`MachinesMove`, `MachinesRun`). Each machine
then has an invariant of its own and a theorem on its own specification, and
`SurfacesPayWithinBounds`, `LogVerdictsAreEarned`, `LogIsTrustedOnProof` and
`SurfacesKeepTheirWord` put them together. What made them inductive:

- `SettleInv`: before the end the guard is unanswered or timed out, and what it
  says is grounded in the answer in hand.
- `PinInv`: whatever is pinned or saved is a signed head; while observations do
  not overlap, the pin and its saved copy also extend all that was accepted
  (`Unbroken`).
- `DeskInv`: what the signer holds was vouched for (`HoldsVouched`); a signed
  hash has left the states a replay check passes, until a new clearance
  (`AllUsedUp`). A priority fee is rounded up, so that a bound on the rounded
  fee bounds price times units (`PriorityFee`).
- `CommandInv`, `CounselInv`: nothing is found before the command ends; the
  roles read so far are those before the index, and the handoff is the fifth's.
- `HookInv`, `EvalInv`, `SafeInv`, `MppInv`: one disjunct per stage that says
  what the stages before it established of this payment (`Taken`, `EvalFree`,
  `Payable`, `Granted`). Under it lies what an approval means
  (`WithinFreeBounds` of whatever `ApprovePayment` approves), a case
  distinction over the verdict that is proved once and used by four machines.
- `BindInv`: the hash stands for the entry that was selected, whatever the cache
  holds by then.
- `WrapInv`: what was screened of this 402 passed, what was paid is vouched for
  by a screening kept with it, and earlier payments are on earlier legs and of
  402s met before the one that is refused.
  `offerKey` has to tell apart all an approval reads (`SameKeySameOffer`).
- `FulfilInv`: the batches and the buffer cut the recorded rows into consecutive
  pieces (`Cuts`), and a flush waits for rows before a cut.
- `ColdInv`: the rows are of the diet until the hop ends; a listed row is vetted
  as it is added.
- `SurfacesTyped` needs an invariant per machine as well (`GateShaped`,
  `MppShaped`, `BindShaped` and their like): the shape of what is in hand at
  each stage, of caches and of lists built in a loop. The loop over `accepts`
  is an induction in the form of a least counterexample, as for sums.
- `EvidenceInv` (a label follows from the checks by `Coded`, which says that an
  error code is given exactly where its condition holds): no edit makes a signature of the operator's key that the
  operator did not make (`Authentic`), and a report is on the bundle at hand.

**Assumptions.** Every assumption on a constant is a named `ASSUME` of the
module that declares it and is evaluated by TLC on the values of its run. They
say what the code reads, not what it decides: sets of calls are finite, amounts,
caps and clock readings are numbers, an optional field that is there is
well-formed, a list is a sequence, a decision record an object or none, a
merchant card that was found came of a lookup that reached the service, a
decoded transaction has its three parts, a URL has a host. Of signatures they
say that nobody forges one: a head under a trusted key is the log's
(`SignedAssumption`, `PinsAssumption`, `CommandHeadsAssumption`), an anchor memo
the authority's (`AuthorityAssumption`), a clearance key the issuer's
(`KeysAssumption`). Of the cold start they say how `cold-start.ts:496-499`
configures the gate (`ColdConfigsAssumption`).

Of `merkle.ts` nothing is assumed. A list is a sequence and a history has at
most `MaxTreeSize` entries, which is all that `HistoriesAssumption`,
`PathsAssumption`, `CommandPathsAssumption`, `InclusionsAssumption` and
`LogAnswersAssumption` say of trees and paths.

**What the proofs changed.** A selection out of a list by its own predicate
(`SelectSeq`) has an operator as an argument, of which the provers can use no
property. So `ResourceBind` finds its entries by their positions, the policy of
`ColdStart` is the set of positions it lists, and `PayingFetch` keeps the
distinct offers as a set of keys: the order is the list's in each case. The
loop of `rememberRawInvoice` over `accepts` is a recursive function on
positions for the same reason (`Remember`).
`FulfilmentVerdict` had been written with a `CASE` whose branches overlap,
which leaves the choice open; it is now the conditional chain of the code
(`fulfillment-record.ts:212-218`).

The invariant of `OutcomeLedgerProofs` is
`LedgerInv == TypeOK /\ MemoryIsReplay /\ Sound(file)`. None of
the safety properties is inductive alone. That a signature is preceded by a
settled one (`SignaturesApart`) survives an append only because the record of
the intent, on which the table `LEGAL` is consulted, is the last row of the
intent in the file; while the process is down there are no records, so the
argument has to be made about the file. `Sound` therefore says of the file
alone, besides the safety properties, that every row has an opening row of its
intent before it (`OpenedBefore`), that every decision in it counts as used
(`DecisionsUsed`) and no two intents' records share one (`DecisionsApart`),
that an approved record has only its opening row (`ApprovedIsFresh`), and that
a signature is still paying in the replay or followed by a row that settles it
(`SettledOrPaying`).
`MemoryIsReplay` links the file to the memory the guards read.

The order of the argument:

1. `LastExists`, `AppendedIsLast`, `RowsOfAppend`: what the last position of a
   set of rows is, and what an append does to it.
2. `ReplayAppend`: replaying a file with one more row is replaying the file and
   applying the row. `Replay` is a direct definition, which is what the other
   lemmas can work with; `LoopReplays` shows of every sound file, by induction
   on its rows, that the loop of `createFileOutcomeLedger` gets there
   (`ReplayIsFold`).
3. `SoundAppend`: a row that is legal for the replayed records keeps the file sound.
4. One lemma per kind of operation shows that the row it writes is legal; a
   failed append, a crash and an open leave the file alone (`NextInv`).
5. `Invariance`, and the properties as its parts.
6. `RowInPromise`: a row is a payment, an established outcome or nothing to
   `OnePayment`, hence `ImplementsOnePayment`.

Only model-checked: the liveness properties (`ReleasesApproval`,
`SettlementReachesDisk`), as liveness under fairness is out of the prover's
reach.

## Not modelled, and why

Hash functions and signature schemes: a hash is what it is of, a signature
names its key. Canonical JSON, base58, address derivation, the parsing of
amounts: the models take what two spellings denote. HTTP, printing, telemetry,
installation on a client, re-exports. `intent.ts` and `intent-adapters.ts` are
stateless conversions. `ssrf.ts`, `block-proof.ts`, `record-leash-settle.ts`,
`sponsored.ts` and the demos keep nothing and print or post what the modelled
parts produced. Two processes on one ledger file: the code excludes it. A clock
that steps backwards, except in `OutcomeLedger`. Rotation of the decision
ledger, two rotations in one millisecond included. Loss of power. Built output
(`dist`), scripts, and the plugins, which wrap the gate.

## Plan

Done: the ledgers, budgets and tokens; the surfaces that decide, pay and
publish; the log verifier; the proofs above. What is left, in order:

1. The spend side of `BuyerFetch` and `SpendControl` as refinements of one
   abstract budget.
2. `DemandDesk` over `OutcomeLedger` instead of over an arbitrary host ledger,
   and the guarded fetch's budget together with its x402 bracket.
3. Overlapping observations as a run of their own, with the fork that they accept.
4. Echoed attempt headers of the wrappers, `ssrf.ts`, rotation of the decision
   ledger.
