----------------------------- MODULE BuyerFetch -----------------------------
(***************************************************************************)
(* buyer-fetch.ts over its two files: the decision ledger (module          *)
(* DecisionLedger) whose row must be durable before a payment is signed,   *)
(* and the spend ledger that the rolling hourly budget is checked against. *)
(* Calls run concurrently; each await is a place where others run, the     *)
(* clock moves, a write fails or the process dies.                         *)
(*                                                                         *)
(* One budget scope.  The spend ledger appends before it counts and        *)
(* replays on open (SpendControl models both), so one variable stands for  *)
(* its file and its memory.                                                *)
(***************************************************************************)
EXTENDS DecisionLedger, FiniteSetsExt

CONSTANTS
  Calls,      \* calls of the returned fetch that reach the pre-sign hook
  Micro,      \* what the 402 of each call asks for, in micro-USDC
  Cap,        \* hourlyBudgetCap
  Hour,       \* HOUR_MS in clock ticks
  MaxClock    \* bound: the last clock reading

ASSUME CallsAssumption == IsFiniteSet(Calls)
ASSUME MicroAssumption == Micro \in [Calls -> Nat]
ASSUME BudgetAssumption == Cap \in Nat /\ Hour \in Nat /\ MaxClock \in Nat

VARIABLES
  pc,         \* where each call is
  ticket,     \* the flush a call awaits
  inFlight,   \* reserved micro-USDC
  spentAt,    \* when each call's spend was recorded, or Never
  readable,   \* does every line of the spend file still parse and chain?
  status,     \* "up", "down", or "failed": the spend file could not be opened
  now

buyer == <<pc, ticket, inFlight, spentAt, readable, status, now>>

vars == <<buyer, writer>>

Never == -1

Row(c, kind) == [call |-> c, kind |-> kind]

Goes(c, to) == pc' = [pc EXCEPT ![c] = to]

TotalOf(S) == SumFunctionOnSet(Micro, S)

\* spentMicro(scope, HOUR_MS, t)
SpentMicro(t) == TotalOf({c \in Calls : spentAt[c] # Never /\ t - spentAt[c] <= Hour})

\* Slip: a refused call releases once itself and once in the finally block.
ReleaseTwice(c) == inFlight' = inFlight - Micro[c] - Micro[c]

Release(c) == inFlight' = IF inFlight > Micro[c] THEN inFlight - Micro[c] ELSE 0

Awaits(c) == ticket' = [ticket EXCEPT ![c] = Chained(queue')]

-----------------------------------------------------------------------------
(* refuse(): the block row is recorded and flushed, and the call waits for it
   without going on to sign, whatever becomes of the write. *)
Refuses(c) ==
  /\ RecordAndFlush(Row(c, "block"))
  /\ Goes(c, "refused")

\* The hook's checks before the budget refuse, the quoted amount included.
RefuseEarly(c) ==
  /\ status = "up"
  /\ pc[c] = "idle"
  /\ Refuses(c)
  /\ UNCHANGED <<ticket, inFlight, spentAt, readable, status, now>>

\* Slip: calls in flight are not counted.
WithinBudgetOfRecorded(c) == SpentMicro(now) + Micro[c] <= Cap

WithinBudget(c) == SpentMicro(now) + inFlight + Micro[c] <= Cap

CheckAndReserve(c) ==
  /\ status = "up"
  /\ pc[c] = "idle"
  /\ IF WithinBudget(c)
       THEN /\ inFlight' = inFlight + Micro[c]
            /\ Goes(c, "approving")
            /\ UNCHANGED writer
       ELSE /\ Refuses(c)
            /\ UNCHANGED inFlight
  /\ UNCHANGED <<ticket, spentAt, readable, status, now>>

(* The preflight does not approve, or the caller aborted meanwhile: "return
   refuse(...)" starts the write, then the finally block releases. *)
ApprovalRefused(c) ==
  /\ pc[c] = "approving"
  /\ Refuses(c)
  /\ Release(c)
  /\ UNCHANGED <<ticket, spentAt, readable, status, now>>

\* await record(attempt, "allow" | "warn", ...)
RecordAllow(c) ==
  /\ pc[c] = "approving"
  /\ RecordAndFlush(Row(c, "allow"))
  /\ Awaits(c)
  /\ Goes(c, "recording")
  /\ UNCHANGED <<inFlight, spentAt, readable, status, now>>

\* Slip: the reservation of a call that could not be recorded stays.
AllowRejectedLeaking(c) ==
  /\ pc[c] = "recording"
  /\ Rejected(ticket[c])
  /\ Goes(c, "refused")
  /\ UNCHANGED <<ticket, inFlight, spentAt, readable, status, now, writer>>

\* The write was rejected: decision_log_unavailable.
AllowRejected(c) ==
  /\ pc[c] = "recording"
  /\ Rejected(ticket[c])
  /\ Release(c)
  /\ Goes(c, "refused")
  /\ UNCHANGED <<ticket, spentAt, readable, status, now, writer>>

\* Aborted during the write: the allow row stands and a block row follows.
AbortedAfterRecord(c) ==
  /\ pc[c] = "recording"
  /\ Durable(ticket[c])
  /\ Refuses(c)
  /\ Release(c)
  /\ UNCHANGED <<ticket, spentAt, readable, status, now>>

\* ledger.record, then approvedForSigning.
CommitSpend(c) ==
  /\ pc[c] = "recording"
  /\ Durable(ticket[c])
  /\ spentAt' = [spentAt EXCEPT ![c] = now]
  /\ Release(c)
  /\ Goes(c, "signing")
  /\ UNCHANGED <<ticket, readable, status, now, writer>>

\* The append throws: spend_ledger_unavailable, a torn line may stay.
CommitFails(c) ==
  /\ pc[c] = "recording"
  /\ Durable(ticket[c])
  /\ readable' \in {readable, FALSE}
  /\ Refuses(c)
  /\ Release(c)
  /\ UNCHANGED <<ticket, spentAt, status, now>>

(* The paid leg answers.  Its PAYMENT-RESPONSE is recorded and not awaited. *)
Settled(c) ==
  /\ pc[c] = "signing"
  /\ RecordRow(Row(c, "settlement"))
  /\ Goes(c, "paid")
  /\ UNCHANGED <<ticket, inFlight, spentAt, readable, status, now>>

\* It throws, or the answer carries no readable PAYMENT-RESPONSE.
Unreported(c) ==
  /\ pc[c] = "signing"
  /\ Goes(c, "paid")
  /\ UNCHANGED <<ticket, inFlight, spentAt, readable, status, now, writer>>

-----------------------------------------------------------------------------
Reserved == {"approving", "recording"}

Running == Reserved \cup {"signing"}

Crash ==
  /\ status = "up"
  /\ status' = "down"
  /\ pc' = [c \in Calls |-> IF pc[c] = "signing" THEN "deadSigned"
                            ELSE IF pc[c] \in Running THEN "dead" ELSE pc[c]]
  /\ inFlight' = 0
  /\ WriterLost
  /\ UNCHANGED <<ticket, spentAt, readable, now>>

Restart ==
  /\ status = "down"
  /\ status' = IF readable THEN "up" ELSE "failed"
  /\ UNCHANGED <<pc, ticket, inFlight, spentAt, readable, now, writer>>

Tick ==
  /\ now < MaxClock
  /\ now' = now + 1
  /\ UNCHANGED <<pc, ticket, inFlight, spentAt, readable, status, writer>>

Writes == WriterNext /\ UNCHANGED buyer

Init ==
  /\ WriterInit
  /\ pc = [c \in Calls |-> "idle"]
  /\ ticket = [c \in Calls |-> 0]
  /\ inFlight = 0
  /\ spentAt = [c \in Calls |-> Never]
  /\ readable = TRUE
  /\ status = "up"
  /\ now = 0

Proceed(c) ==
  \/ RefuseEarly(c)
  \/ CheckAndReserve(c)
  \/ ApprovalRefused(c)
  \/ RecordAllow(c)
  \/ AllowRejected(c)
  \/ AbortedAfterRecord(c)
  \/ CommitSpend(c)
  \/ CommitFails(c)
  \/ Settled(c)
  \/ Unreported(c)

Next ==
  \/ \E c \in Calls : Proceed(c)
  \/ Writes
  \/ Crash
  \/ Restart
  \/ Tick

(* Queued microtasks run and file operations settle, one way or the other. *)
Fairness == WF_vars(Writes)

Spec == Init /\ [][Next]_vars /\ Fairness
-----------------------------------------------------------------------------
LogRows == [call : Calls, kind : {"allow", "block", "settlement"}]

Places == Running \cup {"idle", "refused", "paid", "dead", "deadSigned"}

TypeOK ==
  /\ WriterTypeOK(LogRows)
  /\ pc \in [Calls -> Places]
  /\ ticket \in [Calls -> Nat]
  /\ inFlight \in Nat
  /\ spentAt \in [Calls -> 0 .. MaxClock \cup {Never}]
  /\ readable \in BOOLEAN
  /\ status \in {"up", "down", "failed"}
  /\ now \in 0 .. MaxClock

Signed == {c \in Calls : pc[c] \in {"signing", "paid", "deadSigned"}}

(* hourlyBudgetCap: in no window of an hour do the calls that were allowed to
   sign spend more than the cap, wherever the window lies, however long each
   preflight and each disk write took, and across restarts.  Every path out of
   the hook gives back exactly what it reserved. *)
HourlyCap ==
  /\ \A t \in 0 .. MaxClock :
       TotalOf({c \in Signed : spentAt[c] \in t - Hour .. t}) <= Cap
  /\ inFlight = TotalOf({c \in Calls : pc[c] \in Reserved})

InLog(row) == \E k \in DOMAIN log : log[k] = row

(* "A local record must be durable before this wrapper permits signing": a
   signed call has its allow row and its spend on disk, also when the process
   died right after, and also when another call's batch carried its row.  The
   settlement row of a call follows its decision row in the file, and no batch
   is written twice. *)
SignedOnRecord ==
  /\ \A c \in Signed : InLog(Row(c, "allow")) /\ spentAt[c] # Never
  /\ \A k, m \in DOMAIN log :
       /\ log[k] = log[m] => k = m
       /\ log[k].kind = "settlement" =>
            \E j \in 1 .. k - 1 : log[j] = Row(log[k].call, "allow")

InWriter(row) ==
  \/ \E k \in DOMAIN buffer : buffer[k] = row
  \/ \E b \in DOMAIN queue : \E k \in DOMAIN queue[b] : queue[b][k] = row

(* A settlement row nobody awaits is written all the same, unless a write
   fails or the process dies: some flush is always under way for it. *)
SettlementReachesDisk ==
  \A c \in Calls :
    InWriter(Row(c, "settlement")) ~>
      InLog(Row(c, "settlement")) \/ broken \/ status # "up"
=============================================================================
