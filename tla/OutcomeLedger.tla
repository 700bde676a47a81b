---------------------------- MODULE OutcomeLedger ----------------------------
(***************************************************************************)
(* The file-backed outcome ledger of outcome-ledger.ts: one writing        *)
(* process, an append-only file, and a memory that is rebuilt from the     *)
(* file when the process starts.  Callers may invoke any operation at any  *)
(* moment, with any clock reading; an operation whose guard is false       *)
(* throws and changes nothing, so it is no step.                           *)
(***************************************************************************)
EXTENDS OutcomeRecords, Sequences, FiniteSetsExt

CONSTANTS
  Times,        \* clock readings: the "now" of an operation
  Approvals,    \* the approvals callers open attempts with
  Amounts,      \* all-in settled amounts reported to complete()
  MaxRows       \* bound: rows the file may hold

ASSUME TimesAssumption == Times \subseteq Nat
ASSUME ApprovalsAssumption == Approvals \subseteq [expiresAt : Nat, cap : Nat]
ASSUME AmountsAssumption == Amounts \subseteq Nat

VARIABLES
  file,         \* the rows on disk, oldest first
  intact,       \* does every line on disk still parse and chain?
  status,       \* "up", "down", or "failed": the file could not be opened
  records,      \* memory: the latest attempt on each intent
  used          \* memory: every decision id that opened an attempt

vars == <<file, intact, status, records, used>>

(***************************************************************************)
(* One row per transition.  Only the opening row carries the approval;     *)
(* the settled amount is on the row complete() writes.                     *)
(***************************************************************************)
Row(i, d, s, t) ==
  [intent |-> i, decision |-> d, state |-> s, at |-> t,
   approval |-> NoApproval, amount |-> 0]

OpeningRow(i, d, a, t) == [Row(i, d, "approved", t) EXCEPT !.approval = a]

TransitionRow(recs, i, s, t) == Row(i, recs[i].decision, s, t)

ApplyRow(recs, row) ==
  [recs EXCEPT ![row.intent] =
     IF row.state = "approved"
       THEN [state |-> "approved", decision |-> row.decision,
             approval |-> row.approval]
       ELSE [@ EXCEPT !.state = row.state]]

(***************************************************************************)
(* What replaying a file yields: for each intent the state of its last     *)
(* row, under the decision and the approval of its last opening row.       *)
(***************************************************************************)
RowsOf(f, i) == {k \in DOMAIN f : f[k].intent = i}

OpeningRowsOf(f, i) == {k \in RowsOf(f, i) : f[k].state = "approved"}

\* Slips: a replay that keeps the first approval of an intent; one that
\* forgets which decision ids were used.
ReplayKeepingFirst(f) ==
  [i \in Intents |->
     IF RowsOf(f, i) = {} THEN NoRecord
     ELSE LET opening == f[Min(OpeningRowsOf(f, i))]
          IN  [state    |-> f[Max(RowsOf(f, i))].state,
               decision |-> opening.decision,
               approval |-> opening.approval]]

Replay(f) ==
  [i \in Intents |->
     IF RowsOf(f, i) = {} THEN NoRecord
     ELSE LET opening == f[Max(OpeningRowsOf(f, i))]
          IN  [state    |-> f[Max(RowsOf(f, i))].state,
               decision |-> opening.decision,
               approval |-> opening.approval]]

DecisionsIn(f, S) == {f[k].decision : k \in {j \in DOMAIN f : f[j].state \in S}}

ReplayUsedForgotten(f) == {}

ReplayUsed(f) == DecisionsIn(f, {"approved"})

(***************************************************************************)
(* How createFileOutcomeLedger gets there: a loop over the rows.           *)
(***************************************************************************)
NothingReplayed == [records |-> [i \in Intents |-> NoRecord], used |-> {}]

RowReplayed(memory, row) ==
  [records |-> ApplyRow(memory.records, row),
   used    |-> IF row.state = "approved" THEN memory.used \cup {row.decision} ELSE memory.used]

ReplayLoop(f) ==
  LET after[n \in 0 .. Len(f)] == IF n = 0 THEN NothingReplayed ELSE RowReplayed(after[n - 1], f[n])
  IN after[Len(f)]

(***************************************************************************)
(* commit: the append comes first, then memory.  Both are synchronous, so  *)
(* no other operation sees the one without the other.                      *)
(***************************************************************************)
Commit(row) ==
  /\ file' = Append(file, row)
  /\ records' = ApplyRow(records, row)
  /\ used' = IF row.state = "approved" THEN used \cup {row.decision} ELSE used
  /\ UNCHANGED <<intact, status>>

CommitBoth(row, next) ==
  /\ file' = Append(Append(file, row), next)
  /\ records' = ApplyRow(ApplyRow(records, row), next)
  /\ used' = used \cup {next.decision}
  /\ UNCHANGED <<intact, status>>

Room(n) == Len(file) + n <= MaxRows

Transition(i, s, t) ==
  /\ status = "up"
  /\ Room(1)
  /\ <<records[i].state, s>> \in LEGAL
  /\ Commit(TransitionRow(records, i, s, t))

-----------------------------------------------------------------------------
(* begin() with no lapsed approval in the way *)
BeginFresh(i, d, a, t) ==
  /\ status = "up"
  /\ Room(1)
  /\ ~ApprovedLapsed(records[i], t)
  /\ CanAttempt(records[i], used, d, t)
  /\ Commit(OpeningRow(i, d, a, t))

(* begin() over a lapsed approval: the lapse is written before the opening
   row.  A begin() that writes the lapse and is then refused for its
   decision id leaves exactly what Lapse leaves. *)
BeginAfterLapse(i, d, a, t) ==
  /\ status = "up"
  /\ Room(2)
  /\ ApprovedLapsed(records[i], t)
  /\ LET lapse == TransitionRow(records, i, "expired", t)
     IN  /\ <<records[i].state, "expired">> \in LEGAL
         /\ CanAttempt(ApplyRow(records, lapse)[i], used, d, t)
         /\ CommitBoth(lapse, OpeningRow(i, d, a, t))

Begin(i, d, a, t) == BeginFresh(i, d, a, t) \/ BeginAfterLapse(i, d, a, t)

Refuse(i, t) == Transition(i, "refused", t)

Lapse(i, t) ==
  /\ ApprovedLapsed(records[i], t)
  /\ Transition(i, "expired", t)

\* A slip: the expiry itself still counts as in time.
MarkSigningAtExpiry(i, t) ==
  /\ records[i].state = "approved"
  /\ IF t <= records[i].approval.expiresAt
       THEN Transition(i, "signing", t)
       ELSE Transition(i, "expired", t)

(* markSigning(): past the expiry it records the lapse and throws *)
MarkSigning(i, t) ==
  /\ records[i].state = "approved"
  /\ IF t < records[i].approval.expiresAt
       THEN Transition(i, "signing", t)
       ELSE Transition(i, "expired", t)

MarkUnknown(i, t) == Transition(i, "unknown", t)

Complete(i, ok, sameRule, amount, t) ==
  LET to == CompletionState(records[i], ok, sameRule, amount)
  IN  /\ status = "up"
      /\ Room(1)
      /\ <<records[i].state, to>> \in LEGAL
      /\ Commit([TransitionRow(records, i, to, t) EXCEPT !.amount = amount])

MarkNotSettled(i, t) == Transition(i, "not_settled", t)

(***************************************************************************)
(* The world around the ledger.  A failed append leaves part of a line on  *)
(* disk: the operation throws and memory is as before, but the file no     *)
(* longer parses, whatever is appended later.  A crash loses the memory.   *)
(* Opening replays the file, or throws on one that is damaged.             *)
(***************************************************************************)
\* A slip: memory first, so a failed append leaves the attempt in memory only.
AppendFailsAfterMemory ==
  /\ status = "up"
  /\ intact' = FALSE
  /\ \E i \in Intents :
       /\ <<records[i].state, "signing">> \in LEGAL
       /\ records' = [records EXCEPT ![i].state = "signing"]
  /\ UNCHANGED <<file, status, used>>

AppendFails ==
  /\ status = "up"
  /\ intact' = FALSE
  /\ UNCHANGED <<file, status, records, used>>

Crash ==
  /\ status = "up"
  /\ status' = "down"
  /\ records' = [i \in Intents |-> NoRecord]
  /\ used' = {}
  /\ UNCHANGED <<file, intact>>

Open ==
  /\ status = "down"
  /\ IF intact
       THEN /\ status' = "up"
            /\ records' = Replay(file)
            /\ used' = ReplayUsed(file)
       ELSE /\ status' = "failed"
            /\ UNCHANGED <<records, used>>
  /\ UNCHANGED <<file, intact>>

Init ==
  /\ file = <<>>
  /\ intact = TRUE
  /\ status = "up"
  /\ records = [i \in Intents |-> NoRecord]
  /\ used = {}

Operation(i, t) ==
  \/ \E d \in Decisions, a \in Approvals : Begin(i, d, a, t)
  \/ Refuse(i, t)
  \/ Lapse(i, t)
  \/ MarkSigning(i, t)
  \/ MarkUnknown(i, t)
  \/ \E ok, sameRule \in BOOLEAN, amount \in Amounts :
       Complete(i, ok, sameRule, amount, t)
  \/ MarkNotSettled(i, t)

Next ==
  \/ \E i \in Intents, t \in Times : Operation(i, t)
  \/ AppendFails
  \/ Crash
  \/ Open

Spec == Init /\ [][Next]_vars
-----------------------------------------------------------------------------
Rows ==
  [intent : Intents, decision : Decisions, state : States, at : Times,
   approval : Approvals \cup {NoApproval}, amount : Amounts \cup {0}]

Records ==
  [state : States, decision : Decisions, approval : Approvals] \cup {NoRecord}

(* Type correctness of the file, the process and its memory. *)
TypeOK ==
  /\ file \in Seq(Rows)
  /\ intact \in BOOLEAN
  /\ status \in {"up", "down", "failed"}
  /\ records \in [Intents -> Records]
  /\ used \subseteq Decisions

(* What a running process decides on is what a restart would rebuild from
   the file: "disk before memory" in commit() and the replay on open agree,
   after any interleaving of operations, failed appends and crashes. *)
MemoryIsReplay ==
  status = "up" =>
    /\ records = Replay(file)
    /\ used = ReplayUsed(file)

(* The loop over the rows of the file, one at a time, ends with what Replay and
   ReplayUsed read off the file as a whole: the last approval of each intent,
   its last state and every decision ever used. *)
ReplayIsFold == ReplayLoop(file) = [records |-> Replay(file), used |-> ReplayUsed(file)]

(***************************************************************************)
(* The safety of a file, stated of any sequence of rows.                   *)
(***************************************************************************)
SignaturesApart(f) ==
  \A k, m \in DOMAIN f :
    /\ k < m
    /\ f[k].intent = f[m].intent
    /\ f[k].state = "signing"
    /\ f[m].state = "signing"
    => \E j \in k .. m : /\ f[j].intent = f[k].intent
                         /\ f[j].state \in SettledStates

DecisionsSingleUse(f) ==
  \A k, m \in DOMAIN f :
    /\ f[k].decision = f[m].decision
    /\ f[k].state = f[m].state
    /\ f[k].state \in {"approved", "signing"}
    => k = m

RefusalsUnsigned(f) ==
  \A k, m \in DOMAIN f :
    ~ /\ f[k].decision = f[m].decision
      /\ f[k].state \in {"refused", "expired"}
      /\ f[m].state = "signing"

\* The approval that row k acts under: the last one opened on its intent.
ApprovalOf(f, k) ==
  f[Max({j \in OpeningRowsOf(f, f[k].intent) : j <= k})].approval

SignaturesInTime(f) ==
  \A k \in DOMAIN f :
    f[k].state = "signing" => f[k].at < ApprovalOf(f, k).expiresAt

CompletionsInCap(f) ==
  \A k \in DOMAIN f :
    f[k].state = "completed" => f[k].amount <= ApprovalOf(f, k).cap

(* "A fresh approval must not bypass an unresolved payment": between two
   signatures on one intent, restarts included, the file holds a row that
   establishes what became of the first. *)
OneUnresolvedPayment == SignaturesApart(file)

(* "An approval is single-use": no decision id opens two attempts or backs
   two signatures, whatever intents they name and however often the process
   restarts. *)
ApprovalSingleUse == DecisionsSingleUse(file)

(* "refused / expired: never signed": an approval that was refused or lapsed
   backs no signature before or after. *)
RefusedNeverSigned == RefusalsUnsigned(file)

(* The signer is reached only before the expiry of the approval that is
   being signed under, also when that approval replaced a lapsed one. *)
SignedBeforeExpiry == SignaturesInTime(file)

(* A completed outcome never stands for more than its own approval allowed,
   however many attempts with other caps the intent has seen. *)
CompletedWithinApproval == CompletionsInCap(file)

-----------------------------------------------------------------------------
(***************************************************************************)
(* The promise, read off the file: a payment is outstanding while a replay *)
(* would show its attempt as signing or unknown.                           *)
(***************************************************************************)
OutstandingIn(f) ==
  [i \in Intents |->
     IF Replay(f)[i].state \in PayingStates
       THEN Replay(f)[i].decision
       ELSE NoDecision]

Outstanding == OutstandingIn(file)

Paid == DecisionsIn(file, {"signing"})

Established == DecisionsIn(file, SettledStates)

Promise ==
  INSTANCE OnePayment WITH outstanding <- Outstanding, paid <- Paid,
                           established <- Established

(* The ledger implements OnePayment: no crash, failed append, replay or
   lapse of time is ever seen as a payment or as the end of one. *)
KeepsPromise == Promise!Spec
=============================================================================
