---------------------------- MODULE Fulfillment ----------------------------
(***************************************************************************)
(* fulfillment-record.ts: the record kept of what a paid call was given,   *)
(* built when its bodies have been read, after the caller has the answer,  *)
(* and the file the records are queued for.  A row stands for its call.    *)
(* An answer is [status, settle, body, requested]: settle is the decoded   *)
(* response header [success, tx], body what was read of a JSON answer      *)
(* [tx, ready, status, provider, model], None if it is no JSON or too      *)
(* long, requested the model asked for.  A model is [name, snapshots].     *)
(***************************************************************************)
EXTENDS Offers

CONSTANTS
  PaidCalls,
  PaymentHeaders,  \* what a payment header may decode to, None if it does not
  CallAnswers

VARIABLE fulfil    \* [calls, recorded, pending, batches, broken, disk, flush]
fulfilVars == <<fulfil>>

-----------------------------------------------------------------------------
(* buildFulfillmentRecord.                                                 *)

\* signedTerms: of the accepted requirement of a v2 payment, or of a v1 authorization.
SignedTerms(payment) ==
  IF payment = None THEN [paidTo |-> None, amount |-> None]
  ELSE LET req == payment[1]
       IN [paidTo |-> IF Conflicted(req) THEN None ELSE PayTo(req),
           amount |-> IF Conflicted(req) THEN None ELSE Amount(req)]

\* sameTx: only a hash in hex is compared in any case.
SameTx(a, b) == a.id = b.id /\ (a.hex \/ a.spelling = b.spelling)

TerminalNotReady == {"failed", "expired"}
RouterAliases == {"auto"}

\* modelMatches: None when a router's profile was asked for.
ModelMatches(requested, served) ==
  IF requested.name \in RouterAliases THEN None
  ELSE <<requested.name = served.name
           /\ \/ served.snapshots = requested.snapshots
              \/ \E s \in Range(served.snapshots) : served.snapshots = Append(requested.snapshots, s)>>

NoBody == [tx |-> None, ready |-> None, status |-> None, provider |-> FALSE, model |-> None]
BodyOf(answer) == IF answer.body = None THEN NoBody ELSE answer.body[1]
SettledOf(answer) == IF answer.settle = None THEN None ELSE answer.settle[1].success
HeaderTx(answer) == IF answer.settle = None THEN None ELSE answer.settle[1].tx

\* A model is compared only where no provider is named.
ModelCheck(answer) ==
  LET body == BodyOf(answer)
  IN IF body.provider \/ None \in {body.model, answer.requested} THEN None
     ELSE ModelMatches(answer.requested[1], body.model[1])

Reasons(answer) ==
  LET body == BodyOf(answer)
      reason(name, holds) == IF holds THEN {name} ELSE {}
  IN reason("settle_failed", SettledOf(answer) = <<FALSE>>)
       \cup reason("paid_http_error", SettledOf(answer) = <<TRUE>> /\ answer.status \notin 200 .. 299)
       \cup reason("tx_disagrees", /\ HeaderTx(answer) # None /\ body.tx # None
                                   /\ ~SameTx(HeaderTx(answer)[1], body.tx[1]))
       \cup reason("not_ready", /\ body.ready = <<FALSE>>
                                /\ body.status # None /\ body.status[1] \in TerminalNotReady)
       \cup reason("model_substituted", ModelCheck(answer) = <<FALSE>>)

FulfilmentVerdict(answer) ==
  LET ready == BodyOf(answer).ready
  IN IF Reasons(answer) # {} THEN "mismatch"
     ELSE IF ready = <<FALSE>> THEN "pending"
     ELSE IF ready = <<TRUE>> \/ ModelCheck(answer) = <<TRUE>> THEN "match"
     ELSE "not_reported"

BuildRecord(payment, answer) ==
  [terms |-> SignedTerms(payment), tx |-> Or(HeaderTx(answer), BodyOf(answer).tx),
   settled |-> SettledOf(answer), verdict |-> FulfilmentVerdict(answer), reasons |-> Reasons(answer)]

-----------------------------------------------------------------------------
(* wrapFetchRecordFulfillment and createFileFulfillmentLog.                *)

CallIdle == [at |-> "idle", payment |-> None, answer |-> None, record |-> None]
FulfilIdle ==
  [calls |-> [c \in PaidCalls |-> CallIdle], recorded |-> <<>>, pending |-> <<>>, batches |-> <<>>,
   broken |-> FALSE, disk |-> <<>>, flush |-> [at |-> "none", rows |-> {}, behind |-> 0]]

\* A request without a payment header, or one whose transport throws, is not recorded.
PassesThrough(c) ==
  /\ fulfil.calls[c] = CallIdle
  /\ fulfil' = [fulfil EXCEPT !.calls[c].at = "passed"]

\* The caller has the answer; its bodies are still being read.
PaidAnswer(c) ==
  /\ fulfil.calls[c] = CallIdle
  /\ \E payment \in PaymentHeaders, reply \in CallAnswers :
       fulfil' = [fulfil EXCEPT !.calls[c] =
                    [@ EXCEPT !.at = "reading", !.payment = payment, !.answer = <<reply>>]]

\* The record, in the order the bodies end: onRecord is the log's record.
Recorded(c) ==
  /\ fulfil.calls[c].at = "reading"
  /\ LET call == fulfil.calls[c]
     IN fulfil' = [fulfil EXCEPT
          !.calls[c].at = "recorded", !.calls[c].record = <<BuildRecord(call.payment, call.answer[1])>>,
          !.recorded = Append(@, c), !.pending = Append(@, c)]

\* An onRecord of the caller's own that throws is swallowed.
RecordThrows(c) ==
  /\ fulfil.calls[c].at = "reading"
  /\ fulfil' = [fulfil EXCEPT !.calls[c].at = "swallowed"]

\* What waits becomes a batch behind those before it.
Batched(f) ==
  IF f.pending = <<>> THEN f
  ELSE [f EXCEPT !.batches = Append(@, f.pending), !.pending = <<>>]

\* The microtask that record() queued.
FlushTask ==
  /\ fulfil.pending # <<>>
  /\ fulfil' = Batched(fulfil)

\* The host asks for a flush, and awaits every batch until now.
FlushAsked ==
  /\ fulfil.flush.at = "none"
  /\ LET flushed == Batched(fulfil)
     IN fulfil' = [flushed EXCEPT !.flush =
          [at |-> "waiting", rows |-> Range(fulfil.recorded), behind |-> Len(flushed.batches)]]

\* One batch less is ahead of the flush that waits.
Advanced(f) ==
  [f EXCEPT !.batches = Tail(@), !.flush.behind = IF @ > 0 THEN @ - 1 ELSE 0]

\* Slip: the writer goes on after a batch it could not write.
FailedOnce(f, rows) == [Advanced(f) EXCEPT !.disk = @ \o SubSeq(Head(f.batches), 1, rows)]

\* The promise the writer is chained on stays rejected.
Failed(f, rows) ==
  [Advanced(f) EXCEPT !.disk = @ \o SubSeq(Head(f.batches), 1, rows), !.broken = TRUE]

\* A file that was rotated away is still on the disk.
BatchWritten ==
  /\ fulfil.batches # <<>> /\ ~fulfil.broken
  /\ fulfil' = [Advanced(fulfil) EXCEPT !.disk = @ \o Head(fulfil.batches)]

\* stat, rename, open, append or sync fails, after some of the rows.
BatchFails ==
  /\ fulfil.batches # <<>> /\ ~fulfil.broken
  /\ \E rows \in 0 .. Len(Head(fulfil.batches)) : fulfil' = Failed(fulfil, rows)

\* Behind a rejected promise nothing is written any more.
BatchSkipped ==
  /\ fulfil.batches # <<>> /\ fulfil.broken
  /\ fulfil' = Advanced(fulfil)

FlushEnds ==
  /\ fulfil.flush.at = "waiting" /\ fulfil.flush.behind = 0
  /\ fulfil' = [fulfil EXCEPT !.flush.at = IF fulfil.broken THEN "rejected" ELSE "resolved"]

FulfilInit == fulfil = FulfilIdle
FulfilNext ==
  \/ \E c \in PaidCalls : PassesThrough(c) \/ PaidAnswer(c) \/ Recorded(c) \/ RecordThrows(c)
  \/ FlushTask \/ FlushAsked \/ BatchWritten \/ BatchFails \/ BatchSkipped \/ FlushEnds
-----------------------------------------------------------------------------
FulfilTypeOK ==
  /\ \A c \in PaidCalls : fulfil.calls[c].at \in {"idle", "passed", "reading", "recorded", "swallowed"}
  /\ fulfil.flush.at \in {"none", "waiting", "resolved", "rejected"}
  /\ fulfil.broken \in BOOLEAN

\* Rows the log holds or has written.
RowsHeld ==
  Range(fulfil.disk) \cup Range(fulfil.pending) \cup UNION {Range(b) : b \in Range(fulfil.batches)}

(* The file holds the rows of paid calls, each once and in the order they were
   recorded, a prefix of them even when the disk fails; none is missing before
   it fails; and a flush that resolved has every row recorded before it there.
   A row says match only where the settlement reported, the transaction and the
   readiness contradict nothing; the status of the answer and the model that served
   it are read by FulfilmentVerdict and not by this property. *)
FulfilmentIsKept ==
  /\ IsPrefix(fulfil.disk, fulfil.recorded) /\ IsInjective(fulfil.recorded)
  /\ ~fulfil.broken => Range(fulfil.recorded) = RowsHeld
  /\ fulfil.flush.at = "resolved" => fulfil.flush.rows \subseteq Range(fulfil.disk)
  /\ \A c \in PaidCalls : fulfil.calls[c].record # None =>
       LET answer == fulfil.calls[c].answer[1]  record == fulfil.calls[c].record[1] IN
       record.verdict = "match" =>
         /\ record.settled # <<FALSE>> /\ BodyOf(answer).ready # <<FALSE>>
         /\ HeaderTx(answer) # None => SameTx(HeaderTx(answer)[1], Or(BodyOf(answer).tx, HeaderTx(answer))[1])

-----------------------------------------------------------------------------
(* The inductive invariant of the proofs.                                   *)

FulfilFields == {"calls", "recorded", "pending", "batches", "broken", "disk", "flush"}

\* s holds the rows that were recorded after the first from of them, up to to.
Piece(s, recorded, from, to) ==
  /\ s \in Seq(PaidCalls) /\ Len(s) = to - from
  /\ \A k \in 1 .. Len(s) : s[k] = recorded[from + k]

RowsUpTo(recorded, cut) == {recorded[k] : k \in 1 .. cut}

LogShape(f) == f.recorded \in Seq(PaidCalls) /\ f.batches \in Seq(Seq(PaidCalls))

\* The batches and what is pending are the rows recorded, cut into pieces: batch
\* i ends at cut[i], and cut[0] is where the file ends while the disk holds.
\* A flush that waits is for rows before the batch it waits for ends.
Cuts(f, cut) ==
  /\ cut \in [0 .. Len(f.batches) -> 0 .. Len(f.recorded)]
  /\ \A i \in 1 .. Len(f.batches) :
       cut[i - 1] <= cut[i] /\ Piece(f.batches[i], f.recorded, cut[i - 1], cut[i])
  /\ Piece(f.pending, f.recorded, cut[Len(f.batches)], Len(f.recorded))
  /\ Len(f.disk) <= Len(f.recorded) /\ Piece(f.disk, f.recorded, 0, Len(f.disk))
  /\ ~f.broken => Len(f.disk) = cut[0]
  /\ f.flush.at = "waiting" =>
       /\ f.flush.behind \in 0 .. Len(f.batches)
       /\ f.flush.rows \subseteq RowsUpTo(f.recorded, cut[f.flush.behind])
  /\ f.flush.at = "resolved" => f.flush.rows \subseteq Range(f.disk)

\* Every call keeps the record of its own payment and answer.
RecordsBuilt ==
  \A c \in PaidCalls : fulfil.calls[c].record # None =>
    fulfil.calls[c].record = <<BuildRecord(fulfil.calls[c].payment, fulfil.calls[c].answer[1])>>

\* A call that is still reading has no record.
ReadingIsUnrecorded ==
  \A c \in PaidCalls : fulfil.calls[c].at = "reading" => fulfil.calls[c].record = None

\* A call is recorded once, when it stops reading.
RecordedAreOver ==
  /\ \A k \in DOMAIN fulfil.recorded : fulfil.calls[fulfil.recorded[k]].at = "recorded"
  /\ IsInjective(fulfil.recorded)

FulfilShape ==
  /\ fulfil = [f \in FulfilFields |-> fulfil[f]]
  /\ fulfil.calls = [c \in PaidCalls |->
       [at |-> fulfil.calls[c].at, payment |-> fulfil.calls[c].payment,
        answer |-> fulfil.calls[c].answer, record |-> fulfil.calls[c].record]]
  /\ fulfil.flush = [at |-> fulfil.flush.at, rows |-> fulfil.flush.rows, behind |-> fulfil.flush.behind]

FulfilInv ==
  /\ FulfilShape /\ LogShape(fulfil) /\ RecordsBuilt /\ ReadingIsUnrecorded /\ RecordedAreOver
  /\ \E cut : Cuts(fulfil, cut)

=============================================================================
