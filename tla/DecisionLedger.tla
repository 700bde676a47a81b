--------------------------- MODULE DecisionLedger ---------------------------
(***************************************************************************)
(* The writer of decision-ledger-file.ts: rows are buffered, a flush moves *)
(* the buffer to the end of a chain of batches, and the batches are        *)
(* written and synced one after the other.  A write that fails rejects the *)
(* chain for good.  The modules that record decisions extend this one and  *)
(* compose its operators with their own steps.                             *)
(*                                                                         *)
(* A row is whatever the caller records; rotation moves whole files and is *)
(* invisible here: log is what the file and its rotated parts hold.        *)
(***************************************************************************)
EXTENDS Integers, Sequences

CONSTANT MaxBufferedRows   \* rows that force a flush at once

ASSUME MaxBufferedRowsAssumption == MaxBufferedRows \in Nat \ {0}

VARIABLES
  buffer,      \* pending: rows recorded since the last flush
  scheduled,   \* has a flush been queued for these rows?
  microtasks,  \* the number of queued flushes that have not run
  queue,       \* the batches chained on the writer, the one in progress first
  written,     \* how many batches were written and synced
  broken,      \* has a write failed?
  log          \* the rows on disk

writer == <<buffer, scheduled, microtasks, queue, written, broken, log>>

\* What a flush that starts now must wait for: all batches chained so far.
Chained(q) == written + Len(q)

\* Slips: a flush that leaves the flag set, so later rows queue none; one that
\* leaves the buffer as it is.
FlushKeepingFlag(rs) ==
  /\ buffer' = <<>>
  /\ queue' = IF rs = <<>> THEN queue ELSE Append(queue, rs)
  /\ UNCHANGED <<scheduled, written, broken, log>>

FlushKeepingRows(rs) ==
  /\ buffer' = rs
  /\ scheduled' = FALSE
  /\ queue' = IF rs = <<>> THEN queue ELSE Append(queue, rs)
  /\ UNCHANGED <<written, broken, log>>

\* flush() with the rows rs in the buffer.
Flush(rs) ==
  /\ buffer' = <<>>
  /\ scheduled' = FALSE
  /\ queue' = IF rs = <<>> THEN queue ELSE Append(queue, rs)
  /\ UNCHANGED <<written, broken, log>>

(* record(): a full buffer is flushed at once, otherwise a flush is queued
   unless one is already. *)
RecordRow(row) ==
  LET rows == Append(buffer, row)
  IN  IF Len(rows) >= MaxBufferedRows
        THEN /\ Flush(rows)
             /\ UNCHANGED microtasks
        ELSE /\ buffer' = rows
             /\ scheduled' = TRUE
             /\ microtasks' = IF scheduled THEN microtasks ELSE microtasks + 1
             /\ UNCHANGED <<queue, written, broken, log>>

\* record() and, in the same tick, flush().
RecordAndFlush(row) ==
  LET rows == Append(buffer, row)
  IN  /\ Flush(rows)
      /\ microtasks' = IF Len(rows) >= MaxBufferedRows \/ scheduled
                         THEN microtasks ELSE microtasks + 1

\* Slip: the write is started and not awaited.
DurableAtOnce(ticket) == TRUE

\* The awaited flush resolves once its batches are on disk, and rejects when
\* one of them, or one before them, could not be written.
Durable(ticket) == ticket <= written

Rejected(ticket) == broken /\ ~Durable(ticket)

-----------------------------------------------------------------------------
Microtask ==
  /\ microtasks > 0
  /\ Flush(buffer)
  /\ microtasks' = microtasks - 1

WriteBatch ==
  /\ ~broken
  /\ queue # <<>>
  /\ log' = log \o Head(queue)
  /\ queue' = Tail(queue)
  /\ written' = written + 1
  /\ UNCHANGED <<buffer, scheduled, microtasks, broken>>

\* Some rows of the batch may be on disk all the same.
WriteFails ==
  /\ ~broken
  /\ queue # <<>>
  /\ \E n \in 0 .. Len(Head(queue)) : log' = log \o SubSeq(Head(queue), 1, n)
  /\ broken' = TRUE
  /\ UNCHANGED <<buffer, scheduled, microtasks, queue, written>>

\* The process ends: what has not reached the disk is gone.
WriterLost ==
  /\ buffer' = <<>>
  /\ scheduled' = FALSE
  /\ microtasks' = 0
  /\ queue' = <<>>
  /\ written' = 0
  /\ broken' = FALSE
  /\ UNCHANGED log

WriterInit ==
  /\ buffer = <<>>
  /\ scheduled = FALSE
  /\ microtasks = 0
  /\ queue = <<>>
  /\ written = 0
  /\ broken = FALSE
  /\ log = <<>>

WriterNext == Microtask \/ WriteBatch \/ WriteFails

WriterTypeOK(Rows) ==
  /\ buffer \in Seq(Rows)
  /\ scheduled \in BOOLEAN
  /\ microtasks \in Nat
  /\ queue \in Seq(Seq(Rows))
  /\ written \in Nat
  /\ broken \in BOOLEAN
  /\ log \in Seq(Rows)
=============================================================================
