--------------------------- MODULE BuyerFetchProofs ---------------------------
(***************************************************************************)
(* "A local record must be durable before this wrapper permits signing",   *)
(* proved of buyer-fetch.ts over the writer of decision-ledger-file.ts,    *)
(* for any number of calls, any amounts and any size of the buffer.        *)
(***************************************************************************)
EXTENDS BuyerFetch, Inductions, SequenceTheorems

In(row, s) == \E k \in DOMAIN s : s[k] = row

InQueue(row) == \E b \in DOMAIN queue : In(row, queue[b])

Injective(s) == \A k, m \in DOMAIN s : s[k] = s[m] => k = m

(* No row is twice on its way to the disk: the log, the chained batches and
   the buffer share nothing, unless a failed write left the head of the queue
   in the log, and then nothing is written any more. *)
Distinct ==
  /\ Injective(log)
  /\ Injective(buffer)
  /\ \A b, d \in DOMAIN queue :
       \A k \in DOMAIN queue[b], m \in DOMAIN queue[d] :
         queue[b][k] = queue[d][m] => b = d /\ k = m
  /\ \A k \in DOMAIN buffer : ~InLog(buffer[k]) /\ ~InQueue(buffer[k])
  /\ broken \/ \A b \in DOMAIN queue : \A k \in DOMAIN queue[b] : ~InLog(queue[b][k])

WriterGood == WriterTypeOK(LogRows) /\ Distinct

-----------------------------------------------------------------------------
\* Rows are on their way when some batch or the buffer holds them.
LEMMA InWriterIs == \A row : InWriter(row) <=> In(row, buffer) \/ InQueue(row)
BY DEF InWriter, In, InQueue

\* Being in the log is being in the sequence of its rows.
LEMMA InLogIs == \A row : InLog(row) <=> In(row, log)
BY DEF InLog, In

\* The positions of a sequence, as the provers need them.
LEMMA DomainOfSeq ==
  ASSUME NEW S, NEW s \in Seq(S)
  PROVE  DOMAIN s = 1 .. Len(s) /\ Len(s) \in Nat /\ \A k \in DOMAIN s : s[k] \in S
BY LenProperties, ElementOfSeq

\* An append adds one position behind the others.
LEMMA AppendIs ==
  ASSUME NEW S, NEW s \in Seq(S), NEW e \in S
  PROVE  /\ Append(s, e) \in Seq(S) /\ Append(s, e) # <<>>
         /\ Len(Append(s, e)) = Len(s) + 1
         /\ DOMAIN Append(s, e) = DOMAIN s \cup {Len(s) + 1}
         /\ Len(s) + 1 \notin DOMAIN s
         /\ \A k \in DOMAIN s : Append(s, e)[k] = s[k]
         /\ Append(s, e)[Len(s) + 1] = e
<1>1. /\ Append(s, e) \in Seq(S) /\ Append(s, e) # <<>>
      /\ Len(Append(s, e)) = Len(s) + 1
      /\ \A k \in 1 .. Len(s) : Append(s, e)[k] = s[k]
      /\ Append(s, e)[Len(s) + 1] = e
  BY AppendProperties
<1>2. /\ DOMAIN s = 1 .. Len(s) /\ Len(s) \in Nat
      /\ DOMAIN Append(s, e) = 1 .. Len(s) + 1
  BY <1>1, LenProperties
<1>3. QED
  BY <1>1, <1>2

\* An append brings its row and no other.
LEMMA InAppend ==
  ASSUME NEW S, NEW s \in Seq(S), NEW e \in S
  PROVE  \A row : In(row, Append(s, e)) <=> In(row, s) \/ row = e
BY AppendIs DEF In

\* Appending a new row repeats none.
LEMMA InjectiveAppend ==
  ASSUME NEW S, NEW s \in Seq(S), NEW e \in S, Injective(s), ~In(e, s)
  PROVE  Injective(Append(s, e))
BY AppendIs DEF In, Injective

(* A flush chains the rows of the buffer, new to the log and to the other
   batches, behind these; with an empty buffer it changes nothing. *)
LEMMA FlushGood ==
  ASSUME WriterGood, NEW rs \in Seq(LogRows), Injective(rs),
         \A k \in DOMAIN rs : ~InLog(rs[k]) /\ ~InQueue(rs[k]),
         Flush(rs), microtasks' \in Nat
  PROVE  /\ WriterGood'
         /\ log' = log /\ written' = written /\ broken' = broken
         /\ \A b \in DOMAIN queue : b \in DOMAIN queue' /\ queue'[b] = queue[b]
         /\ rs # <<>> => Len(queue') = Len(queue) + 1 /\ queue'[Len(queue) + 1] = rs
         /\ rs # <<>> => Len(queue) + 1 \in DOMAIN queue'
         /\ \A row : InWriter(row)' => InQueue(row) \/ In(row, rs)
<1>1. /\ buffer' = <<>> /\ scheduled' = FALSE
      /\ queue' = IF rs = <<>> THEN queue ELSE Append(queue, rs)
      /\ UNCHANGED <<written, broken, log>>
  BY DEF Flush
<1>2. queue \in Seq(Seq(LogRows))
  BY DEF WriterGood, WriterTypeOK
<1>3. /\ queue' \in Seq(Seq(LogRows))
      /\ \A b \in DOMAIN queue : b \in DOMAIN queue' /\ queue'[b] = queue[b]
      /\ \A b \in DOMAIN queue' : b \in DOMAIN queue \/ (queue'[b] = rs /\ b = Len(queue) + 1)
      /\ rs # <<>> => Len(queue') = Len(queue) + 1 /\ queue'[Len(queue) + 1] = rs
      /\ rs # <<>> => Len(queue) + 1 \in DOMAIN queue'
  <2>1. CASE rs = <<>>
    <3>1. queue' = queue
      BY <1>1, <2>1
    <3>2. QED
      BY <1>2, <2>1, <3>1
  <2>2. CASE rs # <<>>
    <3>1. queue' = Append(queue, rs)
      BY <1>1, <2>2
    <3>2. /\ Append(queue, rs) \in Seq(Seq(LogRows))
          /\ Len(Append(queue, rs)) = Len(queue) + 1
          /\ DOMAIN Append(queue, rs) = DOMAIN queue \cup {Len(queue) + 1}
          /\ \A k \in DOMAIN queue : Append(queue, rs)[k] = queue[k]
          /\ Append(queue, rs)[Len(queue) + 1] = rs
      BY <1>2, AppendIs
    <3>3. QED
      BY <3>1, <3>2, Zenon
  <2>3. QED
    BY <2>1, <2>2
<1>4. /\ <<>> \in Seq(LogRows)
      /\ DOMAIN buffer' = {} /\ buffer' \in Seq(LogRows)
  BY <1>1, EmptySeq
<1>5. WriterTypeOK(LogRows)'
  BY <1>1, <1>3, <1>4 DEF WriterTypeOK, WriterGood
<1>6. \A row : In(row, rs) => ~InLog(row) /\ ~InQueue(row)
  BY DEF In
<1>7. Distinct'
  <2>1. Injective(log') /\ Injective(buffer')
    BY <1>1, <1>4 DEF Injective, WriterGood, Distinct
  <2>2. ASSUME NEW b \in DOMAIN queue', NEW d \in DOMAIN queue',
               NEW k \in DOMAIN queue'[b], NEW m \in DOMAIN queue'[d],
               queue'[b][k] = queue'[d][m]
        PROVE  b = d /\ k = m
    <3>1. CASE b \in DOMAIN queue /\ d \in DOMAIN queue
      BY <1>3, <2>2, <3>1 DEF WriterGood, Distinct
    <3>2. CASE b \notin DOMAIN queue /\ d \notin DOMAIN queue
      BY <1>3, <2>2, <3>2 DEF Injective
    <3>3. CASE b \in DOMAIN queue /\ d \notin DOMAIN queue
      <4>1. InQueue(queue'[b][k]) /\ In(queue'[d][m], rs)
        BY <1>3, <3>3 DEF InQueue, In
      <4>2. QED
        BY <1>6, <2>2, <4>1
    <3>4. CASE b \notin DOMAIN queue /\ d \in DOMAIN queue
      <4>1. InQueue(queue'[d][m]) /\ In(queue'[b][k], rs)
        BY <1>3, <3>4 DEF InQueue, In
      <4>2. QED
        BY <1>6, <2>2, <4>1
    <3>5. QED
      BY <3>1, <3>2, <3>3, <3>4
  <2>3. ASSUME NEW b \in DOMAIN queue', NEW k \in DOMAIN queue'[b], ~broken
        PROVE  ~InLog(queue'[b][k])
    <3>1. CASE b \in DOMAIN queue
      BY <1>3, <2>3, <3>1 DEF WriterGood, Distinct
    <3>2. CASE b \notin DOMAIN queue
      <4>1. In(queue'[b][k], rs)
        BY <1>3, <3>2 DEF In
      <4>2. QED
        BY <1>6, <4>1
    <3>3. QED
      BY <3>1, <3>2
  <2>4. \A row : InLog(row)' <=> InLog(row)
    BY <1>1 DEF InLog
  <2>5. QED
    BY <1>1, <1>4, <2>1, <2>2, <2>3, <2>4 DEF Distinct
<1>8. \A row : InWriter(row)' => InQueue(row) \/ In(row, rs)
  BY <1>3, <1>4 DEF InWriter, InQueue, In
<1>9. QED
  BY <1>1, <1>3, <1>5, <1>7, <1>8 DEF WriterGood

\* What a step of a caller may do to the writer: it adds the row, and the
\* batches chained before it stay where they are.
Adds(row) ==
  /\ WriterGood'
  /\ log' = log /\ written' = written /\ broken' = broken
  /\ \A b \in DOMAIN queue : b \in DOMAIN queue' /\ queue'[b] = queue[b]
  /\ \A r : InWriter(r)' => InWriter(r) \/ r = row

\* record() and flush() in one tick chain the row in the last batch.
LEMMA RecordAndFlushAdds ==
  ASSUME WriterGood, NEW row \in LogRows, ~InLog(row), ~InWriter(row), RecordAndFlush(row)
  PROVE  /\ Adds(row)
         /\ Len(queue') \in DOMAIN queue' /\ In(row, queue'[Len(queue')])
         /\ Len(queue') \in Nat
<1> DEFINE rs == Append(buffer, row)
<1>1. buffer \in Seq(LogRows) /\ microtasks \in Nat
  BY DEF WriterGood, WriterTypeOK
<1>2. ~In(row, buffer) /\ ~InQueue(row)
  BY InWriterIs
<1>3. /\ rs \in Seq(LogRows) /\ rs # <<>>
      /\ \A r : In(r, rs) <=> In(r, buffer) \/ r = row
  BY <1>1, AppendIs, InAppend
<1>4. Injective(rs)
  BY <1>1, <1>2, InjectiveAppend DEF WriterGood, Distinct
<1>5. Flush(rs) /\ microtasks' \in Nat
  BY <1>1 DEF RecordAndFlush
<1>6. \A r : In(r, buffer) => ~InLog(r) /\ ~InQueue(r)
  BY DEF WriterGood, Distinct, In
<1>7. \A k \in DOMAIN rs : ~InLog(rs[k]) /\ ~InQueue(rs[k])
  <2>1. \A k \in DOMAIN rs : In(rs[k], rs)
    BY DEF In
  <2>2. QED
    BY <1>2, <1>3, <1>6, <2>1
<1> HIDE DEF rs
<1>8. /\ WriterGood'
      /\ log' = log /\ written' = written /\ broken' = broken
      /\ \A b \in DOMAIN queue : b \in DOMAIN queue' /\ queue'[b] = queue[b]
      /\ Len(queue') = Len(queue) + 1 /\ queue'[Len(queue) + 1] = rs
      /\ Len(queue) + 1 \in DOMAIN queue'
      /\ \A r : InWriter(r)' => InQueue(r) \/ In(r, rs)
  BY <1>3, <1>4, <1>5, <1>7, FlushGood
<1>9. In(row, rs)
  BY <1>3
<1>10. Len(queue') \in Nat
  <2>1. queue' \in Seq(Seq(LogRows))
    BY <1>8 DEF WriterGood, WriterTypeOK
  <2>2. QED
    BY <2>1, LenProperties
<1>11. \A r : InWriter(r)' => InWriter(r) \/ r = row
  BY <1>3, <1>8, InWriterIs
<1>12. QED
  BY <1>8, <1>9, <1>10, <1>11 DEF Adds

\* record() alone: the row waits in the buffer, or a full buffer is chained.
LEMMA RecordRowAdds ==
  ASSUME WriterGood, NEW row \in LogRows, ~InLog(row), ~InWriter(row), RecordRow(row)
  PROVE  Adds(row)
<1> DEFINE rs == Append(buffer, row)
<1>1. /\ buffer \in Seq(LogRows) /\ microtasks \in Nat
      /\ ~In(row, buffer) /\ ~InQueue(row)
  BY InWriterIs DEF WriterGood, WriterTypeOK
<1>2. CASE Len(rs) >= MaxBufferedRows
  <2>1. Flush(rs) /\ microtasks' = microtasks
    BY <1>2 DEF RecordRow
  <2>2. microtasks' \in Nat
    BY <1>1, <2>1
  <2>3. /\ rs \in Seq(LogRows) /\ rs # <<>>
        /\ \A r : In(r, rs) <=> In(r, buffer) \/ r = row
    BY <1>1, AppendIs, InAppend
  <2>4. Injective(rs)
    BY <1>1, InjectiveAppend DEF WriterGood, Distinct
  <2>5. \A r : In(r, buffer) => ~InLog(r) /\ ~InQueue(r)
    BY DEF WriterGood, Distinct, In
  <2>6. \A k \in DOMAIN rs : ~InLog(rs[k]) /\ ~InQueue(rs[k])
    <3>1. \A k \in DOMAIN rs : In(rs[k], rs)
      BY DEF In
    <3>2. QED
      BY <1>1, <2>3, <2>5, <3>1
  <2> HIDE DEF rs
  <2>7. /\ WriterGood'
        /\ log' = log /\ written' = written /\ broken' = broken
        /\ \A b \in DOMAIN queue : b \in DOMAIN queue' /\ queue'[b] = queue[b]
        /\ \A r : InWriter(r)' => InQueue(r) \/ In(r, rs)
    BY <2>1, <2>2, <2>3, <2>4, <2>6, FlushGood
  <2>8. \A r : InWriter(r)' => InWriter(r) \/ r = row
    BY <2>3, <2>7, InWriterIs
  <2>9. QED
    BY <2>7, <2>8 DEF Adds
<1>3. CASE ~(Len(rs) >= MaxBufferedRows)
  <2>1. /\ buffer' = rs /\ scheduled' = TRUE
        /\ microtasks' \in Nat
        /\ UNCHANGED <<queue, written, broken, log>>
    BY <1>1, <1>3 DEF RecordRow
  <2>2. /\ rs \in Seq(LogRows) /\ Injective(rs)
        /\ \A r : In(r, rs) <=> In(r, buffer) \/ r = row
    BY <1>1, AppendIs, InAppend, InjectiveAppend DEF WriterGood, Distinct
  <2>3. WriterTypeOK(LogRows)'
    BY <2>1, <2>2 DEF WriterGood, WriterTypeOK
  <2>4. \A r : (InLog(r)' <=> InLog(r)) /\ (InQueue(r)' <=> InQueue(r))
    BY <2>1 DEF InLog, InQueue
  <2>5. \A k \in DOMAIN rs : ~InLog(rs[k]) /\ ~InQueue(rs[k])
    <3>1. \A k \in DOMAIN rs : In(rs[k], rs)
      BY DEF In
    <3>2. \A r : In(r, buffer) => ~InLog(r) /\ ~InQueue(r)
      BY DEF WriterGood, Distinct, In
    <3>3. QED
      BY <1>1, <2>2, <3>1, <3>2
  <2> HIDE DEF rs
  <2>6. Distinct'
    BY <2>1, <2>2, <2>4, <2>5 DEF WriterGood, Distinct
  <2>7. \A r : InWriter(r)' <=> In(r, rs) \/ InQueue(r)
    BY <2>1 DEF InWriter, InQueue, In
  <2>8. \A r : InWriter(r)' => InWriter(r) \/ r = row
    BY <2>2, <2>7, InWriterIs
  <2>9. QED
    BY <2>1, <2>3, <2>6, <2>8 DEF WriterGood, Adds
<1>4. QED
  BY <1>2, <1>3

-----------------------------------------------------------------------------
\* A row a flush waits for: on disk, or in a batch the flush is behind.
Tracked(row, t) ==
  InLog(row) \/ \E b \in DOMAIN queue : b <= t - written /\ In(row, queue[b])

\* What the log gains are rows of the queue, behind what it held.
LogGrows ==
  /\ DOMAIN log \subseteq DOMAIN log'
  /\ \A k \in DOMAIN log : log'[k] = log[k]
  /\ \A k \in DOMAIN log' \ DOMAIN log :
       InQueue(log'[k]) /\ \A j \in DOMAIN log : j < k

\* Rows written behind a log that does not hold them.
LEMMA Concatenated ==
  ASSUME NEW s \in Seq(LogRows), NEW t \in Seq(LogRows), Injective(s), Injective(t),
         \A k \in DOMAIN t : ~In(t[k], s)
  PROVE  /\ s \o t \in Seq(LogRows) /\ Injective(s \o t)
         /\ DOMAIN s \subseteq DOMAIN (s \o t)
         /\ \A k \in DOMAIN s : (s \o t)[k] = s[k]
         /\ \A k \in DOMAIN (s \o t) \ DOMAIN s :
              (\A j \in DOMAIN s : j < k) /\ In((s \o t)[k], t)
         /\ \A r : In(r, s \o t) <=> In(r, s) \/ In(r, t)
<1> DEFINE u == s \o t
           n == Len(s)
<1>1. /\ u \in Seq(LogRows) /\ Len(u) = n + Len(t)
      /\ \A i \in 1 .. n + Len(t) : u[i] = IF i <= n THEN s[i] ELSE t[i - n]
  BY ConcatProperties
<1>2. /\ DOMAIN s = 1 .. n /\ n \in Nat
      /\ DOMAIN t = 1 .. Len(t) /\ Len(t) \in Nat
      /\ DOMAIN u = 1 .. n + Len(t)
  BY <1>1, LenProperties
<1> HIDE DEF u, n
<1>3. \A k \in DOMAIN s : k \in DOMAIN u /\ u[k] = s[k]
  BY <1>1, <1>2
<1>4. \A k \in DOMAIN t : k + n \in DOMAIN u /\ u[k + n] = t[k]
  <2>1. ASSUME NEW k \in DOMAIN t
        PROVE  k + n \in 1 .. n + Len(t) /\ ~(k + n <= n) /\ (k + n) - n = k
    BY <1>2
  <2>2. QED
    BY <1>1, <1>2, <2>1
<1>5. \A k \in DOMAIN u \ DOMAIN s :
        /\ k - n \in DOMAIN t /\ u[k] = t[k - n]
        /\ \A j \in DOMAIN s : j < k
  BY <1>1, <1>2
<1>6. \A r : In(r, u) <=> In(r, s) \/ In(r, t)
  BY <1>3, <1>4, <1>5 DEF In
<1>7. Injective(u)
  <2>1. SUFFICES ASSUME NEW k \in DOMAIN u, NEW m \in DOMAIN u, u[k] = u[m]
                 PROVE  k = m
    BY DEF Injective
  <2>2. CASE k \in DOMAIN s /\ m \in DOMAIN s
    BY <1>3, <2>1, <2>2 DEF Injective
  <2>3. CASE k \notin DOMAIN s /\ m \notin DOMAIN s
    <3>1. k - n = m - n
      BY <1>5, <2>1, <2>3 DEF Injective
    <3>2. QED
      BY <1>2, <3>1
  <2>4. CASE k \in DOMAIN s /\ m \notin DOMAIN s
    BY <1>3, <1>5, <2>1, <2>4 DEF In
  <2>5. CASE k \notin DOMAIN s /\ m \in DOMAIN s
    BY <1>3, <1>5, <2>1, <2>5 DEF In
  <2>6. QED
    BY <2>2, <2>3, <2>4, <2>5
<1>8. \A k \in DOMAIN u \ DOMAIN s : In(u[k], t)
  BY <1>5 DEF In
<1>9. QED
  BY <1>1, <1>3, <1>5, <1>6, <1>7, <1>8 DEF u

\* The head of the queue is its first batch, the tail the others, one earlier.
LEMMA HeadAndTail ==
  ASSUME WriterGood, queue # <<>>
  PROVE  /\ 1 \in DOMAIN queue /\ Head(queue) = queue[1]
         /\ Head(queue) \in Seq(LogRows) /\ Tail(queue) \in Seq(Seq(LogRows))
         /\ \A b \in DOMAIN Tail(queue) :
              b \in Nat /\ b + 1 \in DOMAIN queue /\ b + 1 # 1 /\ Tail(queue)[b] = queue[b + 1]
         /\ \A b \in DOMAIN queue :
              b \in Nat /\ (b = 1 \/ (b - 1 \in DOMAIN Tail(queue) /\ Tail(queue)[b - 1] = queue[b]))
<1>1. queue \in Seq(Seq(LogRows))
  BY DEF WriterGood, WriterTypeOK
<1>2. /\ Head(queue) \in Seq(LogRows) /\ Tail(queue) \in Seq(Seq(LogRows))
      /\ Len(Tail(queue)) = Len(queue) - 1
      /\ \A i \in 1 .. Len(Tail(queue)) : Tail(queue)[i] = queue[i + 1]
  BY <1>1, HeadTailProperties
<1>3. /\ DOMAIN queue = 1 .. Len(queue) /\ Len(queue) \in Nat \ {0}
      /\ DOMAIN Tail(queue) = 1 .. Len(queue) - 1
  BY <1>1, <1>2, LenProperties, EmptySeq
<1>4. Head(queue) = queue[1]
  BY <1>1
<1>5. QED
  BY <1>2, <1>3, <1>4

(* Some of the first batch, which the log does not hold, is written behind it:
   all of it, and the batch leaves the queue, or a part, and the chain breaks. *)
LEMMA WrittenGood ==
  ASSUME WriterGood, ~broken, queue # <<>>, NEW s \in Seq(LogRows),
         DOMAIN s \subseteq DOMAIN Head(queue), \A k \in DOMAIN s : s[k] = Head(queue)[k],
         log' = log \o s, UNCHANGED <<buffer, scheduled, microtasks>>,
         \/ /\ s = Head(queue) /\ queue' = Tail(queue)
            /\ written' = written + 1 /\ broken' = broken
         \/ queue' = queue /\ written' = written /\ broken' = TRUE
  PROVE  /\ WriterGood' /\ LogGrows
         /\ \A r : InLog(r)' \/ InWriter(r)' => InLog(r) \/ InWriter(r)
         /\ \A r : \A t \in Nat : Tracked(r, t) => Tracked(r, t)'
<1> DEFINE first == Head(queue)
<1>1. /\ 1 \in DOMAIN queue /\ first = queue[1]
      /\ first \in Seq(LogRows) /\ Tail(queue) \in Seq(Seq(LogRows))
      /\ \A b \in DOMAIN Tail(queue) :
           b \in Nat /\ b + 1 \in DOMAIN queue /\ b + 1 # 1 /\ Tail(queue)[b] = queue[b + 1]
      /\ \A b \in DOMAIN queue :
           b \in Nat /\ (b = 1 \/ (b - 1 \in DOMAIN Tail(queue) /\ Tail(queue)[b - 1] = queue[b]))
  BY HeadAndTail
<1> HIDE DEF first
<1>2. /\ log \in Seq(LogRows) /\ Injective(log)
      /\ queue \in Seq(Seq(LogRows)) /\ written \in Nat
  BY DEF WriterGood, WriterTypeOK, Distinct
<1>3. Injective(s)
  BY <1>1 DEF WriterGood, Distinct, Injective, first
<1>4. \A k \in DOMAIN s : ~In(s[k], log) /\ InQueue(s[k])
  BY <1>1, InLogIs DEF WriterGood, Distinct, InQueue, In, first
<1>5. /\ log' \in Seq(LogRows) /\ Injective(log')
      /\ DOMAIN log \subseteq DOMAIN log'
      /\ \A k \in DOMAIN log : log'[k] = log[k]
      /\ \A k \in DOMAIN log' \ DOMAIN log :
           (\A j \in DOMAIN log : j < k) /\ In(log'[k], s)
      /\ \A r : In(r, log') <=> In(r, log) \/ In(r, s)
  BY <1>2, <1>3, <1>4, Concatenated
<1>6. \A r : InLog(r)' <=> InLog(r) \/ In(r, s)
  BY <1>5 DEF InLog, In
<1>7. \A r : In(r, s) => InQueue(r)
  BY <1>4 DEF In
<1>8. LogGrows
  <2>1. \A k \in DOMAIN log' \ DOMAIN log : InQueue(log'[k])
    BY <1>5, <1>7
  <2>2. QED
    BY <1>5, <2>1 DEF LogGrows
<1>9. \A r : InQueue(r)' => InQueue(r)
  <2>1. CASE queue' = queue
    BY <2>1 DEF InQueue
  <2>2. CASE queue' = Tail(queue)
    BY <1>1, <2>2 DEF InQueue, In
  <2>3. QED
    BY <2>1, <2>2
<1>10. \A r : InLog(r)' \/ InWriter(r)' => InLog(r) \/ InWriter(r)
  <2>1. \A r : InWriter(r)' => In(r, buffer) \/ InQueue(r)'
    BY DEF InWriter, InQueue, In
  <2>2. QED
    BY <1>6, <1>7, <1>9, <2>1, InWriterIs
<1>11. WriterTypeOK(LogRows)'
  <2>1. queue' \in Seq(Seq(LogRows)) /\ written' \in Nat /\ broken' \in BOOLEAN
    <3>1. broken \in BOOLEAN
      BY DEF WriterGood, WriterTypeOK
    <3>2. CASE queue' = queue /\ written' = written /\ broken' = TRUE
      BY <1>2, <3>2
    <3>3. CASE queue' = Tail(queue) /\ written' = written + 1 /\ broken' = broken
      BY <1>1, <1>2, <3>1, <3>3
    <3>4. QED
      BY <3>2, <3>3
  <2>2. QED
    BY <1>5, <2>1 DEF WriterGood, WriterTypeOK
<1>12. Distinct'
  <2>1. Injective(log') /\ Injective(buffer')
    BY <1>5 DEF WriterGood, Distinct, Injective
  <2>2. (\A k \in DOMAIN buffer : ~InLog(buffer[k]) /\ ~InQueue(buffer[k]))'
    BY <1>6, <1>7, <1>9 DEF WriterGood, Distinct
  <2>3. ASSUME NEW b \in DOMAIN queue', NEW d \in DOMAIN queue',
               NEW k \in DOMAIN queue'[b], NEW m \in DOMAIN queue'[d],
               queue'[b][k] = queue'[d][m]
        PROVE  b = d /\ k = m
    <3>1. CASE queue' = queue
      BY <2>3, <3>1 DEF WriterGood, Distinct
    <3>2. CASE queue' = Tail(queue)
      <4>1. /\ b \in Nat /\ b + 1 \in DOMAIN queue /\ queue'[b] = queue[b + 1]
            /\ d \in Nat /\ d + 1 \in DOMAIN queue /\ queue'[d] = queue[d + 1]
        BY <1>1, <2>3, <3>2
      <4>2. b + 1 = d + 1 /\ k = m
        BY <2>3, <4>1 DEF WriterGood, Distinct
      <4>3. QED
        BY <4>1, <4>2
    <3>3. QED
      BY <3>1, <3>2
  <2>4. ASSUME NEW b \in DOMAIN queue', NEW k \in DOMAIN queue'[b], ~broken'
        PROVE  ~In(queue'[b][k], log')
    <3>1. s = first /\ queue' = Tail(queue)
      BY <2>4 DEF first
    <3>2. b + 1 \in DOMAIN queue /\ b + 1 # 1 /\ queue'[b] = queue[b + 1]
      BY <1>1, <2>4, <3>1
    <3>3. ~In(queue'[b][k], log)
      BY <2>4, <3>2, InLogIs DEF WriterGood, Distinct
    <3>4. ~In(queue'[b][k], s)
      BY <1>1, <2>4, <3>1, <3>2 DEF WriterGood, Distinct, In
    <3>5. QED
      BY <1>5, <3>3, <3>4
  <2>5. QED
    BY <2>1, <2>2, <2>3, <2>4 DEF Distinct, InLog, In
<1>13. ASSUME NEW r, NEW t \in Nat, Tracked(r, t)
       PROVE  Tracked(r, t)'
  <2>1. CASE InLog(r)
    BY <1>6, <2>1 DEF Tracked
  <2>2. CASE ~InLog(r)
    <3>1. PICK b \in DOMAIN queue : b <= t - written /\ In(r, queue[b])
      BY <1>13, <2>2 DEF Tracked
    <3>2. CASE queue' = queue /\ written' = written
      BY <3>1, <3>2 DEF Tracked, In
    <3>3. CASE s = first /\ queue' = Tail(queue) /\ written' = written + 1
      <4>1. CASE b = 1
        BY <1>1, <1>6, <3>1, <3>3, <4>1 DEF Tracked
      <4>2. CASE b # 1
        <5>1. b - 1 \in DOMAIN queue' /\ queue'[b - 1] = queue[b] /\ b \in Nat
          BY <1>1, <3>3, <4>2
        <5>2. b - 1 <= t - written'
          BY <1>2, <3>1, <3>3, <5>1
        <5>3. In(r, queue'[b - 1])
          BY <3>1, <5>1
        <5>4. QED
          BY <5>1, <5>2, <5>3 DEF Tracked, In
      <4>3. QED
        BY <4>1, <4>2
    <3>4. QED
      BY <3>2, <3>3 DEF first
  <2>3. QED
    BY <2>1, <2>2
<1>14. QED
  BY <1>8, <1>10, <1>11, <1>12, <1>13 DEF WriterGood

\* A step of the writer: rows only move towards the disk.
LEMMA WriterStep ==
  ASSUME WriterGood, WriterNext
  PROVE  /\ WriterGood' /\ LogGrows
         /\ \A r : InLog(r)' \/ InWriter(r)' => InLog(r) \/ InWriter(r)
         /\ \A r : \A t \in Nat : Tracked(r, t) => Tracked(r, t)'
<1>1. CASE Microtask
  <2>1. Flush(buffer) /\ microtasks' \in Nat
    BY <1>1 DEF Microtask, WriterGood, WriterTypeOK
  <2>2. /\ buffer \in Seq(LogRows) /\ Injective(buffer)
        /\ \A k \in DOMAIN buffer : ~InLog(buffer[k]) /\ ~InQueue(buffer[k])
    BY DEF WriterGood, WriterTypeOK, Distinct
  <2>3. /\ WriterGood'
        /\ log' = log /\ written' = written
        /\ \A b \in DOMAIN queue : b \in DOMAIN queue' /\ queue'[b] = queue[b]
        /\ \A r : InWriter(r)' => InQueue(r) \/ In(r, buffer)
    BY <2>1, <2>2, FlushGood
  <2>4. LogGrows
    BY <2>3 DEF LogGrows
  <2>5. \A r : InLog(r)' <=> InLog(r)
    BY <2>3 DEF InLog
  <2>6. \A r : \A t \in Nat : Tracked(r, t) => Tracked(r, t)'
    BY <2>3, <2>5 DEF Tracked, In
  <2>7. QED
    BY <2>3, <2>4, <2>5, <2>6, InWriterIs
<1>2. CASE WriteBatch
  <2>1. /\ ~broken /\ queue # <<>> /\ log' = log \o Head(queue)
        /\ queue' = Tail(queue) /\ written' = written + 1
        /\ UNCHANGED <<buffer, scheduled, microtasks>> /\ broken' = broken
    BY <1>2 DEF WriteBatch
  <2>2. Head(queue) \in Seq(LogRows)
    BY <2>1, HeadAndTail
  <2>3. QED
    BY <2>1, <2>2, WrittenGood
<1>3. CASE WriteFails
  <2>1. PICK n \in 0 .. Len(Head(queue)) : log' = log \o SubSeq(Head(queue), 1, n)
    BY <1>3 DEF WriteFails
  <2>2. /\ ~broken /\ queue # <<>> /\ broken' = TRUE
        /\ UNCHANGED <<buffer, scheduled, microtasks, queue, written>>
    BY <1>3 DEF WriteFails
  <2>3. Head(queue) \in Seq(LogRows)
    BY <2>2, HeadAndTail
  <2> DEFINE s == SubSeq(Head(queue), 1, n)
  <2>4. /\ n \in Nat /\ n \in Int /\ 1 \in Int
        /\ \A i \in 1 .. n : Head(queue)[i] \in LogRows
        /\ DOMAIN Head(queue) = 1 .. Len(Head(queue))
        /\ 1 .. n \subseteq DOMAIN Head(queue)
    BY <2>1, <2>3, LenProperties, ElementOfSeq
  <2>5. /\ s \in Seq(LogRows) /\ Len(s) = n
        /\ \A i \in 1 .. n : s[i] = Head(queue)[i]
    BY <2>4, SubSeqProperties
  <2>6. DOMAIN s \subseteq DOMAIN Head(queue) /\ \A k \in DOMAIN s : s[k] = Head(queue)[k]
    BY <2>4, <2>5, LenProperties
  <2>7. QED
    BY <2>1, <2>2, <2>5, <2>6, WrittenGood
<1>4. QED
  BY <1>1, <1>2, <1>3 DEF WriterNext

\* The writer is lost with its process; the log stays.
LEMMA LostGood ==
  ASSUME WriterGood, WriterLost
  PROVE  WriterGood' /\ log' = log /\ \A r : ~InWriter(r)'
<1>1. /\ <<>> \in Seq(LogRows) /\ <<>> \in Seq(Seq(LogRows))
      /\ DOMAIN <<>> = {}
  BY EmptySeq
<1>2. /\ buffer' = <<>> /\ queue' = <<>> /\ log' = log
      /\ scheduled' = FALSE /\ microtasks' = 0 /\ written' = 0 /\ broken' = FALSE
  BY DEF WriterLost
<1>3. DOMAIN buffer' = {} /\ DOMAIN queue' = {}
  BY <1>2, EmptySeq
<1>4. WriterTypeOK(LogRows)'
  BY <1>1, <1>2 DEF WriterGood, WriterTypeOK
<1>5. Distinct'
  BY <1>2, <1>3 DEF WriterGood, Distinct, Injective
<1>6. \A r : ~InWriter(r)'
  BY <1>3 DEF InWriter
<1>7. QED
  BY <1>2, <1>4, <1>5, <1>6 DEF WriterGood

-----------------------------------------------------------------------------
(* How far each call has come and what was recorded of it go together. *)

Anywhere(row) == InLog(row) \/ InWriter(row)

PlaceMatches(c) ==
  /\ Anywhere(Row(c, "allow")) => pc[c] \notin {"idle", "approving"}
  /\ Anywhere(Row(c, "block")) => pc[c] = "refused"
  /\ Anywhere(Row(c, "settlement")) => pc[c] = "paid" /\ InLog(Row(c, "allow"))
  /\ pc[c] = "recording" => Tracked(Row(c, "allow"), ticket[c])
  /\ c \in Signed => InLog(Row(c, "allow")) /\ spentAt[c] # Never

RecordsMatchPlaces == \A c \in Calls : PlaceMatches(c)

SettlementsFollow ==
  \A k \in DOMAIN log :
    log[k].kind = "settlement" => \E j \in 1 .. k - 1 : log[j] = Row(log[k].call, "allow")

Inv == TypeOK /\ Distinct /\ RecordsMatchPlaces /\ SettlementsFollow

\* What a caller's step means for the writer: at most the rows are new.
Brings(rows) ==
  /\ WriterGood' /\ log' = log
  /\ \A r : (InLog(r)' <=> InLog(r)) /\ (Anywhere(r)' => Anywhere(r) \/ r \in rows)
  /\ \A r : \A t \in Nat : Tracked(r, t) => Tracked(r, t)'

\* The part of the invariant that is about the writer.
LEMMA InvIsGood == Inv => WriterGood
BY DEF Inv, TypeOK, WriterGood

\* record() brings its row and leaves the rest of the writer as it was.
LEMMA AddsBrings ==
  ASSUME NEW row, Adds(row)
  PROVE  Brings({row})
<1>1. \A r : InLog(r)' <=> InLog(r)
  BY DEF Adds, InLog
<1>2. \A r : \A t \in Nat : Tracked(r, t) => Tracked(r, t)'
  BY <1>1 DEF Adds, Tracked, In
<1>3. QED
  BY <1>1, <1>2 DEF Adds, Brings, Anywhere

\* A step that does not touch the writer brings nothing.
LEMMA NothingBrings ==
  ASSUME WriterGood, UNCHANGED writer
  PROVE  Brings({})
<1> USE DEF writer
<1>1. WriterGood'
  BY DEF WriterGood, WriterTypeOK, Distinct, Injective, InLog, InQueue, In
<1>2. \A r : (InLog(r)' <=> InLog(r)) /\ (Anywhere(r)' <=> Anywhere(r))
  BY DEF Anywhere, InLog, InWriter
<1>3. \A r : \A t \in Nat : Tracked(r, t) => Tracked(r, t)'
  BY <1>2 DEF Tracked, In
<1>4. QED
  BY <1>1, <1>2, <1>3 DEF Brings

\* A row says which call it is of and what it says of it.
LEMMA RowsApart ==
  \A c, d \in Calls : \A k, m \in {"allow", "block", "settlement"} :
    /\ Row(c, k) \in LogRows
    /\ Row(c, k) = Row(d, m) => c = d /\ k = m
BY DEF Row, LogRows

\* The log is not touched, so neither is the order in it.
LEMMA FollowStays ==
  ASSUME SettlementsFollow, log' = log
  PROVE  SettlementsFollow'
BY DEF SettlementsFollow

\* A call's step leaves what is recorded of the others alone.
LEMMA OthersStay ==
  ASSUME Inv, NEW c \in Calls, NEW k \in {"allow", "block", "settlement"},
         NEW rows \in SUBSET {Row(c, k)}, Brings(rows),
         NEW d \in Calls, d # c,
         pc'[d] = pc[d], ticket'[d] = ticket[d], spentAt'[d] = spentAt[d]
  PROVE  PlaceMatches(d)'
<1>1. PlaceMatches(d)
  BY DEF Inv, RecordsMatchPlaces
<1>2. \A m \in {"allow", "block", "settlement"} :
        /\ Anywhere(Row(d, m))' => Anywhere(Row(d, m))
        /\ InLog(Row(d, m))' <=> InLog(Row(d, m))
  BY RowsApart DEF Brings
<1>3. ticket[d] \in Nat
  BY DEF Inv, TypeOK
<1>4. Tracked(Row(d, "allow"), ticket[d]) => Tracked(Row(d, "allow"), ticket[d])'
  BY <1>3 DEF Brings
<1>5. d \in Signed' <=> d \in Signed
  BY DEF Signed
<1>6. QED
  BY <1>1, <1>2, <1>4, <1>5 DEF PlaceMatches

\* A step of one call that may bring a row and keeps its own place.
LEMMA CallInv ==
  ASSUME Inv, TypeOK', NEW c \in Calls, NEW k \in {"allow", "block", "settlement"},
         NEW rows \in SUBSET {Row(c, k)}, Brings(rows),
         \A d \in Calls \ {c} :
           pc'[d] = pc[d] /\ ticket'[d] = ticket[d] /\ spentAt'[d] = spentAt[d],
         PlaceMatches(c)'
  PROVE  Inv'
<1>1. RecordsMatchPlaces'
  BY OthersStay DEF RecordsMatchPlaces
<1>2. SettlementsFollow'
  BY FollowStays DEF Inv, Brings
<1>3. QED
  BY <1>1, <1>2 DEF Inv, Brings, WriterGood

\* A call that goes on, not to a signature, and has nothing recorded.
LEMMA GoesInv ==
  ASSUME Inv, TypeOK', NEW c \in Calls, NEW to \in {"approving", "refused", "paid"},
         pc' = [pc EXCEPT ![c] = to],
         to = "approving" => pc[c] = "idle",
         to = "refused" => pc[c] = "recording",
         to = "paid" => pc[c] = "signing",
         UNCHANGED <<writer, ticket, spentAt>>
  PROVE  Inv'
<1>1. Brings({})
  BY InvIsGood, NothingBrings
<1>2. pc'[c] = to /\ \A d \in Calls \ {c} : pc'[d] = pc[d]
  BY DEF Inv, TypeOK
<1>3. PlaceMatches(c)'
  <2>1. PlaceMatches(c)
    BY DEF Inv, RecordsMatchPlaces
  <2>2. \A r : (InLog(r)' <=> InLog(r)) /\ (Anywhere(r)' => Anywhere(r))
    BY <1>1 DEF Brings
  <2>3. QED
    BY <1>2, <2>1, <2>2 DEF PlaceMatches, Signed
<1>4. {} \in SUBSET {Row(c, "allow")}
  OBVIOUS
<1>5. QED
  BY <1>1, <1>2, <1>3, <1>4, CallInv

\* refuse(): the block row of a call that has none yet.
LEMMA RefusesInv ==
  ASSUME Inv, TypeOK', NEW c \in Calls, pc[c] \in {"idle", "approving", "recording"},
         Refuses(c), UNCHANGED <<ticket, spentAt>>
  PROVE  Inv'
<1> DEFINE row == Row(c, "block")
<1>1. PlaceMatches(c)
  BY DEF Inv, RecordsMatchPlaces
<1>2. row \in LogRows /\ ~InLog(row) /\ ~InWriter(row)
  BY <1>1, RowsApart DEF PlaceMatches, Anywhere
<1>3. Brings({row})
  BY <1>2, InvIsGood, RecordAndFlushAdds, AddsBrings DEF Refuses
<1>4. pc'[c] = "refused" /\ \A d \in Calls \ {c} : pc'[d] = pc[d]
  BY DEF Refuses, Goes, Inv, TypeOK
<1>5. PlaceMatches(c)'
  <2>1. \A m \in {"allow", "settlement"} : Anywhere(Row(c, m))' => Anywhere(Row(c, m))
    BY <1>3, RowsApart DEF Brings
  <2>2. pc[c] # "paid"
    OBVIOUS
  <2>3. QED
    BY <1>1, <1>4, <2>1, <2>2 DEF PlaceMatches, Signed
<1>6. QED
  BY <1>3, <1>4, <1>5, CallInv

\* The allow row is recorded, and the call waits behind its batch.
LEMMA RecordAllowInv ==
  ASSUME Inv, TypeOK', NEW c \in Calls, RecordAllow(c)
  PROVE  Inv'
<1> DEFINE row == Row(c, "allow")
<1>1. PlaceMatches(c) /\ pc[c] = "approving"
  BY DEF Inv, RecordsMatchPlaces, RecordAllow
<1>2. row \in LogRows /\ ~InLog(row) /\ ~InWriter(row)
  BY <1>1, RowsApart DEF PlaceMatches, Anywhere
<1>3. /\ Adds(row) /\ Brings({row})
      /\ Len(queue') \in DOMAIN queue' /\ In(row, queue'[Len(queue')]) /\ Len(queue') \in Nat
  BY <1>2, InvIsGood, RecordAndFlushAdds, AddsBrings DEF RecordAllow
<1>4. /\ pc'[c] = "recording" /\ ticket'[c] = written + Len(queue')
      /\ \A d \in Calls \ {c} :
           pc'[d] = pc[d] /\ ticket'[d] = ticket[d] /\ spentAt'[d] = spentAt[d]
  BY DEF RecordAllow, Awaits, Chained, Goes, Inv, TypeOK
<1>5. written' = written /\ written \in Nat
  BY <1>3 DEF Adds, Inv, TypeOK, WriterTypeOK
<1>6. Tracked(row, ticket[c])'
  <2>1. Len(queue') <= ticket'[c] - written'
    BY <1>3, <1>4, <1>5
  <2>2. QED
    BY <1>3, <2>1 DEF Tracked, In
<1>7. PlaceMatches(c)'
  <2>1. \A m \in {"block", "settlement"} : Anywhere(Row(c, m))' => Anywhere(Row(c, m))
    BY <1>3, RowsApart DEF Brings
  <2>2. QED
    BY <1>1, <1>4, <1>6, <2>1 DEF PlaceMatches, Signed
<1>8. QED
  BY <1>3, <1>4, <1>7, CallInv

\* The spend is recorded once the allow row is durable, and the call may sign.
LEMMA CommitSpendInv ==
  ASSUME Inv, TypeOK', NEW c \in Calls, CommitSpend(c)
  PROVE  Inv'
<1>1. /\ PlaceMatches(c) /\ pc[c] = "recording" /\ ticket[c] <= written
      /\ ticket[c] \in Nat /\ written \in Nat
  BY DEF Inv, RecordsMatchPlaces, CommitSpend, Durable, TypeOK, WriterTypeOK
<1>2. Brings({})
  BY InvIsGood, NothingBrings DEF CommitSpend
<1>3. /\ pc'[c] = "signing" /\ spentAt'[c] # Never
      /\ \A d \in Calls \ {c} :
           pc'[d] = pc[d] /\ ticket'[d] = ticket[d] /\ spentAt'[d] = spentAt[d]
  BY BudgetAssumption DEF CommitSpend, Goes, Never, Inv, TypeOK
<1>4. InLog(Row(c, "allow"))
  <2>1. \A b \in DOMAIN queue : ~(b <= ticket[c] - written)
    <3>1. DOMAIN queue = 1 .. Len(queue) /\ Len(queue) \in Nat
      BY LenProperties DEF Inv, TypeOK, WriterTypeOK
    <3>2. QED
      BY <1>1, <3>1
  <2>2. QED
    BY <1>1, <2>1 DEF PlaceMatches, Tracked
<1>5. PlaceMatches(c)'
  <2>1. \A r : (InLog(r)' <=> InLog(r)) /\ (Anywhere(r)' => Anywhere(r))
    BY <1>2 DEF Brings
  <2>2. QED
    BY <1>1, <1>3, <1>4, <2>1 DEF PlaceMatches, Signed
<1>6. {} \in SUBSET {Row(c, "allow")}
  OBVIOUS
<1>7. QED
  BY <1>2, <1>3, <1>5, <1>6, CallInv

\* The settlement row of a signed call, whose allow row is on disk.
LEMMA SettledInv ==
  ASSUME Inv, TypeOK', NEW c \in Calls, Settled(c)
  PROVE  Inv'
<1> DEFINE row == Row(c, "settlement")
<1>1. PlaceMatches(c) /\ pc[c] = "signing" /\ c \in Signed
  BY DEF Inv, RecordsMatchPlaces, Settled, Signed
<1>2. row \in LogRows /\ ~InLog(row) /\ ~InWriter(row)
  BY <1>1, RowsApart DEF PlaceMatches, Anywhere
<1>3. Brings({row})
  BY <1>2, InvIsGood, RecordRowAdds, AddsBrings DEF Settled
<1>4. /\ pc'[c] = "paid" /\ spentAt' = spentAt
      /\ \A d \in Calls \ {c} :
           pc'[d] = pc[d] /\ ticket'[d] = ticket[d] /\ spentAt'[d] = spentAt[d]
  BY DEF Settled, Goes, Inv, TypeOK
<1>5. PlaceMatches(c)'
  <2>1. \A m \in {"allow", "block"} : Anywhere(Row(c, m))' => Anywhere(Row(c, m))
    BY <1>3, RowsApart DEF Brings
  <2>2. InLog(Row(c, "allow"))'
    BY <1>1, <1>3 DEF PlaceMatches, Brings
  <2>3. QED
    BY <1>1, <1>4, <2>1, <2>2 DEF PlaceMatches, Signed
<1>6. QED
  BY <1>3, <1>4, <1>5, CallInv

-----------------------------------------------------------------------------
\* What a call does keeps the types; the writer's are those of its own steps.
LEMMA ProceedTypes ==
  ASSUME Inv, NEW c \in Calls, Proceed(c), WriterTypeOK(LogRows)'
  PROVE  TypeOK'
<1> USE DEF Goes
<1>1. /\ Micro[c] \in Nat /\ inFlight \in Nat /\ inFlight + Micro[c] \in Nat
      /\ (IF inFlight > Micro[c] THEN inFlight - Micro[c] ELSE 0) \in Nat
  BY MicroAssumption DEF Inv, TypeOK
<1>2. inFlight' \in Nat
  BY <1>1 DEF Proceed, RefuseEarly, CheckAndReserve, ApprovalRefused, RecordAllow, AllowRejected,
              AbortedAfterRecord, CommitSpend, CommitFails, Settled, Unreported, Release
<1>3. pc' \in [Calls -> Places]
  BY DEF Proceed, RefuseEarly, CheckAndReserve, ApprovalRefused, RecordAllow, AllowRejected,
         AbortedAfterRecord, CommitSpend, CommitFails, Settled, Unreported, Refuses,
         Inv, TypeOK, Places, Running, Reserved
<1>4. ticket' \in [Calls -> Nat]
  <2>1. CASE RecordAllow(c)
    <3>1. /\ ticket' = [ticket EXCEPT ![c] = written + Len(queue')]
          /\ written \in Nat
      BY <2>1 DEF RecordAllow, Awaits, Chained, Inv, TypeOK, WriterTypeOK
    <3>2. queue' \in Seq(Seq(LogRows))
      BY DEF WriterTypeOK
    <3>3. written + Len(queue') \in Nat
      BY <3>1, <3>2, LenProperties
    <3>4. QED
      BY <3>1, <3>3 DEF Inv, TypeOK
  <2>2. CASE ~RecordAllow(c)
    <3>1. ticket' = ticket
      BY <2>2 DEF Proceed, RefuseEarly, CheckAndReserve, ApprovalRefused, AllowRejected,
                  AbortedAfterRecord, CommitSpend, CommitFails, Settled, Unreported
    <3>2. QED
      BY <3>1 DEF Inv, TypeOK
  <2>3. QED
    BY <2>1, <2>2
<1>5. spentAt' \in [Calls -> 0 .. MaxClock \cup {Never}]
  BY DEF Proceed, RefuseEarly, CheckAndReserve, ApprovalRefused, RecordAllow, AllowRejected,
         AbortedAfterRecord, CommitSpend, CommitFails, Settled, Unreported, Inv, TypeOK
<1>6. readable' \in BOOLEAN /\ status' = status /\ now' = now
  BY DEF Proceed, RefuseEarly, CheckAndReserve, ApprovalRefused, RecordAllow, AllowRejected,
         AbortedAfterRecord, CommitSpend, CommitFails, Settled, Unreported, Inv, TypeOK
<1>7. QED
  BY <1>2, <1>3, <1>4, <1>5, <1>6 DEF Inv, TypeOK

(* Whatever a call does to the writer keeps its types: it records a row that
   is nowhere yet, or nothing. *)
LEMMA ProceedWrites ==
  ASSUME Inv, NEW c \in Calls, Proceed(c)
  PROVE  WriterTypeOK(LogRows)'
<1>1. WriterGood /\ PlaceMatches(c)
  BY InvIsGood DEF Inv, RecordsMatchPlaces
<1>2. CASE Refuses(c) /\ pc[c] \in {"idle", "approving", "recording"}
  <2>1. ~InLog(Row(c, "block")) /\ ~InWriter(Row(c, "block"))
    BY <1>1, <1>2 DEF PlaceMatches, Anywhere
  <2>2. QED
    BY <1>1, <1>2, <2>1, RowsApart, RecordAndFlushAdds DEF Refuses, Adds, WriterGood
<1>3. CASE RecordAllow(c)
  <2>1. ~InLog(Row(c, "allow")) /\ ~InWriter(Row(c, "allow"))
    BY <1>1, <1>3 DEF RecordAllow, PlaceMatches, Anywhere
  <2>2. QED
    BY <1>1, <1>3, <2>1, RowsApart, RecordAndFlushAdds DEF RecordAllow, Adds, WriterGood
<1>4. CASE Settled(c)
  <2>1. ~InLog(Row(c, "settlement")) /\ ~InWriter(Row(c, "settlement"))
    BY <1>1, <1>4 DEF Settled, PlaceMatches, Anywhere
  <2>2. QED
    BY <1>1, <1>4, <2>1, RowsApart, RecordRowAdds DEF Settled, Adds, WriterGood
<1>5. CASE UNCHANGED writer
  BY <1>1, <1>5, NothingBrings DEF Brings, WriterGood
<1>6. QED
  BY <1>2, <1>3, <1>4, <1>5
     DEF Proceed, RefuseEarly, CheckAndReserve, ApprovalRefused, AllowRejected,
         AbortedAfterRecord, CommitSpend, CommitFails, Unreported

\* Every step of the pre-sign hook and the transport keeps the invariant.
LEMMA ProceedInv ==
  ASSUME Inv, NEW c \in Calls, Proceed(c)
  PROVE  Inv'
<1>1. TypeOK'
  BY ProceedTypes, ProceedWrites
<1>2. CASE RefuseEarly(c)
  BY <1>1, <1>2, RefusesInv DEF RefuseEarly
<1>3. CASE CheckAndReserve(c)
  <2>1. CASE WithinBudget(c)
    BY <1>1, <1>3, <2>1, GoesInv DEF CheckAndReserve, Goes
  <2>2. CASE ~WithinBudget(c)
    BY <1>1, <1>3, <2>2, RefusesInv DEF CheckAndReserve
  <2>3. QED
    BY <2>1, <2>2
<1>4. CASE ApprovalRefused(c)
  BY <1>1, <1>4, RefusesInv DEF ApprovalRefused
<1>5. CASE AllowRejected(c)
  BY <1>1, <1>5, GoesInv DEF AllowRejected, Goes
<1>6. CASE AbortedAfterRecord(c)
  BY <1>1, <1>6, RefusesInv DEF AbortedAfterRecord
<1>7. CASE CommitFails(c)
  BY <1>1, <1>7, RefusesInv DEF CommitFails
<1>8. CASE Unreported(c)
  BY <1>1, <1>8, GoesInv DEF Unreported, Goes
<1>9. QED
  BY <1>1, <1>2, <1>3, <1>4, <1>5, <1>6, <1>7, <1>8, RecordAllowInv, CommitSpendInv, SettledInv
     DEF Proceed

\* Rows move towards the disk: a settlement row only behind its allow row.
LEMMA WritesInv ==
  ASSUME Inv, Writes
  PROVE  Inv'
<1>1. /\ WriterGood' /\ LogGrows
      /\ \A r : Anywhere(r)' => Anywhere(r)
      /\ \A r : \A t \in Nat : Tracked(r, t) => Tracked(r, t)'
  BY InvIsGood, WriterStep DEF Writes, Anywhere
<1>2. UNCHANGED <<pc, ticket, inFlight, spentAt, readable, status, now>>
  BY DEF Writes, buyer
<1>3. TypeOK'
  BY <1>1, <1>2 DEF Inv, TypeOK, WriterGood
<1>4. \A r : InLog(r) => InLog(r)'
  BY <1>1 DEF LogGrows, InLog
<1>5. RecordsMatchPlaces'
  <2>1. SUFFICES ASSUME NEW c \in Calls
                 PROVE  PlaceMatches(c)'
    BY DEF RecordsMatchPlaces
  <2>2. PlaceMatches(c) /\ ticket[c] \in Nat
    BY DEF Inv, RecordsMatchPlaces, TypeOK
  <2>3. Tracked(Row(c, "allow"), ticket[c]) => Tracked(Row(c, "allow"), ticket[c])'
    BY <1>1, <1>2, <2>2
  <2>4. QED
    BY <1>1, <1>2, <1>4, <2>2, <2>3 DEF PlaceMatches, Signed
<1>6. SettlementsFollow'
  <2>1. SUFFICES ASSUME NEW k \in DOMAIN log', log'[k].kind = "settlement"
                 PROVE  \E j \in 1 .. k - 1 : log'[j] = Row(log'[k].call, "allow")
    BY DEF SettlementsFollow
  <2>2. DOMAIN log' = 1 .. Len(log') /\ Len(log') \in Nat /\ log'[k] \in LogRows
    BY <1>1, <2>1, DomainOfSeq DEF WriterGood, WriterTypeOK
  <2>3. DOMAIN log = 1 .. Len(log) /\ Len(log) \in Nat
    BY DomainOfSeq DEF Inv, TypeOK, WriterTypeOK
  <2>4. CASE k \in DOMAIN log
    <3>1. log'[k] = log[k]
      BY <1>1, <2>4 DEF LogGrows
    <3>2. PICK j \in 1 .. k - 1 : log[j] = Row(log[k].call, "allow")
      BY <2>1, <2>4, <3>1 DEF Inv, SettlementsFollow
    <3>3. j \in DOMAIN log
      BY <2>3, <2>4, <3>2
    <3>4. QED
      BY <1>1, <3>1, <3>2, <3>3 DEF LogGrows
  <2>5. CASE k \notin DOMAIN log
    <3>1. InQueue(log'[k]) /\ \A j \in DOMAIN log : j < k
      BY <1>1, <2>1, <2>5 DEF LogGrows
    <3>2. log'[k].call \in Calls /\ log'[k] = Row(log'[k].call, "settlement")
      BY <2>1, <2>2 DEF LogRows, Row
    <3>3. Anywhere(Row(log'[k].call, "settlement"))
      BY <3>1, <3>2, InWriterIs DEF Anywhere
    <3>4. InLog(Row(log'[k].call, "allow"))
      BY <3>2, <3>3 DEF Inv, RecordsMatchPlaces, PlaceMatches
    <3>5. PICK j \in DOMAIN log : log[j] = Row(log'[k].call, "allow")
      BY <3>4 DEF InLog
    <3>6. j \in 1 .. k - 1
      BY <2>2, <2>3, <3>1, <3>5
    <3>7. log'[j] = log[j]
      BY <1>1, <3>5 DEF LogGrows
    <3>8. QED
      BY <3>5, <3>6, <3>7
  <2>6. QED
    BY <2>4, <2>5
<1>7. QED
  BY <1>1, <1>3, <1>5, <1>6 DEF Inv, WriterGood

\* The process dies: what is on disk, and who has signed, stays.
LEMMA CrashInv ==
  ASSUME Inv, Crash
  PROVE  Inv'
<1>1. WriterGood' /\ log' = log /\ \A r : ~InWriter(r)'
  BY InvIsGood, LostGood DEF Crash
<1>2. /\ pc' = [c \in Calls |-> IF pc[c] = "signing" THEN "deadSigned"
                               ELSE IF pc[c] \in Running THEN "dead" ELSE pc[c]]
      /\ status' = "down" /\ inFlight' = 0
      /\ UNCHANGED <<ticket, spentAt, readable, now>>
  BY DEF Crash
<1>3. TypeOK'
  BY <1>1, <1>2 DEF Inv, TypeOK, WriterGood, Places
<1>4. \A r : (InLog(r)' <=> InLog(r)) /\ (Anywhere(r)' => Anywhere(r))
  BY <1>1 DEF InLog, Anywhere
<1>5. RecordsMatchPlaces'
  <2>1. SUFFICES ASSUME NEW c \in Calls
                 PROVE  PlaceMatches(c)'
    BY DEF RecordsMatchPlaces
  <2>2. PlaceMatches(c)
    BY DEF Inv, RecordsMatchPlaces
  <2>3. QED
    BY <1>2, <1>4, <2>2 DEF PlaceMatches, Signed, Running, Reserved
<1>6. QED
  BY <1>1, <1>3, <1>5, FollowStays DEF Inv, WriterGood

\* A restart and the clock touch neither rows nor calls.
LEMMA OutsideInv ==
  ASSUME Inv, Restart \/ Tick \/ UNCHANGED vars
  PROVE  Inv'
<1>1. UNCHANGED <<pc, ticket, inFlight, spentAt, readable, writer>>
  BY DEF Restart, Tick, vars, buyer
<1>2. Brings({})
  BY <1>1, InvIsGood, NothingBrings
<1>3. now' \in 0 .. MaxClock /\ status' \in {"up", "down", "failed"}
  BY BudgetAssumption DEF Restart, Tick, vars, buyer, Inv, TypeOK
<1>4. TypeOK'
  BY <1>1, <1>2, <1>3 DEF Inv, TypeOK, Brings, WriterGood
<1>5. RecordsMatchPlaces'
  <2>1. SUFFICES ASSUME NEW c \in Calls
                 PROVE  PlaceMatches(c)'
    BY DEF RecordsMatchPlaces
  <2>2. PlaceMatches(c)
    BY DEF Inv, RecordsMatchPlaces
  <2>3. QED
    BY <1>1, <2>2 DEF PlaceMatches, Signed, Anywhere, InLog, InWriter, Tracked, In, writer
<1>6. QED
  BY <1>2, <1>4, <1>5, FollowStays DEF Inv, Brings, WriterGood

\* Nothing is recorded and nothing reserved at the start.
LEMMA InitInv == Init => Inv
<1> SUFFICES ASSUME Init
             PROVE  Inv
  OBVIOUS
<1>1. /\ <<>> \in Seq(LogRows) /\ <<>> \in Seq(Seq(LogRows))
      /\ buffer = <<>> /\ queue = <<>> /\ log = <<>>
  BY EmptySeq DEF Init, WriterInit
<1>2. DOMAIN buffer = {} /\ DOMAIN queue = {} /\ DOMAIN log = {}
  BY <1>1, EmptySeq
<1>3. TypeOK
  <2>1. WriterTypeOK(LogRows)
    BY <1>1 DEF Init, WriterInit, WriterTypeOK
  <2>2. now \in 0 .. MaxClock
    BY BudgetAssumption DEF Init
  <2>3. pc \in [Calls -> Places] /\ ticket \in [Calls -> Nat]
        /\ spentAt \in [Calls -> 0 .. MaxClock \cup {Never}]
    BY DEF Init, Places
  <2>4. QED
    BY <2>1, <2>2, <2>3 DEF Init, TypeOK
<1>4. Distinct /\ SettlementsFollow
  BY <1>2 DEF Distinct, Injective, SettlementsFollow
<1>5. \A r : ~Anywhere(r)
  BY <1>2 DEF Anywhere, InLog, InWriter
<1>6. RecordsMatchPlaces
  BY <1>5 DEF Init, RecordsMatchPlaces, PlaceMatches, Signed
<1>7. QED
  BY <1>3, <1>4, <1>6 DEF Inv

\* So does every other step.
LEMMA NextInv == Inv /\ [Next]_vars => Inv'
BY ProceedInv, WritesInv, CrashInv, OutsideInv DEF Next

\* The invariant of every behaviour.
LEMMA Invariance == Spec => []Inv
BY InitInv, NextInv, PTL DEF Spec

(* What the pre-sign hook and the two files keep has its types, whatever the
   calls, their amounts and the size of the buffer. *)
THEOREM BuyerTypes == Spec => []TypeOK
<1>1. Inv => TypeOK
  BY DEF Inv
<1>2. QED
  BY <1>1, Invariance, PTL

(* No call signs before its allow row and its spend are on disk, whichever
   batch carried the row, whatever write fails and whenever the process dies;
   the log holds no row twice, and a settlement row after its decision. *)
THEOREM DurableBeforeSigning == Spec => []SignedOnRecord
<1>1. Inv => SignedOnRecord
  BY DEF Inv, RecordsMatchPlaces, PlaceMatches, SettlementsFollow, Distinct, Injective,
         SignedOnRecord, Signed
<1>2. QED
  BY <1>1, Invariance, PTL

-----------------------------------------------------------------------------
(* The budget. *)

InHook == {c \in Calls : pc[c] \in Reserved}

BookedIn(first, last) == {c \in Calls : spentAt[c] # Never /\ spentAt[c] \in first .. last}

Recent(t) == {c \in Calls : spentAt[c] # Never /\ t - spentAt[c] <= Hour}

\* Spend is recorded for who signs, and not in the future.
BookedSigned == \A c \in Calls : spentAt[c] # Never => c \in Signed /\ spentAt[c] <= now

(* What is reserved is counted against the cap besides what is spent, so a
   call that comes to spend what it reserved stays within it. *)
Counted == TotalOf(Recent(now)) + TotalOf(InHook) <= Cap

Capped == \A t \in 0 .. MaxClock : TotalOf(BookedIn(t - Hour, t)) <= Cap

BudgetInv == Inv /\ inFlight = TotalOf(InHook) /\ BookedSigned /\ Counted /\ Capped

\* Totals of calls.
LEMMA TotalTyped ==
  ASSUME NEW S, S \subseteq Calls
  PROVE  IsFiniteSet(S) /\ (\A c \in S : Micro[c] \in Nat) /\ TotalOf(S) \in Nat
<1>1. IsFiniteSet(S) /\ \A c \in S : Micro[c] \in Nat
  BY CallsAssumption, FS_Subset, MicroAssumption
<1>2. QED
  BY <1>1, SumTyped DEF TotalOf

(* One more payment adds its amount. *)
LEMMA TotalAdd ==
  ASSUME NEW S, S \subseteq Calls, NEW c \in Calls, c \notin S
  PROVE  TotalOf(S \cup {c}) = TotalOf(S) + Micro[c]
<1>1. Micro[c] \in Nat /\ TotalOf(S) \in Nat
  BY MicroAssumption, TotalTyped
<1>2. TotalOf(S \cup {c}) = Micro[c] + TotalOf(S)
  BY <1>1, TotalTyped, SumAdd DEF TotalOf
<1>3. QED
  BY <1>1, <1>2

(* More payments sum to no less. *)
LEMMA TotalMonotone ==
  ASSUME NEW S, NEW R, S \subseteq R, R \subseteq Calls
  PROVE  TotalOf(S) <= TotalOf(R)
BY TotalTyped, SumMonotone DEF TotalOf

\* The sets of the budget are sets of calls.
LEMMA BudgetSets ==
  /\ InHook \subseteq Calls /\ TotalOf(InHook) \in Nat
  /\ \A t : Recent(t) \subseteq Calls /\ TotalOf(Recent(t)) \in Nat
  /\ \A s, t : BookedIn(s, t) \subseteq Calls /\ TotalOf(BookedIn(s, t)) \in Nat
<1>1. InHook \subseteq Calls
  BY DEF InHook
<1>2. \A t : Recent(t) \subseteq Calls
  BY DEF Recent
<1>3. \A s, t : BookedIn(s, t) \subseteq Calls
  BY DEF BookedIn
<1>4. QED
  BY <1>1, <1>2, <1>3, TotalTyped

(* Who gives back what it reserved gives back exactly that: the reservation
   never stops at zero. *)
LEMMA ReleaseExact ==
  ASSUME NEW c \in InHook, inFlight = TotalOf(InHook), Release(c)
  PROVE  /\ inFlight' = TotalOf(InHook \ {c})
         /\ TotalOf(InHook) = TotalOf(InHook \ {c}) + Micro[c]
<1>1. InHook \ {c} \subseteq Calls /\ c \in Calls /\ (InHook \ {c}) \cup {c} = InHook
  BY DEF InHook
<1>2. TotalOf(InHook) = TotalOf(InHook \ {c}) + Micro[c]
  <2>1. c \notin InHook \ {c}
    OBVIOUS
  <2>2. TotalOf((InHook \ {c}) \cup {c}) = TotalOf(InHook \ {c}) + Micro[c]
    BY <1>1, <2>1, TotalAdd
  <2>3. QED
    BY <1>1, <2>2
<1>3. Micro[c] \in Nat /\ TotalOf(InHook \ {c}) \in Nat
  BY <1>1, MicroAssumption, TotalTyped
<1>4. QED
  BY <1>2, <1>3 DEF Release

(* Every step but the clock's keeps the budget if it records no spend and
   reserves no more than the cap leaves. *)
LEMMA BudgetStays ==
  ASSUME BudgetInv, Inv', UNCHANGED <<spentAt, now>>, inFlight' = TotalOf(InHook)',
         TotalOf(Recent(now)) + TotalOf(InHook)' <= Cap, Signed \subseteq Signed'
  PROVE  BudgetInv'
<1>1. \A S : TotalOf(S)' = TotalOf(S')
  BY DEF TotalOf
<1>2. BookedSigned'
  BY DEF BudgetInv, BookedSigned
<1>3. Recent(now)' = Recent(now)
  BY DEF Recent
<1>4. \A t : BookedIn(t - Hour, t)' = BookedIn(t - Hour, t)
  BY DEF BookedIn
<1>5. Counted' /\ Capped'
  BY <1>1, <1>3, <1>4 DEF BudgetInv, Counted, Capped
<1>6. QED
  BY <1>2, <1>5 DEF BudgetInv

\* The hook's steps: who reserves, who releases, who spends.
LEMMA ProceedBudget ==
  ASSUME BudgetInv, Inv', NEW c \in Calls, Proceed(c)
  PROVE  BudgetInv'
<1> USE DEF Goes
<1>1. /\ TypeOK /\ now' = now
      /\ \A d \in Calls \ {c} : pc'[d] = pc[d]
      /\ \A S : TotalOf(S)' = TotalOf(S')
  BY DEF Proceed, RefuseEarly, CheckAndReserve, ApprovalRefused, RecordAllow, AllowRejected,
         AbortedAfterRecord, CommitSpend, CommitFails, Settled, Unreported, Refuses,
         BudgetInv, Inv, TypeOK, TotalOf
<1>2. /\ TotalOf(InHook) \in Nat /\ TotalOf(Recent(now)) \in Nat /\ Cap \in Nat /\ Micro[c] \in Nat
      /\ inFlight = TotalOf(InHook) /\ TotalOf(Recent(now)) + TotalOf(InHook) <= Cap
  BY BudgetSets, BudgetAssumption, MicroAssumption DEF BudgetInv, Counted
<1>3. CASE pc[c] \in Reserved <=> pc'[c] \in Reserved
  <2>1. /\ UNCHANGED <<inFlight, spentAt>>
        /\ pc[c] \in {"signing", "paid", "deadSigned"} => pc'[c] \in {"signing", "paid", "deadSigned"}
    BY <1>1, <1>3 DEF Proceed, RefuseEarly, CheckAndReserve, ApprovalRefused, RecordAllow,
       AllowRejected, AbortedAfterRecord, CommitSpend, CommitFails, Settled, Unreported, Refuses,
       TypeOK, Reserved
  <2>2. InHook' = InHook
    BY <1>1, <1>3 DEF InHook
  <2>3. Signed \subseteq Signed'
    BY <1>1, <2>1 DEF Signed
  <2>4. QED
    BY <1>1, <1>2, <2>1, <2>2, <2>3, BudgetStays
<1>4. CASE pc[c] \notin Reserved /\ pc'[c] \in Reserved
  <2>1. CheckAndReserve(c) /\ WithinBudget(c) /\ pc[c] = "idle"
    BY <1>1, <1>4 DEF Proceed, RefuseEarly, CheckAndReserve, ApprovalRefused, RecordAllow,
       AllowRejected, AbortedAfterRecord, CommitSpend, CommitFails, Settled, Unreported, Refuses,
       TypeOK, Reserved
  <2>2. /\ inFlight' = inFlight + Micro[c] /\ UNCHANGED <<spentAt, now>>
        /\ SpentMicro(now) + inFlight + Micro[c] <= Cap
    BY <2>1 DEF CheckAndReserve, WithinBudget
  <2>3. SpentMicro(now) = TotalOf(Recent(now))
    BY DEF SpentMicro, Recent
  <2>4. InHook' = InHook \cup {c} /\ c \notin InHook
    BY <1>1, <1>4 DEF InHook
  <2>5. TotalOf(InHook)' = TotalOf(InHook) + Micro[c]
    BY <1>1, <2>4, BudgetSets, TotalAdd
  <2>6. Signed \subseteq Signed'
    BY <1>1, <2>1 DEF Signed
  <2>7. TotalOf(Recent(now)) + TotalOf(InHook)' <= Cap
    BY <1>2, <2>2, <2>3, <2>5
  <2>8. inFlight' = TotalOf(InHook)'
    BY <1>2, <2>2, <2>5
  <2>9. QED
    BY <2>2, <2>6, <2>7, <2>8, BudgetStays
<1>5. CASE pc[c] \in Reserved /\ pc'[c] \notin Reserved
  <2>1. Release(c) /\ (CommitSpend(c) \/ UNCHANGED spentAt)
    BY <1>1, <1>5 DEF Proceed, RefuseEarly, CheckAndReserve, ApprovalRefused, RecordAllow,
       AllowRejected, AbortedAfterRecord, CommitSpend, CommitFails, Settled, Unreported, Refuses,
       TypeOK, Reserved
  <2>2. InHook' = InHook \ {c} /\ c \in InHook
    BY <1>1, <1>5 DEF InHook
  <2>3. /\ inFlight' = TotalOf(InHook \ {c})
        /\ TotalOf(InHook) = TotalOf(InHook \ {c}) + Micro[c]
        /\ TotalOf(InHook \ {c}) \in Nat
    <3>1. InHook \ {c} \subseteq Calls
      BY DEF InHook
    <3>2. QED
      BY <1>2, <2>1, <2>2, <3>1, ReleaseExact, TotalTyped
  <2>4. TotalOf(InHook)' = TotalOf(InHook \ {c})
    BY <1>1, <2>2
  <2>5. Signed \subseteq Signed'
    BY <1>1, <1>5 DEF Signed, Reserved
  <2>6. CASE UNCHANGED spentAt
    <3>1. TotalOf(Recent(now)) + TotalOf(InHook)' <= Cap
      BY <1>2, <2>3, <2>4
    <3>2. QED
      BY <1>1, <2>3, <2>4, <2>5, <2>6, <3>1, BudgetStays
  <2>7. CASE CommitSpend(c)
    <3>1. /\ pc'[c] = "signing" /\ spentAt'[c] = now
          /\ \A d \in Calls \ {c} : spentAt'[d] = spentAt[d]
      BY <1>1, <2>7 DEF CommitSpend, TypeOK
    <3>2. spentAt[c] = Never
      BY <1>5 DEF BudgetInv, BookedSigned, Signed, Reserved
    <3>3. now \in Nat /\ Hour \in Nat /\ now # Never /\ now - now <= Hour /\ now <= now
      <4>1. now \in Nat /\ Hour \in Nat
        BY <1>1, BudgetAssumption DEF TypeOK
      <4>2. QED
        BY <4>1 DEF Never
    <3>4. BookedSigned'
      BY <1>1, <2>5, <3>1, <3>3 DEF BudgetInv, BookedSigned, Signed
    <3>5. Recent(now)' = Recent(now) \cup {c} /\ c \notin Recent(now)
      BY <1>1, <3>1, <3>2, <3>3 DEF Recent
    <3>6. TotalOf(Recent(now))' = TotalOf(Recent(now)) + Micro[c]
      BY <1>1, <3>5, BudgetSets, TotalAdd
    <3>7. Counted'
      BY <1>1, <1>2, <2>3, <2>4, <3>6 DEF Counted
    <3>8. ASSUME NEW t \in 0 .. MaxClock
          PROVE  TotalOf(BookedIn(t - Hour, t))' <= Cap
      <4>1. t \in Nat /\ c \notin BookedIn(t - Hour, t)
        BY <3>2, BudgetAssumption DEF BookedIn
      <4>2. TotalOf(BookedIn(t - Hour, t)) <= Cap
        BY DEF BudgetInv, Capped
      <4>3. CASE now \notin t - Hour .. t
        <5>1. BookedIn(t - Hour, t)' = BookedIn(t - Hour, t)
          BY <1>1, <3>1, <3>2, <4>3 DEF BookedIn
        <5>2. QED
          BY <1>1, <4>2, <5>1
      <4>4. CASE now \in t - Hour .. t
        <5>1. BookedIn(t - Hour, t)' = BookedIn(t - Hour, t) \cup {c}
          BY <1>1, <3>1, <3>2, <3>3, <4>4 DEF BookedIn
        <5>2. BookedIn(t - Hour, t) \subseteq Recent(now)
          BY <3>3, <4>1, <4>4 DEF BookedIn, Recent
        <5>3. TotalOf(BookedIn(t - Hour, t)) <= TotalOf(Recent(now))
          BY <5>2, BudgetSets, TotalMonotone
        <5>4. TotalOf(BookedIn(t - Hour, t))' = TotalOf(BookedIn(t - Hour, t)) + Micro[c]
          BY <1>1, <4>1, <5>1, BudgetSets, TotalAdd
        <5>5. TotalOf(BookedIn(t - Hour, t)) \in Nat
          BY BudgetSets
        <5>6. QED
          BY <1>2, <2>3, <5>3, <5>4, <5>5
      <4>5. QED
        BY <4>3, <4>4
    <3>9. inFlight' = TotalOf(InHook)'
      BY <2>3, <2>4
    <3>10. QED
      BY <3>4, <3>7, <3>8, <3>9 DEF BudgetInv, Capped
  <2>8. QED
    BY <2>1, <2>6, <2>7
<1>6. QED
  BY <1>3, <1>4, <1>5

\* As time passes, less counts as recent.
LEMMA TickBudget ==
  ASSUME BudgetInv, Inv', Tick
  PROVE  BudgetInv'
<1>1. /\ UNCHANGED <<pc, spentAt, inFlight>> /\ now' = now + 1
      /\ \A S : TotalOf(S)' = TotalOf(S')
      /\ TypeOK
  BY DEF Tick, BudgetInv, Inv, TotalOf
<1>2. now \in Nat /\ Hour \in Nat /\ Cap \in Nat
  BY <1>1, BudgetAssumption DEF TypeOK
<1>3. \A c \in Calls : spentAt[c] \in Int
  BY <1>1, BudgetAssumption DEF TypeOK, Never
<1>4. InHook' = InHook /\ Signed' = Signed
  BY <1>1 DEF InHook, Signed
<1>5. BookedSigned'
  <2> SUFFICES ASSUME NEW c \in Calls, spentAt[c] # Never
               PROVE  c \in Signed' /\ spentAt'[c] <= now'
    BY <1>1 DEF BookedSigned
  <2>1. c \in Signed /\ spentAt[c] <= now
    BY DEF BudgetInv, BookedSigned
  <2>2. QED
    BY <1>1, <1>2, <1>3, <1>4, <2>1
<1>6. Recent(now)' \subseteq Recent(now)
  BY <1>1, <1>2, <1>3 DEF Recent
<1>7. TotalOf(Recent(now))' <= TotalOf(Recent(now))
  BY <1>1, <1>6, BudgetSets, TotalMonotone
<1>8. Counted'
  <2>1. Recent(now)' \subseteq Calls
    BY <1>6, BudgetSets
  <2>2. TotalOf(Recent(now))' \in Nat
    BY <1>1, <2>1, TotalTyped
  <2>3. TotalOf(InHook)' = TotalOf(InHook) /\ TotalOf(InHook) \in Nat /\ TotalOf(Recent(now)) \in Nat
    BY <1>1, <1>4, BudgetSets
  <2>4. QED
    BY <1>2, <1>7, <2>2, <2>3 DEF BudgetInv, Counted
<1>9. Capped'
  <2>1. \A t : BookedIn(t - Hour, t)' = BookedIn(t - Hour, t)
    BY <1>1 DEF BookedIn
  <2>2. QED
    BY <1>1, <2>1 DEF BudgetInv, Capped
<1>10. QED
  BY <1>1, <1>4, <1>5, <1>8, <1>9 DEF BudgetInv

\* A crash forgets the reservations along with the calls that made them.
LEMMA CrashBudget ==
  ASSUME BudgetInv, Inv', Crash
  PROVE  BudgetInv'
<1>1. /\ UNCHANGED <<spentAt, now>> /\ inFlight' = 0
      /\ \A S : TotalOf(S)' = TotalOf(S')
      /\ pc' = [c \in Calls |-> IF pc[c] = "signing" THEN "deadSigned"
                               ELSE IF pc[c] \in Running THEN "dead" ELSE pc[c]]
  BY DEF Crash, TotalOf
<1>2. InHook' = {}
  BY <1>1 DEF InHook, Running, Reserved
<1>3. TotalOf(InHook)' = 0
  BY <1>1, <1>2, SumEmpty DEF TotalOf
<1>4. Signed \subseteq Signed'
  BY <1>1 DEF Signed, Running, Reserved
<1>5. TotalOf(Recent(now)) + TotalOf(InHook)' <= Cap
  BY <1>3, BudgetSets, BudgetAssumption DEF BudgetInv, Counted
<1>6. QED
  BY <1>1, <1>3, <1>4, <1>5, BudgetStays

\* The budget's invariant of every behaviour.
LEMMA BudgetInvariance == Spec => []BudgetInv
<1>1. Init => BudgetInv
  <2> SUFFICES ASSUME Init
               PROVE  BudgetInv
    OBVIOUS
  <2>1. InHook = {} /\ \A t : Recent(t) = {} /\ BookedIn(t - Hour, t) = {}
    BY DEF Init, InHook, Reserved, Recent, BookedIn
  <2>2. TotalOf({}) = 0
    BY SumEmpty DEF TotalOf
  <2>3. inFlight = 0 /\ BookedSigned
    BY DEF Init, BookedSigned
  <2>4. TotalOf(InHook) = 0 /\ TotalOf(Recent(now)) = 0
          /\ \A t : TotalOf(BookedIn(t - Hour, t)) = 0
    BY <2>1, <2>2
  <2>5. Counted /\ Capped
    BY <2>4, BudgetAssumption DEF Counted, Capped
  <2>6. QED
    BY <2>3, <2>4, <2>5, InitInv DEF BudgetInv
<1>2. BudgetInv /\ [Next]_vars => BudgetInv'
  <2> SUFFICES ASSUME BudgetInv, [Next]_vars
               PROVE  BudgetInv'
    OBVIOUS
  <2>1. Inv'
    BY NextInv DEF BudgetInv
  <2>2. CASE Writes \/ Restart \/ UNCHANGED vars
    <3>1. UNCHANGED <<pc, spentAt, inFlight, now>>
      BY <2>2 DEF Writes, buyer, Restart, vars
    <3>2. InHook' = InHook /\ Signed' = Signed
      BY <3>1 DEF InHook, Signed
    <3>3. TotalOf(InHook)' = TotalOf(InHook)
      BY <3>2 DEF TotalOf
    <3>4. QED
      BY <2>1, <3>1, <3>2, <3>3, BudgetStays DEF BudgetInv, Counted
  <2>3. QED
    BY <2>1, <2>2, ProceedBudget, TickBudget, CrashBudget DEF Next
<1>3. QED
  BY <1>1, <1>2, PTL DEF Spec

(* hourlyBudgetCap: in no window of an hour, wherever it lies, do the calls
   that were allowed to sign spend more than the cap, for any number of
   concurrent calls, across crashes and failed writes; and every path out of
   the hook gives back exactly what it reserved. *)
THEOREM HourlyCapHolds == Spec => []HourlyCap
<1>1. BudgetInv => HourlyCap
  <2> SUFFICES ASSUME BudgetInv
               PROVE  HourlyCap
    OBVIOUS
  <2>1. ASSUME NEW t \in 0 .. MaxClock
        PROVE  TotalOf({c \in Signed : spentAt[c] \in t - Hour .. t}) <= Cap
    <3>1. {c \in Signed : spentAt[c] \in t - Hour .. t} = BookedIn(t - Hour, t)
      BY DEF BudgetInv, BookedSigned, BookedIn, Signed, Inv, RecordsMatchPlaces, PlaceMatches
    <3>2. QED
      BY <3>1 DEF BudgetInv, Capped
  <2>2. QED
    BY <2>1 DEF BudgetInv, InHook, HourlyCap
<1>2. QED
  BY <1>1, BudgetInvariance, PTL
=============================================================================
