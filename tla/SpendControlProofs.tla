------------------------- MODULE SpendControlProofs -------------------------
(***************************************************************************)
(* What is proved of spendControlSafeFetch over its file ledger, for any   *)
(* number of concurrent calls, keys and requests: memory and file agree,   *)
(* the reservations are those of calls in flight and of one kind of failed *)
(* call, every payment is recorded once, and the cumulative cap holds      *)
(* under every key.                                                        *)
(***************************************************************************)
EXTENDS SpendControl, Inductions

(* checkCumulativeCap reads spentMicro, the restart reads the file: they agree
   whenever a process is up. *)
MemoryIsDisk == status = "up" => spent = disk

Inv ==
  /\ TypeOK
  /\ MemoryIsDisk
  /\ \A c \in Calls : pc[c] = "paying" => c \in signed

-----------------------------------------------------------------------------
(* A request has keys of the ledger and a natural amount. *)
LEMMA RequestTyped ==
  ASSUME NEW c \in Calls, TypeOK
  PROVE  /\ req[c].keys \in Seq(Keys)
         /\ req[c].micro \in Nat
BY RequestsAssumption DEF TypeOK

(* Recording rows of a call leaves natural amounts. *)
LEMMA CreditedTyped ==
  ASSUME NEW c \in Calls, TypeOK, NEW n, NEW f \in [Keys -> Nat]
  PROVE  Credited(f, c, n) \in [Keys -> Nat]
<1>1. req[c].micro \in Nat
  BY RequestTyped
<1>2. QED
  BY <1>1 DEF Credited

(* So does the release of a reservation, which stops at zero. *)
LEMMA ReleasedTyped ==
  ASSUME NEW c \in Calls, TypeOK
  PROVE  Released(c) \in [Keys -> Nat]
<1>1. /\ req[c].micro \in Nat
      /\ pending \in [Keys -> Nat]
  BY RequestTyped DEF TypeOK
<1>2. \A k \in Keys : pending[k] > req[c].micro => pending[k] - req[c].micro \in Nat
  BY <1>1
<1>3. QED
  BY <1>1, <1>2 DEF Released

(* The invariant holds when a process first opens its file. *)
LEMMA InitInv == Init => Inv
BY DEF Init, Inv, TypeOK, MemoryIsDisk, InFlight

(* Death at any await loses what memory held and nothing else. *)
LEMMA DiesInv ==
  ASSUME Inv, Dies, disk' \in [Keys -> Nat]
  PROVE  Inv'
BY DEF Inv, TypeOK, MemoryIsDisk, Dies, InFlight

-----------------------------------------------------------------------------
(* Every step of spendControlSafeFetch, and every death and restart, keeps it. *)
LEMMA NextInv == Inv /\ [Next]_vars => Inv'
<1> SUFFICES ASSUME Inv, [Next]_vars PROVE Inv'
  OBVIOUS
<1> USE DEF Inv
<1>1. ASSUME NEW c \in Calls, CheckAndReserve(c) PROVE Inv'
  <2>1. pending' \in [Keys -> Nat]
    BY <1>1, CreditedTyped DEF CheckAndReserve, TypeOK
  <2>2. QED
    BY <1>1, <2>1 DEF CheckAndReserve, Goes, TypeOK, MemoryIsDisk, InFlight
<1>2. ASSUME NEW c \in Calls, Pay(c) PROVE Inv'
  BY <1>2 DEF Pay, Goes, TypeOK, MemoryIsDisk, InFlight
<1>3. ASSUME NEW c \in Calls, EndUnsigned(c) PROVE Inv'
  <2>1. pending' \in [Keys -> Nat]
    BY <1>3, ReleasedTyped DEF EndUnsigned
  <2>2. QED
    BY <1>3, <2>1 DEF EndUnsigned, Goes, TypeOK, MemoryIsDisk, InFlight
<1>4. ASSUME NEW c \in Calls, PayEnds(c) PROVE Inv'
  <2>1. /\ pending' \in [Keys -> Nat]
        /\ disk' \in [Keys -> Nat]
        /\ spent' \in [Keys -> Nat]
    BY <1>4, ReleasedTyped, CreditedTyped DEF PayEnds, TypeOK
  <2>2. spent = disk => spent' = disk'
    BY <1>4 DEF PayEnds
  <2>3. QED
    BY <1>4, <2>1, <2>2 DEF PayEnds, Goes, TypeOK, MemoryIsDisk, InFlight
<1>5. ASSUME NEW c \in Calls, NEW n \in 0 .. AllKeys(c),
             RecordFails(c, n) \/ RecordFailsInFinally(c, n)
      PROVE  Inv'
  <2>1. AppendThrows(c, n) /\ (Goes(c, "unrecorded") \/ Goes(c, "held"))
    BY <1>5 DEF RecordFails, RecordFailsInFinally
  <2>2. /\ pending' \in [Keys -> Nat]
        /\ disk' \in [Keys -> Nat]
        /\ spent' \in [Keys -> Nat]
    BY <1>5, <2>1, ReleasedTyped, CreditedTyped
       DEF RecordFails, RecordFailsInFinally, AppendThrows, TypeOK
  <2>3. spent = disk => spent' = disk'
    BY <2>1 DEF AppendThrows
  <2>4. QED
    BY <2>1, <2>2, <2>3 DEF AppendThrows, Goes, TypeOK, MemoryIsDisk, InFlight
<1>6. ASSUME NEW c \in Calls, NEW n, DiesRecording(c, n) PROVE Inv'
  <2>1. disk' \in [Keys -> Nat]
    BY <1>6, CreditedTyped DEF DiesRecording, TypeOK
  <2>2. QED
    BY <1>6, <2>1, DiesInv DEF DiesRecording
<1>7. CASE Crash
  <2>1. disk' \in [Keys -> Nat]
    BY <1>7 DEF Crash, TypeOK
  <2>2. QED
    BY <1>7, <2>1, DiesInv DEF Crash
<1>8. CASE Restart
  BY <1>8 DEF Restart, TypeOK, MemoryIsDisk, InFlight
<1>9. CASE UNCHANGED vars
  BY <1>9 DEF vars, TypeOK, MemoryIsDisk, InFlight
<1>10. QED
  BY <1>1, <1>2, <1>3, <1>4, <1>5, <1>6, <1>7, <1>8, <1>9 DEF Next, Ends

(* The invariant of every behaviour. *)
LEMMA Invariance == Spec => []Inv
BY InitInv, NextInv, PTL DEF Spec

-----------------------------------------------------------------------------
(* Reservations and recorded spend are natural amounts under every key: a
   release never leaves a negative reservation, which would raise the cap; and
   only calls whose payer ran can be missing from the file. *)
THEOREM SpendTypes == Spec => []TypeOK
<1>1. Inv => TypeOK
  BY DEF Inv
<1>2. QED
  BY <1>1, Invariance, PTL

(* The replay of the file by createFileSpendLedger and the maps that the cap
   check reads agree under every key whenever a process is up: after an append
   that failed between two keys of one call, a death in the middle of a
   recording, and any number of restarts. *)
THEOREM MemoryAgrees == Spec => []MemoryIsDisk
<1>1. Inv => MemoryIsDisk
  BY DEF Inv
<1>2. QED
  BY <1>1, Invariance, PTL

-----------------------------------------------------------------------------
(* Totals under a key, as a function of the requests q.                    *)

KeysIn(q, c) == {q[c].keys[n] : n \in DOMAIN q[c].keys}

Under(q, k, S) == {c \in S : k \in KeysIn(q, c)}

MicroIn(q) == [c \in Calls |-> q[c].micro]

AmountUnder(q, k, S) == SumFunctionOnSet(MicroIn(q), Under(q, k, S))

\* What one call adds under a key.
Adds(q, k, c) == IF k \in KeysIn(q, c) THEN q[c].micro ELSE 0

(* The totals of the specification. *)
LEMMA TotalUnderIs ==
  \A k, S : TotalUnder(k, S) = AmountUnder(req, k, S)
BY DEF TotalUnder, AmountUnder, MicroIn, Under, KeysIn, KeysOf

(* The sets summed are finite, the amounts and the totals natural. *)
LEMMA AmountTyped ==
  ASSUME NEW q \in [Calls -> Requests], NEW k, NEW S, S \subseteq Calls
  PROVE  /\ IsFiniteSet(Under(q, k, S)) /\ Under(q, k, S) \subseteq Calls
         /\ \A c \in Calls : MicroIn(q)[c] = q[c].micro /\ q[c].micro \in Nat
         /\ AmountUnder(q, k, S) \in Nat
<1>1. Under(q, k, S) \subseteq Calls
  BY DEF Under
<1>2. IsFiniteSet(Under(q, k, S))
  BY <1>1, CallsAssumption, FS_Subset
<1>3. \A c \in Calls : MicroIn(q)[c] = q[c].micro /\ q[c].micro \in Nat
  BY RequestsAssumption DEF MicroIn
<1>4. AmountUnder(q, k, S) \in Nat
  BY <1>1, <1>2, <1>3, SumTyped DEF AmountUnder
<1>5. QED
  BY <1>1, <1>2, <1>3, <1>4

(* More calls sum to no less. *)
LEMMA AmountMonotone ==
  ASSUME NEW q \in [Calls -> Requests], NEW k, NEW S, NEW T, S \subseteq T, T \subseteq Calls
  PROVE  AmountUnder(q, k, S) <= AmountUnder(q, k, T)
<1>1. Under(q, k, S) \subseteq Under(q, k, T)
  BY DEF Under
<1>2. QED
  BY <1>1, AmountTyped, SumMonotone DEF AmountUnder

(* The sums of disjoint sets of calls add up. *)
LEMMA AmountDisjoint ==
  ASSUME NEW q \in [Calls -> Requests], NEW k, NEW S, NEW T, S \subseteq Calls, T \subseteq Calls,
         S \cap T = {}
  PROVE  AmountUnder(q, k, S \cup T) = AmountUnder(q, k, S) + AmountUnder(q, k, T)
<1>1. Under(q, k, S \cup T) = Under(q, k, S) \cup Under(q, k, T)
  BY DEF Under
<1>2. Under(q, k, S) \cap Under(q, k, T) = {}
  BY DEF Under
<1>3. /\ IsFiniteSet(Under(q, k, S)) /\ IsFiniteSet(Under(q, k, T))
      /\ \A c \in Under(q, k, S) \cup Under(q, k, T) : MicroIn(q)[c] \in Nat
  BY AmountTyped
<1>4. SumFunctionOnSet(MicroIn(q), Under(q, k, S) \cup Under(q, k, T))
        = SumFunctionOnSet(MicroIn(q), Under(q, k, S)) + SumFunctionOnSet(MicroIn(q), Under(q, k, T))
  BY <1>2, <1>3, SumDisjoint
<1>5. QED
  BY <1>1, <1>4 DEF AmountUnder

(* One more call adds its amount. *)
LEMMA AmountAdd ==
  ASSUME NEW q \in [Calls -> Requests], NEW k, NEW S, S \subseteq Calls, NEW c \in Calls, c \notin S
  PROVE  AmountUnder(q, k, S \cup {c}) = AmountUnder(q, k, S) + Adds(q, k, c)
<1>1. AmountUnder(q, k, S) \in Nat /\ q[c].micro \in Nat
  BY AmountTyped
<1>2. CASE k \in KeysIn(q, c)
  <2>1. Under(q, k, S \cup {c}) = Under(q, k, S) \cup {c} /\ c \notin Under(q, k, S)
    BY <1>2 DEF Under
  <2>2. /\ IsFiniteSet(Under(q, k, S))
        /\ \A d \in Under(q, k, S) : MicroIn(q)[d] \in Nat
        /\ MicroIn(q)[c] = q[c].micro
    BY AmountTyped
  <2>3. SumFunctionOnSet(MicroIn(q), Under(q, k, S) \cup {c})
          = q[c].micro + SumFunctionOnSet(MicroIn(q), Under(q, k, S))
    BY <1>1, <2>1, <2>2, SumAdd
  <2>4. AmountUnder(q, k, S \cup {c}) = q[c].micro + AmountUnder(q, k, S)
    BY <2>1, <2>3 DEF AmountUnder
  <2>5. QED
    BY <1>1, <1>2, <2>4 DEF Adds
<1>3. CASE k \notin KeysIn(q, c)
  <2>1. Under(q, k, S \cup {c}) = Under(q, k, S)
    BY <1>3 DEF Under
  <2>2. QED
    BY <1>1, <1>3, <2>1 DEF Adds, AmountUnder
<1>4. QED
  BY <1>2, <1>3

(* No call sums to nothing. *)
LEMMA AmountOfNone ==
  ASSUME NEW q, NEW k
  PROVE  AmountUnder(q, k, {}) = 0
<1>1. Under(q, k, {}) = {}
  BY DEF Under
<1>2. QED
  BY <1>1, SumEmpty DEF AmountUnder

(* Recording the first n keys of a call adds its amount under some of its keys,
   and under all of them when n is their number. *)
LEMMA CreditedAdds ==
  ASSUME TypeOK, NEW c \in Calls, NEW f \in [Keys -> Nat], NEW n \in 0 .. AllKeys(c), NEW k \in Keys
  PROVE  /\ f[k] <= Credited(f, c, n)[k]
         /\ Credited(f, c, n)[k] <= f[k] + Adds(req, k, c)
         /\ Credited(f, c, AllKeys(c))[k] = f[k] + Adds(req, k, c)
<1>1. req[c].keys \in Seq(Keys) /\ req[c].micro \in Nat /\ f[k] \in Nat
  BY RequestTyped
<1>2. AllKeys(c) \in Nat /\ DOMAIN req[c].keys = 1 .. AllKeys(c)
  BY <1>1 DEF AllKeys
<1>3. (\E j \in 1 .. AllKeys(c) : req[c].keys[j] = k) <=> k \in KeysIn(req, c)
  BY <1>2 DEF KeysIn
<1>4. (\E j \in 1 .. n : req[c].keys[j] = k) => k \in KeysIn(req, c)
  BY <1>2, <1>3
<1>5. Credited(f, c, n)[k] = f[k] + IF \E j \in 1 .. n : req[c].keys[j] = k THEN req[c].micro ELSE 0
  BY DEF Credited
<1>6. Credited(f, c, AllKeys(c))[k]
        = f[k] + IF \E j \in 1 .. AllKeys(c) : req[c].keys[j] = k THEN req[c].micro ELSE 0
  BY DEF Credited
<1>7. QED
  BY <1>1, <1>3, <1>4, <1>5, <1>6 DEF Adds

-----------------------------------------------------------------------------
(* Reservations.                                                           *)

Reserving == Capped({c \in Calls : pc[c] \in Reserved})

PendingByRequests == \A k \in Keys : pending[k] = AmountUnder(req, k, Reserving)

(* PendingIsReserved, in terms of the requests. *)
LEMMA PendingForm == PendingIsReserved <=> PendingByRequests
BY TotalUnderIs DEF PendingIsReserved, PendingByRequests, Reserving

(* The same after a step, which never changes a request. *)
LEMMA PendingFormNext ==
  ASSUME req' = req
  PROVE  PendingIsReserved' <=> \A k \in Keys : pending'[k] = AmountUnder(req, k, Reserving')
BY DEF PendingIsReserved, Reserving, TotalUnder, AmountUnder, MicroIn, Under, KeysIn, KeysOf

(* A check reserves for a capped call, and for no other. *)
LEMMA CheckPending ==
  ASSUME Inv, PendingByRequests, NEW c \in Calls, CheckAndReserve(c)
  PROVE  PendingIsReserved'
<1>1. TypeOK /\ pc[c] = "idle" /\ req' = req
  BY DEF Inv, CheckAndReserve
<1>2. SUFFICES ASSUME NEW k \in Keys PROVE pending'[k] = AmountUnder(req, k, Reserving')
  BY <1>1, PendingFormNext
<1>3. Reserving \subseteq Calls /\ c \notin Reserving
  BY <1>1 DEF Reserving, Capped, InFlight, Reserved
<1>4. CASE WithinCap(c) /\ IsCapped(c)
  <2>1. pending' = Credited(pending, c, AllKeys(c))
    BY <1>4 DEF CheckAndReserve
  <2>2. pending'[k] = pending[k] + Adds(req, k, c)
    <3>1. pending \in [Keys -> Nat] /\ AllKeys(c) \in 0 .. AllKeys(c)
      BY <1>1, RequestTyped DEF TypeOK, AllKeys
    <3>2. QED
      BY <1>1, <2>1, <3>1, CreditedAdds
  <2>3. Reserving' = Reserving \cup {c}
    BY <1>1, <1>4 DEF CheckAndReserve, Goes, Reserving, Capped, IsCapped, InFlight, Reserved, TypeOK
  <2>4. AmountUnder(req, k, Reserving \cup {c}) = AmountUnder(req, k, Reserving) + Adds(req, k, c)
    BY <1>1, <1>3, AmountAdd DEF TypeOK
  <2>5. QED
    BY <2>2, <2>3, <2>4 DEF PendingByRequests
<1>5. CASE ~(WithinCap(c) /\ IsCapped(c))
  <2>1. pending' = pending
    BY <1>5 DEF CheckAndReserve
  <2>2. Reserving' = Reserving
    BY <1>1, <1>5 DEF CheckAndReserve, Goes, Reserving, Capped, IsCapped, InFlight, Reserved, TypeOK
  <2>3. QED
    BY <2>1, <2>2 DEF PendingByRequests
<1>6. QED
  BY <1>4, <1>5

(* A call that leaves the flight gives back what it reserved: the release that
   stops at zero never has to. *)
LEMMA ReleasePending ==
  ASSUME TypeOK, PendingByRequests, NEW c \in Calls, pc[c] \in Reserved, NEW to, to \notin Reserved,
         Goes(c, to), pending' = Released(c), req' = req
  PROVE  PendingIsReserved'
<1>1. SUFFICES ASSUME NEW k \in Keys PROVE pending'[k] = AmountUnder(req, k, Reserving')
  BY PendingFormNext
<1>2. Reserving' = Reserving \ {c} /\ Reserving \subseteq Calls
  BY DEF Goes, Reserving, Capped, IsCapped, TypeOK
<1>3. pending[k] = AmountUnder(req, k, Reserving)
  BY DEF PendingByRequests
<1>4. CASE ~IsCapped(c)
  <2>1. Reserving' = Reserving
    BY <1>2, <1>4 DEF Reserving, Capped
  <2>2. QED
    BY <1>3, <1>4, <2>1 DEF Released
<1>5. CASE IsCapped(c)
  <2> DEFINE rest == AmountUnder(req, k, Reserving \ {c})
  <2>1. (Reserving \ {c}) \cup {c} = Reserving
    BY <1>5 DEF Reserving, Capped
  <2>2. AmountUnder(req, k, (Reserving \ {c}) \cup {c}) = rest + Adds(req, k, c)
    BY <1>2, AmountAdd DEF TypeOK
  <2>3. rest \in Nat /\ req[c].micro \in Nat
    BY <1>2, AmountTyped, RequestTyped DEF TypeOK
  <2>4. pending[k] = rest + Adds(req, k, c)
    BY <1>3, <2>1, <2>2
  <2>5. KeysOf(c) = KeysIn(req, c)
    BY DEF KeysOf, KeysIn
  <2> HIDE DEF rest
  <2>6. Released(c)[k] = IF k \in KeysIn(req, c) /\ pending[k] > req[c].micro THEN pending[k] - req[c].micro
                        ELSE IF k \in KeysIn(req, c) THEN 0 ELSE pending[k]
    BY <1>5, <2>5 DEF Released
  <2>7. Released(c)[k] = rest
    <3>1. CASE k \in KeysIn(req, c)
      BY <2>3, <2>4, <2>6, <3>1 DEF Adds
    <3>2. CASE k \notin KeysIn(req, c)
      BY <2>3, <2>4, <2>6, <3>2 DEF Adds
    <3>3. QED
      BY <3>1, <3>2
  <2>8. QED
    BY <1>2, <2>7 DEF rest
<1>6. QED
  BY <1>4, <1>5

(* No step makes or drops a reservation by the way. *)
LEMMA PendingNext == Inv /\ PendingIsReserved /\ [Next]_vars => PendingIsReserved'
<1> SUFFICES ASSUME Inv, PendingIsReserved, [Next]_vars PROVE PendingIsReserved'
  OBVIOUS
<1>1. TypeOK /\ PendingByRequests
  BY PendingForm DEF Inv
<1>2. ASSUME NEW c \in Calls, Pay(c) PROVE PendingIsReserved'
  <2>1. Reserving' = Reserving /\ pending' = pending /\ req' = req
    BY <1>1, <1>2 DEF Pay, Goes, Reserving, Capped, IsCapped, InFlight, Reserved, TypeOK
  <2>2. QED
    BY <1>1, <2>1, PendingFormNext DEF PendingByRequests
<1>3. ASSUME NEW c \in Calls, Ends(c) PROVE PendingIsReserved'
  <2>1. CASE EndUnsigned(c) \/ PayEnds(c) \/ \E n \in 0 .. AllKeys(c) : RecordFails(c, n)
    <3>1. /\ pc[c] \in Reserved /\ pending' = Released(c) /\ req' = req
          /\ \E to \in {"unsigned", "recorded", "unrecorded"} : Goes(c, to)
      BY <2>1 DEF EndUnsigned, PayEnds, RecordFails, AppendThrows, InFlight, Reserved
    <3>2. \A to \in {"unsigned", "recorded", "unrecorded"} : to \notin Reserved
      BY DEF InFlight, Reserved
    <3>3. QED
      BY <1>1, <3>1, <3>2, ReleasePending
  <2>2. CASE \E n \in 0 .. AllKeys(c) : RecordFailsInFinally(c, n)
    <3>1. Reserving' = Reserving /\ pending' = pending /\ req' = req
      BY <1>1, <2>2 DEF RecordFailsInFinally, AppendThrows, Goes, Reserving, Capped, IsCapped,
                        InFlight, Reserved, TypeOK
    <3>2. QED
      BY <1>1, <3>1, PendingFormNext DEF PendingByRequests
  <2>3. QED
    BY <1>3, <2>1, <2>2 DEF Ends
<1>4. ASSUME Dies PROVE PendingIsReserved'
  <2>1. Reserving' = {} /\ req' = req /\ \A k \in Keys : pending'[k] = 0
    BY <1>1, <1>4 DEF Dies, Reserving, Capped, InFlight, Reserved, TypeOK
  <2>2. QED
    BY <2>1, AmountOfNone, PendingFormNext
<1>5. ASSUME UNCHANGED <<req, pc, pending>> PROVE PendingIsReserved'
  <2>1. Reserving' = Reserving
    BY <1>5 DEF Reserving, Capped, IsCapped
  <2>2. QED
    BY <1>1, <1>5, <2>1, PendingFormNext DEF PendingByRequests
<1>6. CASE Restart
  BY <1>5, <1>6 DEF Restart
<1>7. CASE UNCHANGED vars
  BY <1>5, <1>7 DEF vars
<1>8. QED
  BY <1>1, <1>2, <1>3, <1>4, <1>6, <1>7, CheckPending DEF Next, Crash, DiesRecording

-----------------------------------------------------------------------------
(* Recorded spend.                                                         *)

RecordedCalls == {c \in Calls : pc[c] = "recorded"}

\* A call counts as lost only once it has ended, and a signed call is either
\* still paying, or recorded, or lost.
Accounted ==
  /\ \A c \in lost : pc[c] \in {"unrecorded", "held", "dead"}
  /\ \A c \in signed : pc[c] \in {"paying", "recorded"} \/ c \in lost

\* What the rows carry under a key: at least the recorded calls, at most those
\* and the calls whose recording was cut short.
DiskBetween ==
  \A k \in Keys : /\ AmountUnder(req, k, RecordedCalls) <= disk[k]
                  /\ disk[k] <= AmountUnder(req, k, RecordedCalls \cup lost)

(* RecordedOnce, said of what is in memory and of what is between the two on
   disk. *)
LEMMA DiskForm == RecordedOnce <=> MemoryIsDisk /\ DiskBetween
BY TotalUnderIs DEF RecordedOnce, MemoryIsDisk, DiskBetween, RecordedCalls

(* The same, one step later. *)
LEMMA DiskFormNext ==
  ASSUME req' = req
  PROVE  DiskBetween' <=>
           \A k \in Keys : /\ AmountUnder(req, k, RecordedCalls') <= disk'[k]
                           /\ disk'[k] <= AmountUnder(req, k, RecordedCalls' \cup lost')
BY DEF DiskBetween, AmountUnder, MicroIn, Under, KeysIn

(* Where the calls are after each step. *)
LEMMA AccountedNext == Inv /\ Accounted /\ [Next]_vars => Accounted'
<1> SUFFICES ASSUME Inv, Accounted, [Next]_vars PROVE Accounted'
  OBVIOUS
<1>1. /\ pc \in [Calls -> InFlight \cup {"idle", "blocked", "unsigned", "recorded", "unrecorded", "held", "dead"}]
      /\ signed \subseteq Calls /\ lost \subseteq signed
  BY DEF Inv, TypeOK
<1>2. ASSUME NEW c \in Calls, CheckAndReserve(c) \/ EndUnsigned(c) PROVE Accounted'
  BY <1>1, <1>2 DEF Accounted, CheckAndReserve, EndUnsigned, Goes, InFlight
<1>3. ASSUME NEW c \in Calls, Pay(c) \/ PayEnds(c) PROVE Accounted'
  BY <1>1, <1>3 DEF Accounted, Pay, PayEnds, Goes, InFlight
<1>4. ASSUME NEW c \in Calls, NEW n, RecordFails(c, n) \/ RecordFailsInFinally(c, n) PROVE Accounted'
  BY <1>1, <1>4 DEF Accounted, RecordFails, RecordFailsInFinally, AppendThrows, Goes, InFlight
<1>5. ASSUME Dies PROVE Accounted'
  BY <1>1, <1>5 DEF Accounted, Dies, InFlight
<1>6. CASE Restart
  BY <1>6 DEF Accounted, Restart
<1>7. CASE UNCHANGED vars
  BY <1>7 DEF Accounted, vars
<1>8. QED
  BY <1>2, <1>3, <1>4, <1>5, <1>6, <1>7 DEF Next, Ends, Crash, DiesRecording

(* A step that credits a paying call and then counts it as recorded, or as
   lost, keeps the file between the two totals. *)
LEMMA CreditKeepsBetween ==
  ASSUME Inv, Accounted, DiskBetween, req' = req, lost' \subseteq Calls,
         NEW c \in Calls, pc[c] = "paying", NEW n \in 0 .. AllKeys(c),
         disk' = Credited(disk, c, n), lost \subseteq lost',
         \/ RecordedCalls' = RecordedCalls \cup {c} /\ n = AllKeys(c)
         \/ RecordedCalls' = RecordedCalls /\ c \in lost'
  PROVE  DiskBetween'
<1>1. TypeOK /\ disk \in [Keys -> Nat] /\ req \in [Calls -> Requests]
  BY DEF Inv, TypeOK
<1>2. SUFFICES ASSUME NEW k \in Keys
               PROVE  /\ AmountUnder(req, k, RecordedCalls') <= disk'[k]
                      /\ disk'[k] <= AmountUnder(req, k, RecordedCalls' \cup lost')
  BY DiskFormNext
<1> DEFINE known == RecordedCalls \cup lost
<1>3. /\ RecordedCalls \subseteq Calls /\ c \notin RecordedCalls /\ known \subseteq Calls /\ c \notin known
      /\ RecordedCalls' \subseteq Calls
  BY DEF RecordedCalls, Accounted, Inv, TypeOK
<1>4. /\ AmountUnder(req, k, RecordedCalls \cup {c}) = AmountUnder(req, k, RecordedCalls) + Adds(req, k, c)
      /\ AmountUnder(req, k, known \cup {c}) = AmountUnder(req, k, known) + Adds(req, k, c)
  BY <1>1, <1>3, AmountAdd
<1>5. /\ disk[k] <= disk'[k] /\ disk'[k] <= disk[k] + Adds(req, k, c)
      /\ n = AllKeys(c) => disk'[k] = disk[k] + Adds(req, k, c)
  BY <1>1, CreditedAdds
<1>6. AmountUnder(req, k, RecordedCalls) <= disk[k] /\ disk[k] <= AmountUnder(req, k, known)
  BY DEF DiskBetween
<1>7. AmountUnder(req, k, known \cup {c}) <= AmountUnder(req, k, RecordedCalls' \cup lost')
  <2>1. known \cup {c} \subseteq RecordedCalls' \cup lost' /\ RecordedCalls' \cup lost' \subseteq Calls
    BY <1>3
  <2>2. QED
    BY <1>1, <2>1, AmountMonotone
<1>8. /\ AmountUnder(req, k, RecordedCalls) \in Nat /\ AmountUnder(req, k, known) \in Nat
      /\ AmountUnder(req, k, RecordedCalls' \cup lost') \in Nat
      /\ disk[k] \in Nat /\ disk'[k] \in Nat /\ Adds(req, k, c) \in Nat
  <2>1. RecordedCalls' \cup lost' \subseteq Calls
    BY <1>3
  <2>2. disk'[k] \in Nat
    BY <1>1, CreditedTyped
  <2>3. Adds(req, k, c) \in Nat
    BY <1>1, RequestTyped DEF Adds
  <2>4. QED
    BY <1>1, <1>3, <2>1, <2>2, <2>3, AmountTyped
<1> HIDE DEF known
<1>9. disk'[k] <= AmountUnder(req, k, RecordedCalls' \cup lost')
  <2>1. disk'[k] <= AmountUnder(req, k, known) + Adds(req, k, c)
    BY <1>5, <1>6, <1>8
  <2>2. QED
    BY <1>4, <1>7, <1>8, <2>1
<1>10. AmountUnder(req, k, RecordedCalls') <= disk'[k]
  <2>1. CASE RecordedCalls' = RecordedCalls \cup {c} /\ n = AllKeys(c)
    BY <1>4, <1>5, <1>6, <1>8, <2>1
  <2>2. CASE RecordedCalls' = RecordedCalls
    BY <1>5, <1>6, <1>8, <2>2
  <2>3. QED
    BY <2>1, <2>2
<1>11. QED
  BY <1>9, <1>10

(* Steps that leave the file and the recorded calls alone; more may be lost. *)
LEMMA UntouchedDisk ==
  ASSUME Inv, DiskBetween, req' = req, disk' = disk, RecordedCalls' = RecordedCalls,
         lost \subseteq lost', lost' \subseteq Calls
  PROVE  DiskBetween'
<1>1. disk \in [Keys -> Nat] /\ req \in [Calls -> Requests]
  BY DEF Inv, TypeOK
<1>2. SUFFICES ASSUME NEW k \in Keys
               PROVE  disk[k] <= AmountUnder(req, k, RecordedCalls \cup lost')
  BY DiskFormNext DEF DiskBetween
<1>3. /\ RecordedCalls \cup lost \subseteq RecordedCalls \cup lost'
      /\ RecordedCalls \cup lost' \subseteq Calls /\ RecordedCalls \cup lost \subseteq Calls
  BY DEF RecordedCalls
<1>4. AmountUnder(req, k, RecordedCalls \cup lost) <= AmountUnder(req, k, RecordedCalls \cup lost')
  BY <1>1, <1>3, AmountMonotone
<1>5. /\ AmountUnder(req, k, RecordedCalls \cup lost) \in Nat
      /\ AmountUnder(req, k, RecordedCalls \cup lost') \in Nat
  BY <1>1, <1>3, AmountTyped
<1>6. disk[k] \in Nat /\ disk[k] <= AmountUnder(req, k, RecordedCalls \cup lost)
  BY <1>1 DEF DiskBetween
<1>7. QED
  BY <1>4, <1>5, <1>6

(* No step records a call twice or forgets one that it recorded. *)
LEMMA DiskNext == Inv /\ Accounted /\ DiskBetween /\ [Next]_vars => DiskBetween'
<1> SUFFICES ASSUME Inv, Accounted, DiskBetween, [Next]_vars PROVE DiskBetween'
  OBVIOUS
<1>1. /\ pc \in [Calls -> InFlight \cup {"idle", "blocked", "unsigned", "recorded", "unrecorded", "held", "dead"}]
      /\ signed \subseteq Calls /\ lost \subseteq signed /\ TypeOK
  BY DEF Inv, TypeOK
<1>2. ASSUME NEW c \in Calls, CheckAndReserve(c) \/ EndUnsigned(c) \/ Pay(c) PROVE DiskBetween'
  <2>1. RecordedCalls' = RecordedCalls /\ req' = req /\ disk' = disk /\ lost' = lost
    BY <1>1, <1>2 DEF RecordedCalls, CheckAndReserve, EndUnsigned, Pay, Goes, InFlight
  <2>2. QED
    BY <1>1, <2>1, UntouchedDisk
<1>3. ASSUME NEW c \in Calls, PayEnds(c) PROVE DiskBetween'
  <2>1. /\ RecordedCalls' = RecordedCalls \cup {c} /\ req' = req /\ lost' = lost /\ pc[c] = "paying"
        /\ disk' = Credited(disk, c, AllKeys(c))
    BY <1>1, <1>3 DEF RecordedCalls, PayEnds, Goes
  <2>2. AllKeys(c) \in 0 .. AllKeys(c)
    BY <1>1, RequestTyped DEF AllKeys
  <2>3. QED
    BY <1>1, <2>1, <2>2, CreditKeepsBetween
<1>4. ASSUME NEW c \in Calls, NEW n \in 0 .. AllKeys(c),
             RecordFails(c, n) \/ RecordFailsInFinally(c, n)
      PROVE  DiskBetween'
  <2>1. /\ RecordedCalls' = RecordedCalls /\ req' = req /\ lost' = lost \cup {c} /\ pc[c] = "paying"
        /\ disk' = Credited(disk, c, n)
    BY <1>1, <1>4 DEF RecordedCalls, RecordFails, RecordFailsInFinally, AppendThrows, Goes
  <2>2. QED
    BY <1>1, <2>1, CreditKeepsBetween
<1>5. ASSUME Dies
      PROVE  /\ RecordedCalls' = RecordedCalls /\ req' = req
             /\ lost' = lost \cup {c \in Calls : pc[c] = "paying"}
  BY <1>1, <1>5 DEF RecordedCalls, Dies, InFlight
<1>6. ASSUME NEW c \in Calls, NEW n \in 1 .. AllKeys(c), DiesRecording(c, n) PROVE DiskBetween'
  <2>1. n \in 0 .. AllKeys(c) /\ pc[c] = "paying" /\ disk' = Credited(disk, c, n) /\ Dies
    BY <1>1, <1>6, RequestTyped DEF DiesRecording, AllKeys
  <2>2. QED
    BY <1>1, <1>5, <2>1, CreditKeepsBetween
<1>7. CASE Crash
  BY <1>1, <1>5, <1>7, UntouchedDisk DEF Crash
<1>8. CASE Restart
  <2>1. RecordedCalls' = RecordedCalls
    BY <1>8 DEF Restart, RecordedCalls
  <2>2. QED
    BY <1>1, <1>8, <2>1, UntouchedDisk DEF Restart
<1>9. CASE UNCHANGED vars
  <2>1. RecordedCalls' = RecordedCalls
    BY <1>9 DEF vars, RecordedCalls
  <2>2. QED
    BY <1>1, <1>9, <2>1, UntouchedDisk DEF vars
<1>10. QED
  BY <1>2, <1>3, <1>4, <1>6, <1>7, <1>8, <1>9 DEF Next, Ends

-----------------------------------------------------------------------------
(* The cumulative cap.                                                     *)

\* The capped calls that hold part of a cap: under way, or recorded.
Holding == Capped({c \in Calls : pc[c] \in {"checking", "paying", "recorded"}})

UpTo(rank, c) == {d \in Holding : rank[d] <= rank[c]}

(* A rank orders the holders by their checks: each of them, together with those
   that checked before it, is within the cap it was made with. *)
RankedBy(rank, N) ==
  \A c \in Holding :
    /\ rank[c] < N
    /\ \A k \in KeysIn(req, c) : AmountUnder(req, k, UpTo(rank, c)) <= req[c].max

(* CapHolds alone is not inductive: when the call whose cap covers the others
   ends unsigned, another one has to cover what is left.  The one that checked
   last among them does, so some order of the checks is kept. *)
Ranked == \E rank \in [Calls -> Nat], N \in Nat : RankedBy(rank, N)

(* An order of the holders after a step, in terms of the requests. *)
LEMMA RankedForm ==
  ASSUME req' = req, NEW rank, NEW N
  PROVE  RankedBy(rank, N)' <=>
           \A d \in Holding' :
             /\ rank[d] < N
             /\ \A k \in KeysIn(req, d) :
                  AmountUnder(req, k, {e \in Holding' : rank[e] <= rank[d]}) <= req[d].max
BY DEF RankedBy, UpTo, AmountUnder, MicroIn, Under, KeysIn

(* Every key of a call is a key of the ledger. *)
LEMMA KeysAreKeys ==
  ASSUME TypeOK, NEW c \in Calls
  PROVE  KeysIn(req, c) \subseteq Keys /\ KeysOf(c) = KeysIn(req, c)
<1>1. req[c].keys \in Seq(Keys)
  BY RequestTyped
<1>2. QED
  BY <1>1 DEF KeysIn, KeysOf

(* The check of one more capped call: what it counts covers every holder, so
   the call goes last in the order. *)
LEMMA CheckRanked ==
  ASSUME Inv, PendingByRequests, DiskBetween, Ranked, NEW c \in Calls, CheckAndReserve(c),
         WithinCap(c), IsCapped(c)
  PROVE  Ranked'
<1>1. /\ TypeOK /\ pc[c] = "idle" /\ req' = req /\ status = "up" /\ spent = disk
      /\ req \in [Calls -> Requests]
  BY DEF Inv, CheckAndReserve, MemoryIsDisk, TypeOK
<1>2. PICK rank \in [Calls -> Nat], N \in Nat : RankedBy(rank, N)
  BY DEF Ranked
<1> DEFINE next == [rank EXCEPT ![c] = N]
<1>3. next \in [Calls -> Nat] /\ N + 1 \in Nat
  OBVIOUS
<1>4. Holding' = Holding \cup {c} /\ c \notin Holding /\ Holding \subseteq Calls
  BY <1>1 DEF CheckAndReserve, Goes, Holding, Capped, IsCapped, TypeOK
<1>5. SUFFICES ASSUME NEW d \in Holding \cup {c}
               PROVE  /\ next[d] < N + 1
                      /\ \A k \in KeysIn(req, d) :
                           AmountUnder(req, k, {e \in Holding \cup {c} : next[e] <= next[d]}) <= req[d].max
  <2>1. RankedBy(next, N + 1)'
    <3> HIDE DEF next
    <3>1. QED
      BY <1>1, <1>4, <1>5, RankedForm
  <2>2. QED
    BY <1>3, <2>1 DEF Ranked
<1>6. CASE d # c
  <2>1. d \in Holding /\ next[d] = rank[d] /\ rank[d] < N /\ rank[d] \in Nat
    BY <1>2, <1>4, <1>6 DEF RankedBy
  <2>2. {e \in Holding \cup {c} : next[e] <= next[d]} = UpTo(rank, d)
    BY <1>4, <2>1 DEF UpTo
  <2>3. \A k \in KeysIn(req, d) : AmountUnder(req, k, UpTo(rank, d)) <= req[d].max
    BY <1>2, <2>1 DEF RankedBy
  <2>4. next[d] < N + 1
    BY <2>1
  <2> HIDE DEF next
  <2>5. QED
    BY <2>2, <2>3, <2>4
<1>7. CASE d = c
  <2>1. next[c] = N
    OBVIOUS
  <2>2. ASSUME NEW k \in KeysIn(req, c)
        PROVE  AmountUnder(req, k, {e \in Holding \cup {c} : next[e] <= next[c]}) <= req[c].max
    <3> DEFINE chosen == {e \in Holding \cup {c} : next[e] <= next[c]}
    <3>1. k \in Keys /\ k \in KeysOf(c)
      BY <1>1, <2>2, KeysAreKeys
    <3>2. spent[k] + pending[k] + req[c].micro <= req[c].max
      BY <3>1 DEF WithinCap
    <3>3. /\ pending[k] = AmountUnder(req, k, Reserving)
          /\ AmountUnder(req, k, RecordedCalls) <= spent[k]
      BY <1>1, <3>1 DEF PendingByRequests, DiskBetween
    <3>4. /\ chosen \subseteq (Reserving \cup RecordedCalls) \cup {c}
          /\ Reserving \cap RecordedCalls = {} /\ c \notin Reserving \cup RecordedCalls
          /\ Reserving \subseteq Calls /\ RecordedCalls \subseteq Calls
      BY <1>1 DEF Holding, Capped, Reserving, RecordedCalls, InFlight, Reserved
    <3>5. AmountUnder(req, k, Reserving \cup RecordedCalls)
            = AmountUnder(req, k, Reserving) + AmountUnder(req, k, RecordedCalls)
      BY <1>1, <3>4, AmountDisjoint
    <3>6. AmountUnder(req, k, (Reserving \cup RecordedCalls) \cup {c})
            = AmountUnder(req, k, Reserving \cup RecordedCalls) + req[c].micro
      <4> DEFINE both == Reserving \cup RecordedCalls
      <4>1. both \subseteq Calls /\ c \notin both
        BY <3>4
      <4>2. Adds(req, k, c) = req[c].micro
        BY <2>2 DEF Adds
      <4> HIDE DEF both, chosen
      <4>3. AmountUnder(req, k, both \cup {c}) = AmountUnder(req, k, both) + Adds(req, k, c)
        BY <1>1, <4>1, AmountAdd
      <4>4. QED
        BY <4>2, <4>3 DEF both
    <3>7. AmountUnder(req, k, chosen) <= AmountUnder(req, k, (Reserving \cup RecordedCalls) \cup {c})
      <4>1. (Reserving \cup RecordedCalls) \cup {c} \subseteq Calls
        BY <3>4
      <4>2. QED
        BY <1>1, <3>4, <4>1, AmountMonotone
    <3>8. /\ AmountUnder(req, k, Reserving) \in Nat /\ AmountUnder(req, k, RecordedCalls) \in Nat
          /\ AmountUnder(req, k, chosen) \in Nat
          /\ spent[k] \in Nat /\ pending[k] \in Nat /\ req[c].micro \in Nat /\ req[c].max \in Nat
      <4>1. chosen \subseteq Calls
        BY <1>4
      <4>2. spent[k] \in Nat /\ pending[k] \in Nat
        BY <1>1, <3>1 DEF TypeOK
      <4>3. req[c].micro \in Nat /\ req[c].max \in Nat
        BY <1>1, RequestsAssumption DEF IsCapped
      <4>4. QED
        BY <1>1, <3>4, <4>1, <4>2, <4>3, AmountTyped
    <3> HIDE DEF chosen
    <3>9. AmountUnder(req, k, chosen) <= req[c].max
      BY <3>2, <3>3, <3>5, <3>6, <3>7, <3>8
    <3>10. QED
      BY <3>9 DEF chosen
  <2>3. QED
    BY <1>7, <2>1, <2>2
<1>8. QED
  BY <1>6, <1>7

(* With fewer holders the same order does. *)
LEMMA FewerRanked ==
  ASSUME TypeOK, Ranked, req' = req, Holding' \subseteq Holding
  PROVE  Ranked'
<1>1. req \in [Calls -> Requests] /\ Holding \subseteq Calls
  BY DEF TypeOK, Holding, Capped
<1>2. PICK rank \in [Calls -> Nat], N \in Nat : RankedBy(rank, N)
  BY DEF Ranked
<1>3. ASSUME NEW c \in Holding', NEW k \in KeysIn(req, c)
      PROVE  AmountUnder(req, k, {d \in Holding' : rank[d] <= rank[c]}) <= req[c].max
  <2>1. AmountUnder(req, k, {d \in Holding' : rank[d] <= rank[c]}) <= AmountUnder(req, k, UpTo(rank, c))
    <3>1. {d \in Holding' : rank[d] <= rank[c]} \subseteq UpTo(rank, c) /\ UpTo(rank, c) \subseteq Calls
      BY <1>1 DEF UpTo
    <3>2. QED
      BY <1>1, <3>1, AmountMonotone
  <2>2. AmountUnder(req, k, UpTo(rank, c)) <= req[c].max
    BY <1>2, <1>3 DEF RankedBy
  <2>3. /\ AmountUnder(req, k, {d \in Holding' : rank[d] <= rank[c]}) \in Nat
        /\ AmountUnder(req, k, UpTo(rank, c)) \in Nat /\ req[c].max \in Nat
    <3>1. {d \in Holding' : rank[d] <= rank[c]} \subseteq Calls /\ UpTo(rank, c) \subseteq Calls
      BY <1>1 DEF UpTo
    <3>2. c \in Calls /\ req[c].max # Uncapped
      BY DEF Holding, Capped, IsCapped
    <3>3. req[c].max \in Nat
      BY <1>1, <3>2, RequestsAssumption
    <3>4. QED
      BY <1>1, <3>1, <3>3, AmountTyped
  <2>4. QED
    BY <2>1, <2>2, <2>3
<1>4. RankedBy(rank, N)'
  <2>1. \A c \in Holding' : rank[c] < N
    BY <1>2 DEF RankedBy
  <2>2. QED
    BY <1>3, <2>1, RankedForm
<1>5. QED
  BY <1>4 DEF Ranked

(* No step takes the holders out of every order. *)
LEMMA RankedNext ==
  Inv /\ PendingIsReserved /\ DiskBetween /\ Ranked /\ [Next]_vars => Ranked'
<1> SUFFICES ASSUME Inv, PendingIsReserved, DiskBetween, Ranked, [Next]_vars PROVE Ranked'
  OBVIOUS
<1>1. /\ pc \in [Calls -> InFlight \cup {"idle", "blocked", "unsigned", "recorded", "unrecorded", "held", "dead"}]
      /\ TypeOK /\ PendingByRequests
  BY PendingForm DEF Inv, TypeOK
<1>2. ASSUME NEW c \in Calls, CheckAndReserve(c) PROVE Ranked'
  <2>1. CASE WithinCap(c) /\ IsCapped(c)
    BY <1>1, <1>2, <2>1, CheckRanked
  <2>2. CASE ~(WithinCap(c) /\ IsCapped(c))
    <3>1. Holding' = Holding /\ req' = req
      BY <1>1, <1>2, <2>2 DEF CheckAndReserve, Goes, Holding, Capped, IsCapped
    <3>2. QED
      BY <1>1, <3>1, FewerRanked
  <2>3. QED
    BY <2>1, <2>2
<1>3. ASSUME NEW c \in Calls, Pay(c) \/ Ends(c) PROVE Ranked'
  <2>1. Holding' \subseteq Holding /\ req' = req
    BY <1>1, <1>3 DEF Pay, Ends, EndUnsigned, PayEnds, RecordFails, RecordFailsInFinally,
                      AppendThrows, Goes, Holding, Capped, IsCapped, InFlight
  <2>2. QED
    BY <1>1, <2>1, FewerRanked
<1>4. ASSUME Dies PROVE Ranked'
  <2>1. Holding' \subseteq Holding /\ req' = req
    BY <1>1, <1>4 DEF Dies, Holding, Capped, IsCapped, InFlight
  <2>2. QED
    BY <1>1, <2>1, FewerRanked
<1>5. ASSUME UNCHANGED <<req, pc>> PROVE Ranked'
  <2>1. Holding' = Holding
    BY <1>5 DEF Holding, Capped, IsCapped
  <2>2. QED
    BY <1>1, <1>5, <2>1, FewerRanked
<1>6. QED
  BY <1>2, <1>3, <1>4, <1>5 DEF Next, Crash, DiesRecording, Restart, vars

-----------------------------------------------------------------------------
(* All of it together. *)
SpendInv == Inv /\ PendingIsReserved /\ Accounted /\ DiskBetween /\ Ranked

(* Nothing is spent, reserved or recorded at first. *)
LEMMA SpendInit == Init => SpendInv
<1> SUFFICES ASSUME Init PROVE SpendInv
  OBVIOUS
<1>1. /\ Reserving = {} /\ RecordedCalls = {} /\ Holding = {} /\ lost = {} /\ signed = {}
      /\ \A k \in Keys : pending[k] = 0 /\ disk[k] = 0
  BY DEF Init, Reserving, Capped, RecordedCalls, Holding, InFlight, Reserved
<1>2. PendingIsReserved
  BY <1>1, PendingForm, AmountOfNone DEF PendingByRequests
<1>3. DiskBetween
  <2>1. RecordedCalls \cup lost = {}
    BY <1>1
  <2>2. QED
    BY <1>1, <2>1, AmountOfNone DEF DiskBetween
<1>4. Ranked
  <2>1. [c \in Calls |-> 0] \in [Calls -> Nat] /\ RankedBy([c \in Calls |-> 0], 0)
    BY <1>1 DEF RankedBy
  <2>2. QED
    BY <2>1 DEF Ranked
<1>5. QED
  BY <1>1, <1>2, <1>3, <1>4, InitInv DEF SpendInv, Accounted

(* Every step keeps the invariant. *)
LEMMA SpendInvariance == Spec => []SpendInv
<1>1. SpendInv /\ [Next]_vars => SpendInv'
  BY NextInv, PendingNext, AccountedNext, DiskNext, RankedNext DEF SpendInv
<1>2. QED
  BY <1>1, SpendInit, PTL DEF Spec

(* What the calls of S hold is within a cap one of them was made with, when S
   is a set of holders: the one that checked last among them. *)
LEMMA LastCovers ==
  ASSUME SpendInv, NEW S, S \subseteq Holding
  PROVE  CapKept(S)
<1>1. TypeOK /\ req \in [Calls -> Requests] /\ Holding \subseteq Calls
  BY DEF SpendInv, Inv, TypeOK, Holding, Capped
<1>2. PICK rank \in [Calls -> Nat], N \in Nat : RankedBy(rank, N)
  BY DEF SpendInv, Ranked
<1> SUFFICES ASSUME NEW k \in Keys, NEW b \in {c \in S : k \in KeysOf(c)}
             PROVE  \E c \in {c \in S : k \in KeysOf(c)} :
                      TotalUnder(k, {d \in S : k \in KeysOf(d)}) <= req[c].max
  BY DEF CapKept
<1> DEFINE payers == {c \in S : k \in KeysOf(c)}
           gaps == {n \in Nat : \E c \in payers : n = N - rank[c]}
<1>3. ASSUME NEW c \in payers PROVE rank[c] \in Nat /\ rank[c] < N /\ N - rank[c] \in gaps
  BY <1>1, <1>2 DEF RankedBy
<1>4. gaps \subseteq Nat /\ gaps # {}
  BY <1>3
<1>5. PICK n \in gaps : \A m \in gaps : n <= m
  BY <1>4, LeastCounterexample
<1>6. PICK c \in payers : n = N - rank[c]
  BY <1>5
<1>7. ASSUME NEW d \in payers PROVE rank[d] <= rank[c]
  <2>1. rank[d] \in Nat /\ rank[c] \in Nat /\ N - rank[c] <= N - rank[d]
    BY <1>3, <1>5, <1>6
  <2>2. QED
    BY <2>1
<1>8. payers \subseteq UpTo(rank, c) /\ UpTo(rank, c) \subseteq Calls
  BY <1>1, <1>7 DEF UpTo
<1>9. k \in KeysIn(req, c) /\ c \in Holding
  BY <1>1, <1>6, KeysAreKeys
<1>10. AmountUnder(req, k, UpTo(rank, c)) <= req[c].max
  BY <1>2, <1>9 DEF RankedBy
<1>11. AmountUnder(req, k, payers) <= AmountUnder(req, k, UpTo(rank, c))
  BY <1>1, <1>8, AmountMonotone
<1>12. /\ AmountUnder(req, k, payers) \in Nat /\ AmountUnder(req, k, UpTo(rank, c)) \in Nat
       /\ req[c].max \in Nat
  <2>1. payers \subseteq Calls
    BY <1>8
  <2>2. req[c].max \in Nat
    BY <1>1, <1>9, RequestsAssumption DEF Holding, Capped, IsCapped
  <2>3. QED
    BY <1>1, <1>8, <2>1, <2>2, AmountTyped
<1>13. AmountUnder(req, k, payers) <= req[c].max
  BY <1>10, <1>11, <1>12
<1>14. QED
  BY <1>6, <1>13, TotalUnderIs

-----------------------------------------------------------------------------
(* pendingByLedger: under every key the reservations are exactly what two kinds
   of capped call hold, in whatever order calls block, throw, pay, record and
   die: those between their check and the end of their payment, and those whose
   payer threw and whose recording then threw before the release.  The release
   of a call therefore never has to stop at zero, nor takes what another one
   holds. *)
THEOREM ReservationsAccounted == Spec => []PendingIsReserved
<1>1. SpendInv => PendingIsReserved
  BY DEF SpendInv
<1>2. QED
  BY <1>1, SpendInvariance, PTL

(* recordSpend: under every key the file carries each recorded call once, and
   no more than that and the calls whose recording was cut short, whatever
   appends fail and wherever the process dies; and memory agrees with the file
   whenever a process is up. *)
THEOREM SpendRecordedOnce == Spec => []RecordedOnce
<1>1. SpendInv => RecordedOnce
  BY DiskForm DEF SpendInv, Inv
<1>2. QED
  BY <1>1, SpendInvariance, PTL

(* checkCumulativeCap: the capped calls that signed and were recorded in full,
   under any key, stay together within the cap of one of them, whatever else
   was checked, refused, thrown and restarted in between. *)
THEOREM CumulativeCapHolds == Spec => []CapHolds
<1>1. ASSUME SpendInv PROVE CapHolds
  <2>1. Capped(signed) \ lost \subseteq Holding
    BY <1>1 DEF SpendInv, Inv, TypeOK, Accounted, Capped, Holding
  <2>2. QED
    BY <1>1, <2>1, LastCovers DEF CapHolds
<1>2. QED
  BY <1>1, SpendInvariance, PTL
=============================================================================
