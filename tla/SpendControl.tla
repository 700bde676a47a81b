---------------------------- MODULE SpendControl ----------------------------
(***************************************************************************)
(* spend-control.ts over spend-ledger-file.ts: concurrent calls of         *)
(* spendControlSafeFetch in one process, each checking the cumulative cap  *)
(* on the keys it spends under (agent, merchant, mandate), reserving its   *)
(* amount in the same tick, awaiting its checks, paying, and recording the *)
(* spend in the shared ledger.  The process may die at any await and in    *)
(* the middle of the recording; an append may fail.                        *)
(*                                                                         *)
(* The 365-day window of the check is longer than any behaviour here, so a *)
(* recorded spend stays counted.                                           *)
(***************************************************************************)
EXTENDS Integers, Sequences, FiniteSetsExt

CONSTANTS
  Calls,            \* calls of spendControlSafeFetch
  Keys,             \* scope keys of the ledger
  Requests,         \* what a call is made with: keys, amount, maxSpend
  Uncapped,         \* the maxSpend of a call that names none
  AppendsMayFail    \* may appending a ledger row fail?

ASSUME CallsAssumption == IsFiniteSet(Calls)
ASSUME UncappedAssumption == Uncapped \notin Nat
ASSUME RequestsAssumption ==
  \A r \in Requests : /\ r.keys \in Seq(Keys)
                      /\ r.micro \in Nat
                      /\ r.max \in Nat \cup {Uncapped}
ASSUME AppendsAssumption == AppendsMayFail \in BOOLEAN

VARIABLES
  req,       \* the request of each call, fixed by its 402
  pc,        \* where each call is
  pending,   \* memory: reserved micro-USD under each key (pendingByLedger)
  spent,     \* memory: recorded micro-USD under each key (spentMicro)
  disk,      \* the micro-USD the file's rows carry under each key
  intact,    \* does every line of the file still parse and chain?
  status,    \* "up", "down", or "failed": the file could not be opened
  signed,    \* history: the calls whose payer was invoked
  lost       \* history: signed calls whose recording did not complete

vars == <<req, pc, pending, spent, disk, intact, status, signed, lost>>

IsCapped(c) == req[c].max # Uncapped

KeysOf(c) == {req[c].keys[n] : n \in DOMAIN req[c].keys}

\* f with c's amount added under the first n of its keys.
Credited(f, c, n) ==
  [k \in Keys |->
     f[k] + IF \E j \in 1 .. n : req[c].keys[j] = k THEN req[c].micro ELSE 0]

AllKeys(c) == Len(req[c].keys)

\* Slip: a release that does not ask whether anything was reserved.
ReleasedUnasked(c) ==
  [k \in Keys |-> IF k \in KeysOf(c) THEN pending[k] - req[c].micro ELSE pending[k]]

\* The release of a reservation; without one it does nothing.
Released(c) ==
  IF IsCapped(c)
    THEN [k \in Keys |->
            IF k \in KeysOf(c) /\ pending[k] > req[c].micro THEN pending[k] - req[c].micro
            ELSE IF k \in KeysOf(c) THEN 0
            ELSE pending[k]]
    ELSE pending

Goes(c, to) == pc' = [pc EXCEPT ![c] = to]

-----------------------------------------------------------------------------
\* Slip: the check sees what is recorded, not what is in flight.
WithinCapIgnoringPending(c) ==
  IsCapped(c) =>
    /\ req[c].micro <= req[c].max
    /\ \A k \in KeysOf(c) : spent[k] + req[c].micro <= req[c].max

\* The call alone is within its cap, and so is it on every key with what is
\* recorded and reserved there.
WithinCap(c) ==
  IsCapped(c) =>
    /\ req[c].micro <= req[c].max
    /\ \A k \in KeysOf(c) : spent[k] + pending[k] + req[c].micro <= req[c].max

(* The check and the reservation are one tick. *)
CheckAndReserve(c) ==
  /\ status = "up"
  /\ pc[c] = "idle"
  /\ IF WithinCap(c)
       THEN /\ pending' = IF IsCapped(c) THEN Credited(pending, c, AllKeys(c)) ELSE pending
            /\ Goes(c, "checking")
       ELSE /\ Goes(c, "blocked")
            /\ UNCHANGED pending
  /\ UNCHANGED <<req, spent, disk, intact, status, signed, lost>>

\* Slip: a refused call keeps its reservation.
EndUnsignedLeaking(c) ==
  /\ pc[c] = "checking"
  /\ Goes(c, "unsigned")
  /\ UNCHANGED <<req, pending, spent, disk, intact, status, signed, lost>>

(* Everything between the reservation and pay() that ends the call unsigned:
   the preflight blocks or throws, the decision is not bound, the composed
   transaction is missing or does not match, or no payer is configured. *)
EndUnsigned(c) ==
  /\ pc[c] = "checking"
  /\ pending' = Released(c)
  /\ Goes(c, "unsigned")
  /\ UNCHANGED <<req, spent, disk, intact, status, signed, lost>>

\* signed = true; pay(...)
Pay(c) ==
  /\ pc[c] = "checking"
  /\ signed' = signed \cup {c}
  /\ Goes(c, "paying")
  /\ UNCHANGED <<req, pending, spent, disk, intact, status, lost>>

\* Slip: the finally block records a second time.
PayEndsTwice(c) ==
  /\ pc[c] = "paying"
  /\ disk' = [k \in Keys |-> Credited(disk, c, AllKeys(c))[k]
                              + Credited(disk, c, AllKeys(c))[k] - disk[k]]
  /\ spent' = disk'
  /\ pending' = Released(c)
  /\ Goes(c, "recorded")
  /\ UNCHANGED <<req, intact, status, signed, lost>>

(* pay() returns or throws: recordSpend() appends one row per key, then the
   reservation is released.  On the success path the finally block calls
   recordSpend() again, to no effect. *)
PayEnds(c) ==
  /\ pc[c] = "paying"
  /\ disk' = Credited(disk, c, AllKeys(c))
  /\ spent' = Credited(spent, c, AllKeys(c))
  /\ pending' = Released(c)
  /\ Goes(c, "recorded")
  /\ UNCHANGED <<req, intact, status, signed, lost>>

\* recordSpend: appending the row of key n + 1 throws.  A torn line may stay.
AppendThrows(c, n) ==
  /\ AppendsMayFail
  /\ pc[c] = "paying"
  /\ n < AllKeys(c)
  /\ disk' = Credited(disk, c, n)
  /\ spent' = Credited(spent, c, n)
  /\ intact' \in {intact, FALSE}
  /\ lost' = lost \cup {c}
  /\ UNCHANGED <<req, status, signed>>

(* pay() returned and the recording throws: the finally block finds the spend
   marked as recorded and releases the reservation. *)
RecordFails(c, n) ==
  /\ AppendThrows(c, n)
  /\ pending' = Released(c)
  /\ Goes(c, "unrecorded")

(* pay() threw and then the recording throws, inside the finally block: its
   next line, the release, never runs. *)
RecordFailsInFinally(c, n) ==
  /\ AppendThrows(c, n)
  /\ Goes(c, "held")
  /\ UNCHANGED pending

-----------------------------------------------------------------------------
InFlight == {"checking", "paying"}

\* Places of a call whose reservation, if it is capped, still counts.
Reserved == InFlight \cup {"held"}

\* Memory goes, and with it the reservations of calls that ended without a release.
Dies ==
  /\ status' = "down"
  /\ pc' = [c \in Calls |-> CASE pc[c] \in InFlight -> "dead"
                              [] pc[c] = "held" -> "unrecorded"
                              [] OTHER -> pc[c]]
  /\ lost' = lost \cup {c \in Calls : pc[c] = "paying"}
  /\ pending' = [k \in Keys |-> 0]
  /\ spent' = [k \in Keys |-> 0]
  /\ UNCHANGED <<req, intact, signed>>

Crash ==
  /\ status = "up"
  /\ Dies
  /\ UNCHANGED disk

\* The process dies after the rows of c's first n keys.
DiesRecording(c, n) ==
  /\ pc[c] = "paying"
  /\ n \in 1 .. AllKeys(c) - 1
  /\ disk' = Credited(disk, c, n)
  /\ Dies

\* sharedFileSpendLedger: replay the file, or throw on a damaged one.
Restart ==
  /\ status = "down"
  /\ IF intact
       THEN status' = "up" /\ spent' = disk
       ELSE status' = "failed" /\ UNCHANGED spent
  /\ UNCHANGED <<req, pc, pending, disk, intact, signed, lost>>

Init ==
  /\ req \in [Calls -> Requests]
  /\ pc = [c \in Calls |-> "idle"]
  /\ pending = [k \in Keys |-> 0]
  /\ spent = [k \in Keys |-> 0]
  /\ disk = [k \in Keys |-> 0]
  /\ intact = TRUE
  /\ status = "up"
  /\ signed = {}
  /\ lost = {}

Ends(c) ==
  \/ EndUnsigned(c)
  \/ PayEnds(c)
  \/ \E n \in 0 .. AllKeys(c) : RecordFails(c, n) \/ RecordFailsInFinally(c, n)

Next ==
  \/ \E c \in Calls : CheckAndReserve(c) \/ Pay(c) \/ Ends(c)
  \/ \E c \in Calls : \E n \in 1 .. AllKeys(c) : DiesRecording(c, n)
  \/ Crash
  \/ Restart

Spec == Init /\ [][Next]_vars
-----------------------------------------------------------------------------
TypeOK ==
  /\ req \in [Calls -> Requests]
  /\ pc \in [Calls -> InFlight \cup {"idle", "blocked", "unsigned", "recorded",
                                     "unrecorded", "held", "dead"}]
  /\ pending \in [Keys -> Nat]
  /\ spent \in [Keys -> Nat]
  /\ disk \in [Keys -> Nat]
  /\ intact \in BOOLEAN
  /\ status \in {"up", "down", "failed"}
  /\ signed \subseteq Calls
  /\ lost \subseteq signed

\* What the calls in S that spend under k amount to.
TotalUnder(k, S) ==
  SumFunctionOnSet([c \in Calls |-> req[c].micro], {c \in S : k \in KeysOf(c)})

Capped(S) == {c \in S : IsCapped(c)}

(* What is pending under a key is exactly what the capped calls in flight hold
   and what those hold whose payer threw and whose recording threw after it,
   whatever order calls block, pay, throw and release in.  Every other call
   gives its reservation back once; these keep it until the process dies, as
   finally records before it releases. *)
PendingIsReserved ==
  \A k \in Keys :
    pending[k] = TotalUnder(k, Capped({c \in Calls : pc[c] \in Reserved}))

(* Each signed call is in the ledger once, and a restart reads back what
   memory held; only calls whose recording was cut short may be missing. *)
RecordedOnce ==
  /\ status = "up" => spent = disk
  /\ \A k \in Keys :
       /\ TotalUnder(k, {c \in Calls : pc[c] = "recorded"}) <= disk[k]
       /\ disk[k] <= TotalUnder(k, {c \in Calls : pc[c] = "recorded"} \cup lost)

\* What capped calls in S have spent under any key is within a cap one of
\* them was made with.
CapKept(S) ==
  \A k \in Keys :
    LET payers == {c \in S : k \in KeysOf(c)}
    IN  payers # {} => \E c \in payers : TotalUnder(k, payers) <= req[c].max

(* "The cumulative cap": concurrent capped calls in one process never sign
   for more than the cap together, blocked, thrown and restarted calls in
   between, as long as each signed call got its recording done. *)
CapHolds == CapKept(Capped(signed) \ lost)

(* spend-ledger-file.ts: the ledger "replays its file on create so caps
   survive restarts", so that a crashlooping agent is not an "unbounded
   spender". *)
CapSurvivesRestart == CapKept(Capped(signed))
=============================================================================
