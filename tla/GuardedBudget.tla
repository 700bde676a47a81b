--------------------------- MODULE GuardedBudget ---------------------------
(***************************************************************************)
(* The rolling budget of guarded-x402-fetch.ts: the pre-sign hook of       *)
(* concurrent calls prunes the entries that left the window, checks the    *)
(* cap, reserves in the same tick, awaits the TWZRD evaluation, and pushes *)
(* its entry when it passes.  The budget lives in memory only, for the     *)
(* lifetime of the returned fetch, so the process does not restart here.   *)
(***************************************************************************)
EXTENDS Integers, FiniteSetsExt

CONSTANTS
  Calls,      \* calls of the returned fetch that reach the budget check
  Micro,      \* what the 402 of each call asks for
  Cap,        \* hourlyBudgetCap
  Hour,       \* HOUR_MS in clock ticks
  MaxClock    \* bound: the last clock reading

ASSUME CallsAssumption == IsFiniteSet(Calls)
ASSUME MicroAssumption == Micro \in [Calls -> Nat]
ASSUME BudgetAssumption == Cap \in Nat /\ Hour \in Nat /\ MaxClock \in Nat

VARIABLES
  pc,            \* where each call's hook is
  recordedAt,    \* the clock reading the hook took before its check, or Never
  entries,       \* the calls that have an entry: its stamp is their recordedAt
  pendingMicro,  \* the reserved amount
  passedAt,      \* history: when the hook let the signer run, or Never
  now

vars == <<pc, recordedAt, entries, pendingMicro, passedAt, now>>

Never == -1

TotalOf(S) == SumFunctionOnSet(Micro, S)

Goes(c, to) == pc' = [pc EXCEPT ![c] = to]

\* The entries that are still in the window.
Kept(t) == {c \in entries : recordedAt[c] > t - Hour}

\* Slip: calls under evaluation are not counted.
WithinCapOfEntries(c, kept) == TotalOf(kept) + Micro[c] <= Cap

WithinCap(c, kept) == TotalOf(kept) + pendingMicro + Micro[c] <= Cap

CheckAndReserve(c) ==
  /\ pc[c] = "idle"
  /\ recordedAt' = [recordedAt EXCEPT ![c] = now]
  /\ entries' = Kept(now)
  /\ IF WithinCap(c, Kept(now))
       THEN /\ pendingMicro' = pendingMicro + Micro[c]
            /\ Goes(c, "evaluating")
       ELSE /\ Goes(c, "aborted")
            /\ UNCHANGED pendingMicro
  /\ UNCHANGED <<passedAt, now>>

\* Slip: an aborted evaluation keeps its reservation.
HookAbortsLeaking(c) ==
  /\ pc[c] = "evaluating"
  /\ Goes(c, "aborted")
  /\ UNCHANGED <<recordedAt, entries, pendingMicro, passedAt, now>>

\* The evaluation aborts or throws.
HookAborts(c) ==
  /\ pc[c] = "evaluating"
  /\ pendingMicro' = pendingMicro - Micro[c]
  /\ Goes(c, "aborted")
  /\ UNCHANGED <<recordedAt, entries, passedAt, now>>

\* Slip: a passing hook releases once itself and once in the finally block.
HookPassesReleasingTwice(c) ==
  /\ pc[c] = "evaluating"
  /\ entries' = entries \cup {c}
  /\ pendingMicro' = pendingMicro - Micro[c] - Micro[c]
  /\ passedAt' = [passedAt EXCEPT ![c] = now]
  /\ Goes(c, "passed")
  /\ UNCHANGED <<recordedAt, now>>

\* It passes: the entry carries the reading taken before the evaluation.
HookPasses(c) ==
  /\ pc[c] = "evaluating"
  /\ entries' = entries \cup {c}
  /\ pendingMicro' = pendingMicro - Micro[c]
  /\ passedAt' = [passedAt EXCEPT ![c] = now]
  /\ Goes(c, "passed")
  /\ UNCHANGED <<recordedAt, now>>

Tick ==
  /\ now < MaxClock
  /\ now' = now + 1
  /\ UNCHANGED <<pc, recordedAt, entries, pendingMicro, passedAt>>

Init ==
  /\ pc = [c \in Calls |-> "idle"]
  /\ recordedAt = [c \in Calls |-> Never]
  /\ entries = {}
  /\ pendingMicro = 0
  /\ passedAt = [c \in Calls |-> Never]
  /\ now = 0

Next ==
  \/ \E c \in Calls : CheckAndReserve(c) \/ HookAborts(c) \/ HookPasses(c)
  \/ Tick

Spec == Init /\ [][Next]_vars
-----------------------------------------------------------------------------
Clock == 0 .. MaxClock

\* Entries are recorded calls; a call that passed long ago may be pruned.
TypeOK ==
  /\ pc \in [Calls -> {"idle", "evaluating", "aborted", "passed"}]
  /\ recordedAt \in [Calls -> Clock \cup {Never}]
  /\ entries \subseteq {c \in Calls : pc[c] = "passed"}
  /\ pendingMicro \in Nat
  /\ passedAt \in [Calls -> Clock \cup {Never}]
  /\ now \in Clock

Window(t) == (t - Hour + 1) .. t

(* Counted at the moment of its check, no call takes any hour over the cap:
   neither concurrent checks nor pruning in between lets two calls share the
   same part of the budget.  Nor does a reservation leak: what is pending is
   what the hooks under evaluation hold, so a refused call never narrows the
   budget of the next. *)
CheckedWithinCap ==
  /\ \A t \in Clock :
       TotalOf({c \in Calls : pc[c] = "passed" /\ recordedAt[c] \in Window(t)}) <= Cap
  /\ pendingMicro = TotalOf({c \in Calls : pc[c] = "evaluating"})

(* guarded-x402-fetch.ts says of hourlyBudgetCap: "Maximum spend in a rolling
   60-minute window".  Counted at the moment the signer is let run. *)
RollingCap ==
  \A t \in Clock :
    TotalOf({c \in Calls : passedAt[c] # Never /\ passedAt[c] \in Window(t)}) <= Cap
=============================================================================
