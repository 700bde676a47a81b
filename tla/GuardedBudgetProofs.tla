------------------------ MODULE GuardedBudgetProofs ------------------------
(***************************************************************************)
(* What is proved of the rolling budget of guardedX402Fetch, for every     *)
(* number of concurrent calls, every amount, cap and window length.        *)
(***************************************************************************)
EXTENDS GuardedBudget, Inductions

CallsIn(states) == {c \in Calls : pc[c] \in states}

\* The calls that took the cap check at a reading of the window that ends at t.
Counted(t) == {c \in CallsIn({"evaluating", "passed"}) : recordedAt[c] \in Window(t)}

\* pendingMicro is what the hooks under evaluation hold, and nothing else.
PendingIsHeld == pendingMicro = TotalOf(CallsIn({"evaluating"}))

\* A reservation carries the reading of its check.
Stamped ==
  \A c \in CallsIn({"evaluating", "passed"}) : recordedAt[c] \in Clock /\ recordedAt[c] <= now

\* Pruning dropped no entry that is still in the window.
KeepsWindow ==
  \A c \in CallsIn({"passed"}) : recordedAt[c] > now - Hour => c \in entries

\* The calls that hold budget of one hour, evaluating or passed.
CountedWithinCap == \A t \in Clock : TotalOf(Counted(t)) <= Cap

(* CheckedWithinCap speaks of the calls that passed.  It is not inductive: a
   hook passes without another look at the cap.  What carries it is that the
   calls still evaluating are counted in the same hour from their check on. *)
Inv ==
  /\ TypeOK
  /\ PendingIsHeld
  /\ Stamped
  /\ KeepsWindow
  /\ CountedWithinCap

-----------------------------------------------------------------------------
(* Sets of calls are finite and their totals natural. *)
LEMMA TotalTyped ==
  ASSUME NEW S, S \subseteq Calls
  PROVE  IsFiniteSet(S) /\ TotalOf(S) \in Nat
<1>1. IsFiniteSet(S)
  BY CallsAssumption, FS_Subset
<1>2. \A c \in S : Micro[c] \in Nat
  BY MicroAssumption
<1>3. QED
  BY <1>1, <1>2, SumTyped DEF TotalOf

(* One more call, one call fewer, and a part of a set of calls. *)
LEMMA TotalAdd ==
  ASSUME NEW S, S \subseteq Calls, NEW c \in Calls, c \notin S
  PROVE  TotalOf(S \cup {c}) = TotalOf(S) + Micro[c]
<1>1. TotalOf(S) \in Nat /\ IsFiniteSet(S)
  BY TotalTyped
<1>2. Micro[c] \in Nat /\ \A d \in S : Micro[d] \in Nat
  BY MicroAssumption
<1>3. TotalOf(S \cup {c}) = Micro[c] + TotalOf(S)
  BY <1>1, <1>2, SumAdd DEF TotalOf
<1>4. QED
  BY <1>1, <1>2, <1>3

(* More calls sum to no less. *)
LEMMA TotalMonotone ==
  ASSUME NEW S, NEW T, S \subseteq T, T \subseteq Calls
  PROVE  TotalOf(S) <= TotalOf(T)
<1>1. IsFiniteSet(T) /\ \A c \in T : Micro[c] \in Nat
  BY TotalTyped, MicroAssumption
<1>2. QED
  BY <1>1, SumMonotone DEF TotalOf

(* The sums of disjoint sets of calls add up. *)
LEMMA TotalDisjoint ==
  ASSUME NEW S, NEW T, S \subseteq Calls, T \subseteq Calls, S \cap T = {}
  PROVE  TotalOf(S \cup T) = TotalOf(S) + TotalOf(T)
<1>1. IsFiniteSet(S) /\ IsFiniteSet(T) /\ \A c \in S \cup T : Micro[c] \in Nat
  BY TotalTyped, MicroAssumption
<1>2. QED
  BY <1>1, SumDisjoint DEF TotalOf

-----------------------------------------------------------------------------
(* A fresh budget. *)
LEMMA InitInv == Init => Inv
<1> SUFFICES ASSUME Init PROVE Inv
  OBVIOUS
<1>1. TypeOK
  BY BudgetAssumption DEF Init, TypeOK, Clock
<1>2. CallsIn({"evaluating", "passed"}) = {} /\ CallsIn({"evaluating"}) = {} /\ CallsIn({"passed"}) = {}
  BY DEF Init, CallsIn
<1>3. TotalOf({}) = 0
  BY SumEmpty DEF TotalOf
<1>4. \A t \in Clock : Counted(t) = {}
  BY <1>2 DEF Counted
<1>5. QED
  BY <1>1, <1>2, <1>3, <1>4, BudgetAssumption
     DEF Inv, PendingIsHeld, Stamped, KeepsWindow, CountedWithinCap, Init

-----------------------------------------------------------------------------
(* Who is counted in which hour after a call has moved to another state. *)
LEMMA MoveCounts ==
  ASSUME TypeOK, NEW c \in Calls, NEW to, Goes(c, to), NEW states
  PROVE  CallsIn(states)' = IF to \in states THEN CallsIn(states) \cup {c} ELSE CallsIn(states) \ {c}
BY DEF Goes, CallsIn, TypeOK

(* The check prunes, and reserves only what the hour still holds: the calls of
   any hour that the reading falls into are entries that were kept, calls under
   evaluation, or this one. *)
LEMMA CheckInv ==
  ASSUME Inv, NEW c \in Calls, CheckAndReserve(c)
  PROVE  Inv'
<1> USE DEF CheckAndReserve
<1> DEFINE kept == Kept(now)
           held == CallsIn({"evaluating"})
<1>1. TypeOK /\ pc[c] = "idle" /\ now \in Clock /\ Clock \subseteq Nat /\ Hour \in Nat /\ Cap \in Nat
      /\ Micro[c] \in Nat /\ pendingMicro \in Nat /\ pendingMicro = TotalOf(held)
  <2>1. TypeOK /\ pendingMicro = TotalOf(held)
    BY DEF Inv, PendingIsHeld
  <2>2. Clock \subseteq Nat
    BY BudgetAssumption DEF Clock
  <2>3. QED
    BY <2>1, <2>2, BudgetAssumption, MicroAssumption DEF TypeOK
<1>2. recordedAt' = [recordedAt EXCEPT ![c] = now] /\ entries' = kept /\ now' = now /\ passedAt' = passedAt
  OBVIOUS
<1>3. \A d \in Calls : d # c => pc'[d] = pc[d] /\ recordedAt'[d] = recordedAt[d]
  BY <1>1 DEF Goes, TypeOK
<1>4. recordedAt'[c] = now /\ pc'[c] \in {"evaluating", "aborted"}
  BY <1>1 DEF Goes, TypeOK
<1>5. kept \subseteq CallsIn({"passed"}) /\ kept \subseteq entries
  BY <1>1 DEF Kept, TypeOK, CallsIn
<1>6. TypeOK'
  <2>1. pendingMicro' \in Nat
    BY <1>1
  <2>2. pc' \in [Calls -> {"idle", "evaluating", "aborted", "passed"}]
    BY <1>1 DEF Goes, TypeOK
  <2>3. entries' \subseteq {d \in Calls : pc'[d] = "passed"}
    BY <1>1, <1>2, <1>3, <1>5 DEF CallsIn
  <2>4. QED
    BY <1>1, <1>2, <2>1, <2>2, <2>3 DEF TypeOK
<1>7. PendingIsHeld'
  <2>1. CASE WithinCap(c, kept)
    <3>1. held' = held \cup {c} /\ c \notin held /\ held \subseteq Calls
      <4>1. TypeOK /\ Goes(c, "evaluating")
        BY <1>1, <2>1
      <4>2. held' = held \cup {c}
        BY ONLY <4>1, MoveCounts
      <4>3. QED
        BY <1>1, <4>2 DEF CallsIn
    <3>2. TotalOf(held') = TotalOf(held) + Micro[c]
      BY <3>1, TotalAdd
    <3>3. QED
      BY <1>1, <2>1, <3>2 DEF PendingIsHeld, TotalOf
  <2>2. CASE ~WithinCap(c, kept)
    <3>1. held' = held
      <4>1. TypeOK /\ Goes(c, "aborted") /\ c \notin held
        BY <1>1, <2>2 DEF CallsIn
      <4>2. held' = held \ {c}
        BY ONLY <4>1, MoveCounts
      <4>3. QED
        BY ONLY <4>1, <4>2
    <3>2. QED
      BY <1>1, <2>2, <3>1 DEF PendingIsHeld, TotalOf
  <2>3. QED
    BY <2>1, <2>2
<1>8. Stamped'
  BY <1>1, <1>2, <1>3, <1>4 DEF Stamped, CallsIn, Inv
<1>9. KeepsWindow'
  BY <1>1, <1>2, <1>3, <1>4 DEF KeepsWindow, CallsIn, Inv, Kept
<1>10. CountedWithinCap'
  <2> SUFFICES ASSUME NEW t \in Clock PROVE TotalOf(Counted(t)') <= Cap
    BY DEF CountedWithinCap, TotalOf
  <2>1. TotalOf(Counted(t)) <= Cap /\ Counted(t) \subseteq Calls /\ TotalOf(Counted(t)) \in Nat
    BY TotalTyped DEF Inv, CountedWithinCap, Counted, CallsIn
  <2>2. CASE ~WithinCap(c, kept) \/ now \notin Window(t)
    <3>1. Counted(t)' = Counted(t)
      BY <1>1, <1>2, <1>3, <1>4, <2>2 DEF Counted, CallsIn, Window, Goes, TypeOK
    <3>2. QED
      BY <2>1, <3>1
  <2>3. CASE WithinCap(c, kept) /\ now \in Window(t)
    <3>1. Counted(t)' \subseteq (kept \cup held) \cup {c}
      <4> SUFFICES ASSUME NEW d \in Counted(t)', d # c, d \notin held PROVE d \in kept
        OBVIOUS
      <4>1. d \in CallsIn({"passed"}) /\ recordedAt[d] \in Window(t)
        BY <1>3 DEF Counted, CallsIn, Window
      <4>2. recordedAt[d] > now - Hour
        <5>1. recordedAt[d] \in Clock /\ t \in Nat
          <6>1. Stamped /\ d \in CallsIn({"evaluating", "passed"})
            BY <4>1 DEF Inv, CallsIn
          <6>2. QED
            BY <1>1, <6>1 DEF Stamped
        <5>2. t >= now /\ recordedAt[d] >= t - Hour + 1
          BY <1>1, <2>3, <4>1, <5>1 DEF Window
        <5>3. recordedAt[d] \in Int /\ now \in Int /\ t \in Int /\ Hour \in Int
          <6>1. \A r \in Clock : r \in Int
            BY DEF Clock
          <6>2. now \in Clock /\ t \in Clock /\ Hour \in Int
            BY <1>1
          <6>3. QED
            BY ONLY <5>1, <6>1, <6>2
        <5>4. \A r, n, e, h \in Int : e >= n /\ r >= e - h + 1 => r > n - h
          OBVIOUS
        <5>5. QED
          BY <5>2, <5>3, <5>4
      <4>3. QED
        BY <4>1, <4>2 DEF Inv, KeepsWindow, Kept
    <3>2. kept \cap held = {} /\ c \notin kept \cup held /\ kept \cup held \subseteq Calls
          /\ kept \subseteq Calls /\ held \subseteq Calls
      BY <1>1, <1>5 DEF CallsIn
    <3>3. TotalOf((kept \cup held) \cup {c}) = TotalOf(kept) + TotalOf(held) + Micro[c]
      <4>1. TotalOf((kept \cup held) \cup {c}) = TotalOf(kept \cup held) + Micro[c]
        BY <3>2, TotalAdd
      <4>2. TotalOf(kept \cup held) = TotalOf(kept) + TotalOf(held)
        BY <3>2, TotalDisjoint
      <4>3. QED
        BY <4>1, <4>2
    <3>4. TotalOf(kept) + pendingMicro + Micro[c] <= Cap
      BY <2>3 DEF WithinCap
    <3>5. TotalOf((kept \cup held) \cup {c}) <= Cap
      BY <1>1, <3>3, <3>4
    <3>6. TotalOf(Counted(t)') <= TotalOf((kept \cup held) \cup {c})
      <4>1. (kept \cup held) \cup {c} \subseteq Calls
        BY <3>2
      <4>2. QED
        BY <3>1, <4>1, TotalMonotone
    <3>7. TotalOf(Counted(t)') \in Nat /\ TotalOf((kept \cup held) \cup {c}) \in Nat
      <4>1. (kept \cup held) \cup {c} \subseteq Calls /\ Counted(t)' \subseteq Calls
        BY <3>1, <3>2
      <4>2. QED
        BY <4>1, TotalTyped
    <3> HIDE DEF kept, held
    <3>8. QED
      BY <1>1, <3>5, <3>6, <3>7
  <2>4. QED
    BY <2>2, <2>3
<1>11. QED
  BY <1>6, <1>7, <1>8, <1>9, <1>10 DEF Inv

(* A hook that ends its evaluation gives back exactly what it reserved. *)
LEMMA Releases ==
  ASSUME TypeOK, PendingIsHeld, NEW c \in Calls, pc[c] = "evaluating",
         NEW to, to # "evaluating", Goes(c, to), pendingMicro' = pendingMicro - Micro[c]
  PROVE  pendingMicro' \in Nat /\ PendingIsHeld'
<1> DEFINE held == CallsIn({"evaluating"})
           rest == held \ {c}
<1>1. held' = rest
  BY MoveCounts
<1>2. rest \cup {c} = held /\ c \notin rest /\ rest \subseteq Calls
  BY DEF CallsIn
<1>3. TotalOf(rest \cup {c}) = TotalOf(rest) + Micro[c]
  BY <1>2, TotalAdd
<1>4. TotalOf(rest) \in Nat /\ Micro[c] \in Nat /\ pendingMicro = TotalOf(rest \cup {c})
  BY <1>2, TotalTyped, MicroAssumption DEF PendingIsHeld
<1> HIDE DEF rest
<1>5. pendingMicro' = TotalOf(rest)
  BY <1>3, <1>4
<1>6. QED
  BY <1>1, <1>4, <1>5 DEF PendingIsHeld, TotalOf

(* A refused call counts in no hour any more. *)
LEMMA AbortInv ==
  ASSUME Inv, NEW c \in Calls, HookAborts(c)
  PROVE  Inv'
<1> USE DEF HookAborts
<1>1. TypeOK /\ pc[c] = "evaluating"
  BY DEF Inv
<1>2. pendingMicro' \in Nat /\ PendingIsHeld'
  BY <1>1, Releases DEF Inv
<1>3. TypeOK'
  BY <1>1, <1>2 DEF TypeOK, Goes
<1>4. CallsIn({"evaluating", "passed"})' \subseteq CallsIn({"evaluating", "passed"})
      /\ CallsIn({"passed"})' = CallsIn({"passed"})
  BY <1>1 DEF CallsIn, Goes, TypeOK
<1>5. CountedWithinCap'
  <2> SUFFICES ASSUME NEW t \in Clock PROVE TotalOf(Counted(t)') <= Cap
    BY DEF CountedWithinCap, TotalOf
  <2>1. Counted(t)' \subseteq Counted(t) /\ Counted(t) \subseteq Calls
    BY <1>4 DEF Counted, CallsIn
  <2>2. TotalOf(Counted(t)') <= TotalOf(Counted(t)) /\ TotalOf(Counted(t)) <= Cap
    BY <2>1, TotalMonotone DEF Inv, CountedWithinCap
  <2>3. TotalOf(Counted(t)') \in Nat /\ TotalOf(Counted(t)) \in Nat
    <3>1. Counted(t)' \subseteq Calls
      BY <2>1
    <3>2. QED
      BY <2>1, <3>1, TotalTyped
  <2>4. QED
    BY <2>2, <2>3, BudgetAssumption
<1>6. QED
  <2>1. Stamped'
    BY <1>4 DEF Inv, Stamped
  <2>2. KeepsWindow'
    BY <1>4 DEF Inv, KeepsWindow
  <2>3. QED
    BY <1>2, <1>3, <1>5, <2>1, <2>2 DEF Inv

(* A call that passes was counted already: its entry replaces its reservation
   under the same reading. *)
LEMMA PassInv ==
  ASSUME Inv, NEW c \in Calls, HookPasses(c)
  PROVE  Inv'
<1> USE DEF HookPasses
<1>1. TypeOK /\ pc[c] = "evaluating"
  BY DEF Inv
<1>2. pendingMicro' \in Nat /\ PendingIsHeld'
  BY <1>1, Releases DEF Inv
<1>3. TypeOK'
  <2>1. pc' \in [Calls -> {"idle", "evaluating", "aborted", "passed"}]
    BY <1>1 DEF TypeOK, Goes
  <2>2. entries' \subseteq {d \in Calls : pc'[d] = "passed"}
    BY <1>1 DEF TypeOK, Goes
  <2>3. QED
    BY <1>1, <1>2, <2>1, <2>2 DEF TypeOK
<1>4. /\ CallsIn({"evaluating", "passed"})' = CallsIn({"evaluating", "passed"})
      /\ CallsIn({"passed"})' = CallsIn({"passed"}) \cup {c}
  BY <1>1 DEF CallsIn, Goes, TypeOK
<1>5. CountedWithinCap'
  BY <1>4 DEF Inv, CountedWithinCap, Counted, TotalOf
<1>6. QED
  <2>1. Stamped'
    BY <1>4 DEF Inv, Stamped
  <2>2. KeepsWindow'
    BY <1>4 DEF Inv, KeepsWindow
  <2>3. QED
    BY <1>2, <1>3, <1>5, <2>1, <2>2 DEF Inv

(* Time moves the window on, and away from no entry that is still inside it. *)
LEMMA TickInv ==
  ASSUME Inv, Tick
  PROVE  Inv'
<1>1. TypeOK /\ now \in Int /\ Hour \in Int /\ MaxClock \in Int
  BY BudgetAssumption DEF Inv, TypeOK, Clock
<1>2. TypeOK'
  BY <1>1 DEF TypeOK, Tick, Clock
<1>3. CallsIn({"evaluating", "passed"})' = CallsIn({"evaluating", "passed"})
      /\ CallsIn({"passed"})' = CallsIn({"passed"}) /\ CallsIn({"evaluating"})' = CallsIn({"evaluating"})
  BY DEF Tick, CallsIn
<1>4. PendingIsHeld' /\ CountedWithinCap'
  BY <1>3 DEF Inv, PendingIsHeld, CountedWithinCap, Counted, TotalOf, Tick
<1>5. Stamped'
  BY <1>1, <1>3 DEF Inv, Stamped, Tick, Clock
<1>6. KeepsWindow'
  <2> SUFFICES ASSUME NEW d \in CallsIn({"passed"}), recordedAt[d] > (now + 1) - Hour
               PROVE  d \in entries
    BY <1>3 DEF KeepsWindow, Tick
  <2>1. recordedAt[d] \in Int
    BY <1>1 DEF TypeOK, Clock, Never, CallsIn
  <2>2. recordedAt[d] > now - Hour
    BY <1>1, <2>1
  <2>3. QED
    BY <2>2 DEF Inv, KeepsWindow
<1>7. QED
  BY <1>2, <1>4, <1>5, <1>6 DEF Inv

-----------------------------------------------------------------------------
(* Every step of the concurrent hooks and of the clock keeps it. *)
LEMMA NextInv == Inv /\ [Next]_vars => Inv'
<1> SUFFICES ASSUME Inv, [Next]_vars PROVE Inv'
  OBVIOUS
<1>1. CASE UNCHANGED vars
  BY <1>1 DEF vars, Inv, TypeOK, PendingIsHeld, Stamped, KeepsWindow, CountedWithinCap, Counted,
              CallsIn, TotalOf
<1>2. QED
  BY <1>1, CheckInv, AbortInv, PassInv, TickInv DEF Next

(* The invariant of every behaviour. *)
LEMMA Invariance == Spec => []Inv
BY InitInv, NextInv, PTL DEF Spec

-----------------------------------------------------------------------------
(* The budget's memory has its shape: what is pending is never negative, and an
   entry belongs to a call whose hook passed. *)
THEOREM BudgetTypes == Spec => []TypeOK
<1>1. Inv => TypeOK
  BY DEF Inv
<1>2. QED
  BY <1>1, Invariance, PTL

(* The pre-sign hook of guardedX402Fetch: the calls that took their check in
   any one rolling hour and passed never total more than hourlyBudgetCap,
   whichever of them were evaluated at the same time and whatever was pruned in
   between; and what is reserved is what the hooks under evaluation hold, so a
   refusal or a throw never narrows the budget of the next call. *)
THEOREM HourIsWithinCap == Spec => []CheckedWithinCap
<1>1. ASSUME Inv PROVE CheckedWithinCap
  <2> SUFFICES ASSUME NEW t \in Clock
               PROVE  TotalOf({c \in Calls : pc[c] = "passed" /\ recordedAt[c] \in Window(t)}) <= Cap
    BY <1>1 DEF Inv, PendingIsHeld, CallsIn, CheckedWithinCap
  <2> DEFINE passed == {c \in Calls : pc[c] = "passed" /\ recordedAt[c] \in Window(t)}
  <2>1. passed \subseteq Counted(t) /\ Counted(t) \subseteq Calls /\ passed \subseteq Calls
    BY DEF Counted, CallsIn
  <2>2. TotalOf(passed) <= TotalOf(Counted(t)) /\ TotalOf(Counted(t)) <= Cap
    BY <1>1, <2>1, TotalMonotone DEF Inv, CountedWithinCap
  <2>3. TotalOf(passed) \in Nat /\ TotalOf(Counted(t)) \in Nat
    BY <2>1, TotalTyped
  <2> HIDE DEF passed
  <2>4. TotalOf(passed) <= Cap
    BY <2>2, <2>3, BudgetAssumption
  <2>5. QED
    BY <2>4 DEF passed
<1>2. QED
  BY <1>1, Invariance, PTL
=============================================================================
