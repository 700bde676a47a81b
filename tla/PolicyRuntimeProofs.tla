-------------------------- MODULE PolicyRuntimeProofs --------------------------
(***************************************************************************)
(* The ceilings of Payment Control and the consume-once slot of a decision *)
(* token, for any number of concurrent evaluations, payees, amounts,       *)
(* windows and ceilings.                                                   *)
(***************************************************************************)
EXTENDS PolicyRuntime, Inductions

(* The counts of signatures keep their type only because the slot of a token
   says whether it has signed, so the two are one inductive invariant. *)
Inv == TypeOK /\ SlotTakenBySignature

\* The key of a verified check is nobody's unverified one.
LEMMA KeysApart ==
  \A e, f \in Evals : VerifiedKey(e) # UnsafeKey(f) /\ (VerifiedKey(e) = VerifiedKey(f) => e = f)
BY DEF VerifiedKey, UnsafeKey

\* Clock readings are naturals below Never.
LEMMA ClocksAreNaturals == Clock \subseteq Nat /\ Clock \subseteq Moments /\ Never \in Moments
BY WindowsAssumption DEF Clock, Moments

\* No evaluation has started and no slot is taken at the start.
LEMMA InitInv == Init => Inv
<1> SUFFICES ASSUME Init
             PROVE  Inv
  OBVIOUS
<1>1. 0 \in Clock
  BY WindowsAssumption DEF Clock
<1>2. TypeOK
  BY <1>1, ClocksAreNaturals DEF Init, TypeOK
<1>3. SlotTakenBySignature
  BY DEF Init, SlotTakenBySignature
<1>4. QED
  BY <1>2, <1>3 DEF Inv

\* What an evaluation records are evaluations, dated when they began.
LEMMA RecordTypes ==
  ASSUME TypeOK, NEW e \in Evals, NEW n \in 0 .. 3, Record(e, n)
  PROVE  /\ recorded' \in [Scopes -> SUBSET Evals]
         /\ firstSeen' \in [Payees -> Moments]
<1>1. PayTo[e] \in Payees /\ stamp[e] \in Moments
  BY IntentsAssumption DEF TypeOK
<1>2. recorded' \in [Scopes -> SUBSET Evals]
  BY DEF Record, TypeOK
<1>3. firstSeen' \in [Payees -> Moments]
  BY <1>1 DEF Record, TypeOK
<1>4. QED
  BY <1>2, <1>3

\* Evaluating consumes no token and signs nothing.
LEMMA EvaluateInv ==
  ASSUME Inv, NEW e \in Evals, Evaluate(e)
  PROVE  Inv'
<1> USE DEF Inv
<1>1. UNCHANGED <<consumed, signatures, signedAt, now>>
  BY DEF Evaluate, BlockedLocally, Start, BlockedRemotely, BlockedOnRecheck, Permit, PermitFails
<1>2. SlotTakenBySignature'
  BY <1>1 DEF SlotTakenBySignature, VerifiedKey
<1>3. TypeOK'
  <2> USE DEF Goes
  <2>1. CASE BlockedLocally(e) \/ Start(e)
    BY <2>1, ClocksAreNaturals DEF BlockedLocally, Start, ledger, TypeOK
  <2>2. CASE BlockedRemotely(e) \/ BlockedOnRecheck(e)
    BY <2>2 DEF BlockedRemotely, BlockedOnRecheck, ledger, TypeOK
  <2>3. CASE Permit(e)
    <3>1. /\ recorded' \in [Scopes -> SUBSET Evals]
          /\ firstSeen' \in [Payees -> Moments]
      BY <2>3, RecordTypes DEF Permit
    <3>2. QED
      BY <2>3, <3>1 DEF Permit, TypeOK
  <2>4. ASSUME NEW n \in 0 .. 3, PermitFails(e, n)
        PROVE  TypeOK'
    <3>1. /\ recorded' \in [Scopes -> SUBSET Evals]
          /\ firstSeen' \in [Payees -> Moments]
      BY <2>4, RecordTypes DEF PermitFails
    <3>2. QED
      BY <2>4, <3>1 DEF PermitFails, TypeOK
  <2>5. QED
    BY <2>1, <2>2, <2>3, <2>4 DEF Evaluate
<1>4. QED
  BY <1>2, <1>3

\* A signature takes the slot of its own token, which was free.
LEMMA ApproveInv ==
  ASSUME Inv, NEW e \in Evals, Approve(e)
  PROVE  Inv'
<1> USE DEF Inv
<1>1. signatures[e] = 0
  BY DEF Approve, SlotTakenBySignature, TypeOK
<1>2. VerifiedKey(e) \in {"", "unsafe:"} \X Evals
  BY DEF VerifiedKey
<1>3. signatures' \in [Evals -> {0, 1}] /\ signatures'[e] = 1
  <2>1. signatures \in [Evals -> {0, 1}]
    BY DEF TypeOK
  <2>2. signatures' = [signatures EXCEPT ![e] = 1]
    BY <1>1 DEF Approve
  <2>3. QED
    BY <2>1, <2>2
<1>4. TypeOK'
  <2>1. signedAt' \in [Evals -> Moments]
    BY ClocksAreNaturals DEF Approve, TypeOK
  <2>2. QED
    BY <1>2, <1>3, <2>1 DEF Approve, ledger, TypeOK
<1>5. \A f \in Evals \ {e} :
        /\ signatures'[f] = signatures[f]
        /\ VerifiedKey(f) \in consumed' <=> VerifiedKey(f) \in consumed
  BY KeysApart DEF Approve, TypeOK
<1>6. VerifiedKey(e) \in consumed'
  BY DEF Approve
<1>7. SlotTakenBySignature'
  <2>1. SUFFICES ASSUME NEW f \in Evals
                 PROVE  VerifiedKey(f) \in consumed' <=> signatures'[f] = 1
    BY DEF SlotTakenBySignature, VerifiedKey
  <2>2. QED
    BY <1>3, <1>5, <1>6 DEF SlotTakenBySignature
<1>8. QED
  BY <1>4, <1>7

\* A check without a signature takes a slot of its own kind.
LEMMA ApproveUnsafeInv ==
  ASSUME Inv, NEW e \in Evals, ApproveUnsafe(e)
  PROVE  Inv'
<1> USE DEF Inv
<1>1. UnsafeKey(e) \in {"", "unsafe:"} \X Evals
  BY DEF UnsafeKey
<1>2. TypeOK'
  BY <1>1 DEF ApproveUnsafe, ledger, TypeOK
<1>3. \A f \in Evals : VerifiedKey(f) \in consumed' <=> VerifiedKey(f) \in consumed
  BY KeysApart DEF ApproveUnsafe
<1>4. SlotTakenBySignature'
  BY <1>3 DEF ApproveUnsafe, SlotTakenBySignature, VerifiedKey
<1>5. QED
  BY <1>2, <1>4

\* Every step of the runtime and of the wallet's check keeps the invariant.
LEMMA NextInv == Inv /\ [Next]_vars => Inv'
<1> SUFFICES ASSUME Inv, [Next]_vars
             PROVE  Inv'
  OBVIOUS
<1>1. CASE \E e \in Evals : Evaluate(e) \/ Approve(e) \/ ApproveUnsafe(e)
  BY <1>1, EvaluateInv, ApproveInv, ApproveUnsafeInv
<1>2. CASE Tick
  <2>1. MaxClock \in Nat /\ now \in 0 .. MaxClock /\ now < MaxClock
    BY <1>2, WindowsAssumption DEF Tick, Inv, TypeOK, Clock
  <2>2. now + 1 \in Clock
    BY <2>1 DEF Clock
  <2>3. QED
    BY <1>2, <2>2 DEF Tick, ledger, Inv, TypeOK, SlotTakenBySignature, VerifiedKey
<1>3. CASE UNCHANGED vars
  BY <1>3 DEF vars, ledger, Inv, TypeOK, SlotTakenBySignature, VerifiedKey
<1>4. QED
  BY <1>1, <1>2, <1>3 DEF Next

\* The invariant of every behaviour.
LEMMA Invariance == Spec => []Inv
BY InitInv, NextInv, PTL DEF Spec

(* What evaluateIntent and assertIntentApproved keep has its types, whatever
   the intents and the ceilings; in particular no token signs twice. *)
THEOREM RuntimeTypes == Spec => []TypeOK
<1>1. Inv => TypeOK
  BY DEF Inv
<1>2. QED
  BY <1>1, Invariance, PTL

(* The slot of a token in the decision registry is taken by its one signature
   and by nothing else, however evaluations, signatures, unverified checks and
   the clock interleave. *)
THEOREM SlotIsTheSignatures == Spec => []SlotTakenBySignature
<1>1. Inv => SlotTakenBySignature
  BY DEF Inv
<1>2. QED
  BY <1>1, Invariance, PTL

-----------------------------------------------------------------------------
(* The ceilings.                                                           *)

\* Whose amount is recorded under its counterparty.
PaidTo(p) == {e \in recorded[p] : PayTo[e] = p}

\* An evaluation works with a reading the clock has had.
Dated ==
  \A e \in Evals : pc[e] \in {"awaiting", "permitted", "failed"} =>
                    stamp[e] \in Clock /\ stamp[e] <= now

\* Only what passed the re-check is recorded, and what is permitted is recorded
\* under all three scopes.
RecordsFit ==
  /\ \A s \in Scopes : \A e \in recorded[s] : pc[e] \in {"permitted", "failed"}
  /\ \A e \in Permitted :
       e \in recorded["policy:global"] /\ e \in recorded["mandate"] /\ e \in recorded[PayTo[e]]
  /\ \A p \in Payees : firstSeen[p] = Never => PaidTo(p) = {}

\* The ceilings over everything recorded, failed evaluations included.
WindowsKept ==
  /\ \A t \in Clock : TotalOf(DatedIn(recorded["policy:global"], t - Day, t)) <= DailyCeiling
  /\ \A t \in Clock : TotalOf(DatedIn(recorded["mandate"], t - Month, t)) <= MonthlyCeiling
  /\ \A p \in Payees : \A t \in Clock :
       firstSeen[p] # Never /\ t <= firstSeen[p] + NewWindow =>
         TotalOf(DatedIn(PaidTo(p), t - NewWindow, t)) <= NewCounterpartyCap

\* A signature falls into the lifetime of its token.
SignedAlive ==
  \A e \in Evals : signedAt[e] # Never =>
    pc[e] = "permitted" /\ stamp[e] <= signedAt[e] /\ signedAt[e] < stamp[e] + TTL

(* CeilingsHold speaks of the permitted evaluations; an evaluation that failed
   after its records were made counts against the others as well, so the
   invariant bounds the records. *)
LedgerInv == Inv /\ Dated /\ RecordsFit /\ WindowsKept /\ SignedAlive

-----------------------------------------------------------------------------
(* Totals of evaluations. *)
LEMMA TotalTyped ==
  ASSUME NEW S, S \subseteq Evals
  PROVE  IsFiniteSet(S) /\ (\A e \in S : Micro[e] \in Nat) /\ TotalOf(S) \in Nat
<1>1. IsFiniteSet(S) /\ \A e \in S : Micro[e] \in Nat
  BY EvalsAssumption, FS_Subset, IntentsAssumption
<1>2. QED
  BY <1>1, SumTyped DEF TotalOf

(* One more evaluation adds its amount. *)
LEMMA TotalAdd ==
  ASSUME NEW S, S \subseteq Evals, NEW e \in Evals, e \notin S
  PROVE  TotalOf(S \cup {e}) = Micro[e] + TotalOf(S)
<1>1. Micro[e] \in Nat
  BY IntentsAssumption
<1>2. QED
  BY <1>1, TotalTyped, SumAdd DEF TotalOf

(* More evaluations sum to no less. *)
LEMMA TotalMonotone ==
  ASSUME NEW S, NEW T, S \subseteq T, T \subseteq Evals
  PROVE  TotalOf(S) <= TotalOf(T)
BY TotalTyped, SumMonotone DEF TotalOf

(* A total that is within a limit for more evaluations is so for fewer. *)
LEMMA TotalWithin ==
  ASSUME NEW S, NEW T, S \subseteq T, T \subseteq Evals, NEW limit \in Nat, TotalOf(T) <= limit
  PROVE  TotalOf(S) <= limit
<1>1. S \subseteq Evals
  OBVIOUS
<1>2. TotalOf(S) \in Nat /\ TotalOf(T) \in Nat /\ TotalOf(S) <= TotalOf(T)
  BY <1>1, TotalTyped, TotalMonotone
<1>3. QED
  BY <1>2

\* The constants are naturals.
LEMMA LimitsAreNaturals ==
  /\ Day \in Nat /\ Month \in Nat /\ NewWindow \in Nat /\ TTL \in Nat /\ MaxClock \in Nat
  /\ DailyCeiling \in Nat /\ MonthlyCeiling \in Nat /\ NewCounterpartyCap \in Nat
BY WindowsAssumption, CapsAssumption

(* One more record under a window's limit: what the check counted, at the
   reading it used, covers every window that the reading falls into. *)
LEMMA WindowTakes ==
  ASSUME NEW R, NEW Q, R \subseteq Q, Q \subseteq Evals, NEW e \in Evals, e \notin R,
         NEW W \in Nat, NEW limit \in Nat, NEW t \in Clock, stamp[e] \in Clock,
         \A f \in R : stamp[f] \in Clock,
         TotalOf(DatedIn(R, t - W, t)) <= limit,
         stamp[e] <= t => TotalOf({f \in Q : stamp[e] - stamp[f] <= W}) + Micro[e] <= limit
  PROVE  TotalOf(DatedIn(R \cup {e}, t - W, t)) <= limit
<1> DEFINE before == DatedIn(R, t - W, t)
           counted == {f \in Q : stamp[e] - stamp[f] <= W}
<1>1. before \subseteq Evals /\ counted \subseteq Evals /\ e \notin before
  BY DEF DatedIn
<1>2. Clock \subseteq Int
  BY DEF Clock
<1>3. CASE stamp[e] \notin (t - W) .. t
  <2>1. DatedIn(R \cup {e}, t - W, t) = before
    BY <1>3 DEF DatedIn
  <2>2. QED
    BY <2>1
<1>4. CASE stamp[e] \in (t - W) .. t
  <2>1. DatedIn(R \cup {e}, t - W, t) = before \cup {e}
    BY <1>4 DEF DatedIn
  <2>2. before \subseteq counted
    <3> SUFFICES ASSUME NEW f \in before PROVE stamp[e] - stamp[f] <= W
      BY DEF DatedIn
    <3>1. f \in R /\ stamp[f] \in (t - W) .. t
      BY DEF DatedIn
    <3>2. stamp[f] \in Int /\ stamp[e] \in Int /\ t \in Int
      BY <1>2, <3>1
    <3>3. QED
      BY <1>4, <3>1, <3>2
  <2>3. TotalOf(before) <= TotalOf(counted)
    BY <1>1, <2>2, TotalMonotone
  <2>4. TotalOf(counted) + Micro[e] <= limit
    <3>1. stamp[e] <= t
      BY <1>2, <1>4
    <3>2. QED
      BY <3>1
  <2>5. TotalOf(before \cup {e}) = Micro[e] + TotalOf(before)
    BY <1>1, TotalAdd
  <2>6. TotalOf(before) \in Nat /\ TotalOf(counted) \in Nat /\ Micro[e] \in Nat
    BY <1>1, TotalTyped, IntentsAssumption
  <2> HIDE DEF before, counted
  <2>7. TotalOf(before \cup {e}) <= limit
    BY <2>3, <2>4, <2>5, <2>6
  <2>8. QED
    BY <2>1, <2>7
<1>5. QED
  BY <1>3, <1>4

-----------------------------------------------------------------------------
(* What a record adds. *)
LEMMA RecordAdds ==
  ASSUME LedgerInv, NEW e \in Evals, NEW n \in 0 .. 3, pc[e] = "awaiting", Record(e, n)
  PROVE  /\ stamp[e] \in Clock /\ stamp[e] # Never
         /\ \A s \in Scopes : /\ e \notin recorded[s] /\ recorded[s] \subseteq Evals
                              /\ \A f \in recorded[s] : stamp[f] \in Clock
                              /\ recorded'[s] = recorded[s] \/ recorded'[s] = recorded[s] \cup {e}
         /\ n = 3 => /\ e \in recorded'["policy:global"] /\ e \in recorded'["mandate"]
                     /\ e \in recorded'[PayTo[e]]
         /\ \A p \in Payees : firstSeen'[p] = firstSeen[p]
                                \/ (p = PayTo[e] /\ firstSeen[p] = Never /\ firstSeen'[p] = stamp[e])
         /\ firstSeen'[PayTo[e]] = Never => n = 0
         /\ n = 0 => recorded' = recorded
<1>1. /\ TypeOK /\ PayTo[e] \in Payees /\ PayTo[e] \in Scopes
      /\ "policy:global" \in Scopes /\ "mandate" \in Scopes
  BY IntentsAssumption DEF LedgerInv, Inv, Scopes
<1>2. stamp[e] \in Clock /\ stamp[e] # Never
  BY DEF LedgerInv, Dated, Clock, Never
<1>3. ASSUME NEW s \in Scopes
      PROVE  /\ e \notin recorded[s] /\ recorded[s] \subseteq Evals
             /\ \A f \in recorded[s] : stamp[f] \in Clock
             /\ recorded'[s] = recorded[s] \/ recorded'[s] = recorded[s] \cup {e}
  BY <1>1 DEF LedgerInv, RecordsFit, Dated, Record, TypeOK
<1>4. ASSUME n = 3
      PROVE  /\ e \in recorded'["policy:global"] /\ e \in recorded'["mandate"]
             /\ e \in recorded'[PayTo[e]]
  <2>1. /\ 1 \in 1 .. n /\ 2 \in 1 .. n /\ 3 \in 1 .. n
        /\ ScopesOf(e)[1] = PayTo[e] /\ ScopesOf(e)[2] = "policy:global"
        /\ ScopesOf(e)[3] = "mandate"
    BY <1>4 DEF ScopesOf
  <2>2. \A s \in Scopes : (\E k \in 1 .. n : ScopesOf(e)[k] = s) => e \in recorded'[s]
    BY DEF Record
  <2>3. QED
    BY <1>1, <2>1, <2>2
<1>5. \A p \in Payees : firstSeen'[p] = firstSeen[p]
                          \/ (p = PayTo[e] /\ firstSeen[p] = Never /\ firstSeen'[p] = stamp[e])
  BY <1>1 DEF Record, TypeOK
<1>6. firstSeen'[PayTo[e]] = Never => n = 0
  <2>1. CASE n > 0 /\ firstSeen[PayTo[e]] = Never
    <3>1. firstSeen' = [firstSeen EXCEPT ![PayTo[e]] = stamp[e]] /\ firstSeen \in [Payees -> Moments]
      BY <1>1, <2>1 DEF Record, TypeOK
    <3>2. firstSeen'[PayTo[e]] = stamp[e]
      BY <1>1, <3>1
    <3>3. QED
      BY <1>2, <3>2
  <2>2. CASE ~(n > 0 /\ firstSeen[PayTo[e]] = Never)
    <3>1. firstSeen' = firstSeen
      BY <2>2 DEF Record
    <3>2. QED
      BY <2>2, <3>1
  <2>3. QED
    BY <2>1, <2>2
<1>7. n = 0 => recorded' = recorded
  <2> SUFFICES ASSUME n = 0 PROVE recorded' = recorded
    OBVIOUS
  <2>1. 1 .. n = {}
    OBVIOUS
  <2>2. recorded' = [s \in Scopes |-> recorded[s]]
    BY <2>1 DEF Record
  <2>3. recorded \in [Scopes -> SUBSET Evals]
    BY <1>1 DEF TypeOK
  <2>4. QED
    BY <2>2, <2>3
<1>8. QED
  BY <1>2, <1>3, <1>4, <1>5, <1>6, <1>7

(* A record that passed the re-check keeps every ceiling: the check and the
   record are one segment, so nobody has recorded in between. *)
LEMMA RecordKeeps ==
  ASSUME LedgerInv, NEW e \in Evals, NEW n \in 0 .. 3, NEW to \in {"permitted", "failed"},
         pc[e] = "awaiting", Recheck(e), Record(e, n), to = "permitted" => n = 3,
         pc' = [pc EXCEPT ![e] = to], UNCHANGED stamp
  PROVE  RecordsFit' /\ WindowsKept'
<1>1. /\ TypeOK /\ PayTo[e] \in Payees /\ PayTo[e] \in Scopes
      /\ "policy:global" \in Scopes /\ "mandate" \in Scopes /\ Payees \subseteq Scopes
  BY IntentsAssumption DEF LedgerInv, Inv, Scopes
<1>2. pc'[e] = to /\ \A f \in Evals \ {e} : pc'[f] = pc[f]
  BY <1>1 DEF TypeOK
<1>3. \A p \in Payees : PaidTo(p)' = PaidTo(p) \/ (PaidTo(p)' = PaidTo(p) \cup {e} /\ p = PayTo[e])
  BY <1>1, RecordAdds DEF PaidTo
<1>4. RecordsFit'
  <2>1. ASSUME NEW s \in Scopes, NEW f \in recorded'[s]
        PROVE  pc'[f] \in {"permitted", "failed"}
    <3>1. CASE f = e
      BY <1>2, <3>1
    <3>2. CASE f # e
      <4>1. f \in recorded[s] /\ f \in Evals
        BY <2>1, <3>2, RecordAdds
      <4>2. QED
        BY <1>2, <3>2, <4>1 DEF LedgerInv, RecordsFit
    <3>3. QED
      BY <3>1, <3>2
  <2>2. ASSUME NEW f \in Evals, pc'[f] = "permitted"
        PROVE  /\ f \in recorded'["policy:global"] /\ f \in recorded'["mandate"]
               /\ f \in recorded'[PayTo[f]]
    <3>1. CASE f = e
      BY <1>2, <2>2, <3>1, RecordAdds
    <3>2. CASE f # e
      <4>1. f \in Permitted
        BY <1>2, <2>2, <3>2 DEF Permitted
      <4>2. /\ f \in recorded["policy:global"] /\ f \in recorded["mandate"]
            /\ f \in recorded[PayTo[f]] /\ PayTo[f] \in Scopes
        BY <1>1, <4>1, IntentsAssumption DEF LedgerInv, RecordsFit
      <4>3. QED
        BY <1>1, <4>2, RecordAdds
    <3>3. QED
      BY <3>1, <3>2
  <2>3. ASSUME NEW p \in Payees, firstSeen'[p] = Never
        PROVE  PaidTo(p)' = {}
    <3>1. firstSeen[p] = Never
      BY <2>3, RecordAdds
    <3>2. PaidTo(p) = {}
      BY <3>1 DEF LedgerInv, RecordsFit
    <3>3. PaidTo(p)' = PaidTo(p)
      <4>1. CASE p = PayTo[e]
        BY <2>3, <4>1, RecordAdds DEF PaidTo
      <4>2. CASE p # PayTo[e]
        BY <1>3, <4>2
      <4>3. QED
        BY <4>1, <4>2
    <3>4. QED
      BY <3>2, <3>3
  <2>4. QED
    BY <2>1, <2>2, <2>3 DEF RecordsFit, Permitted
<1>5. ASSUME NEW s \in Scopes, NEW W \in Nat, NEW limit \in Nat, NEW t \in Clock,
             TotalOf(DatedIn(recorded[s], t - W, t)) <= limit,
             SpentMicro(s, W, stamp[e]) + Micro[e] <= limit
      PROVE  TotalOf(DatedIn(recorded[s], t - W, t))' <= limit
  <2>1. TotalOf(DatedIn(recorded[s], t - W, t))' = TotalOf(DatedIn(recorded'[s], t - W, t))
    BY DEF DatedIn, TotalOf
  <2>2. TotalOf(DatedIn(recorded[s] \cup {e}, t - W, t)) <= limit
    BY <1>5, RecordAdds, WindowTakes DEF SpentMicro
  <2>3. QED
    BY <1>5, <2>1, <2>2, RecordAdds
<1>6. \A t \in Clock : TotalOf(DatedIn(recorded["policy:global"], t - Day, t))' <= DailyCeiling
  BY <1>1, <1>5, LimitsAreNaturals DEF LedgerInv, WindowsKept, Recheck, WithinCeilings
<1>7. \A t \in Clock : TotalOf(DatedIn(recorded["mandate"], t - Month, t))' <= MonthlyCeiling
  BY <1>1, <1>5, LimitsAreNaturals DEF LedgerInv, WindowsKept, Recheck, WithinCeilings
<1>8. ASSUME NEW p \in Payees, NEW t \in Clock, firstSeen'[p] # Never,
             t <= firstSeen'[p] + NewWindow
      PROVE  TotalOf(DatedIn(PaidTo(p), t - NewWindow, t))' <= NewCounterpartyCap
  <2>1. TotalOf(DatedIn(PaidTo(p), t - NewWindow, t))'
          = TotalOf(DatedIn(PaidTo(p)', t - NewWindow, t))
    BY DEF DatedIn, TotalOf
  <2>2. TotalOf(DatedIn(PaidTo(p), t - NewWindow, t)) <= NewCounterpartyCap
    <3>1. CASE firstSeen[p] = Never
      <4>1. PaidTo(p) = {}
        BY <3>1 DEF LedgerInv, RecordsFit
      <4>2. DatedIn(PaidTo(p), t - NewWindow, t) = {}
        BY <4>1 DEF DatedIn
      <4>3. TotalOf(DatedIn(PaidTo(p), t - NewWindow, t)) = 0
        BY <4>2, SumEmpty DEF TotalOf
      <4>4. QED
        BY <4>3, LimitsAreNaturals
    <3>2. CASE firstSeen[p] # Never
      <4>1. firstSeen'[p] = firstSeen[p]
        BY <3>2, RecordAdds
      <4>2. QED
        BY <1>8, <3>2, <4>1 DEF LedgerInv, WindowsKept
    <3>3. QED
      BY <3>1, <3>2
  <2>3. ASSUME p = PayTo[e]
        PROVE  TotalOf(DatedIn(PaidTo(p) \cup {e}, t - NewWindow, t)) <= NewCounterpartyCap
    <3>1. /\ PaidTo(p) \subseteq recorded[p] /\ recorded[p] \subseteq Evals /\ e \notin PaidTo(p)
          /\ \A f \in PaidTo(p) : stamp[f] \in Clock
          /\ stamp[e] \in Clock
      BY <1>1, RecordAdds DEF PaidTo
    <3>2. stamp[e] <= t => IsNew(p, stamp[e])
      <4>1. stamp[e] \in Nat /\ t \in Nat /\ NewWindow \in Nat /\ firstSeen[p] \in Moments
        BY <1>1, <3>1, ClocksAreNaturals, LimitsAreNaturals DEF TypeOK
      <4>2. CASE firstSeen[p] = Never
        BY <4>2 DEF IsNew
      <4>3. CASE firstSeen[p] # Never
        <5>1. firstSeen[p] \in Nat /\ t <= firstSeen[p] + NewWindow
          BY <1>8, <4>1, <4>3, RecordAdds, ClocksAreNaturals DEF Moments
        <5>2. QED
          BY <4>1, <5>1 DEF IsNew
      <4>4. QED
        BY <4>2, <4>3
    <3>3. stamp[e] <= t => SpentMicro(p, NewWindow, stamp[e]) + Micro[e] <= NewCounterpartyCap
      BY <2>3, <3>2 DEF Recheck, WithinCeilings
    <3>4. QED
      BY <2>2, <3>1, <3>3, LimitsAreNaturals, WindowTakes DEF SpentMicro
  <2>4. QED
    BY <1>3, <2>1, <2>2, <2>3
<1>9. WindowsKept'
  BY <1>6, <1>7, <1>8 DEF WindowsKept
<1>10. QED
  BY <1>4, <1>9

(* A step that records nothing and moves no dated evaluation keeps what the
   ledger holds within the ceilings. *)
LEMMA LedgerStays ==
  ASSUME LedgerInv, Inv', UNCHANGED ledger,
         \A e \in Evals : pc[e] \in {"permitted", "failed"} <=> pc'[e] \in {"permitted", "failed"},
         \A e \in Evals : pc[e] = "permitted" <=> pc'[e] = "permitted",
         \A e \in Evals : pc[e] \in {"permitted", "failed"} => stamp'[e] = stamp[e]
  PROVE  RecordsFit' /\ WindowsKept'
<1>1. /\ TypeOK /\ "policy:global" \in Scopes /\ "mandate" \in Scopes /\ Payees \subseteq Scopes
  BY DEF LedgerInv, Inv, Scopes
<1>2. \A s \in Scopes : \A f \in recorded[s] : f \in Evals /\ stamp'[f] = stamp[f]
  BY <1>1 DEF LedgerInv, RecordsFit, TypeOK
<1>3. Permitted' = Permitted
  BY DEF Permitted
<1>4. \A p \in Payees : PaidTo(p)' = PaidTo(p)
  BY DEF PaidTo, ledger
<1>5. RecordsFit'
  <2>1. \A s \in Scopes : \A f \in recorded'[s] : pc'[f] \in {"permitted", "failed"}
    BY <1>2 DEF LedgerInv, RecordsFit, ledger
  <2>2. QED
    BY <1>3, <1>4, <2>1 DEF LedgerInv, RecordsFit, ledger
<1>6. ASSUME NEW s \in Scopes, NEW S \in SUBSET recorded[s], NEW i, NEW t
      PROVE  {f \in S : stamp'[f] \in i .. t} = DatedIn(S, i, t)
  BY <1>2 DEF DatedIn
<1>7. ASSUME NEW s \in Scopes, NEW i, NEW t
      PROVE  DatedIn(recorded[s], i, t)' = DatedIn(recorded[s], i, t)
  <2>1. DatedIn(recorded[s], i, t)' = {f \in recorded[s] : stamp'[f] \in i .. t}
    BY DEF DatedIn, ledger
  <2>2. QED
    BY <1>6, <2>1
<1>8. \A p \in Payees : \A t \in Clock :
        DatedIn(PaidTo(p), t - NewWindow, t)' = DatedIn(PaidTo(p), t - NewWindow, t)
  <2> SUFFICES ASSUME NEW p \in Payees, NEW t \in Clock
               PROVE  DatedIn(PaidTo(p), t - NewWindow, t)' = DatedIn(PaidTo(p), t - NewWindow, t)
    OBVIOUS
  <2>1. PaidTo(p) \in SUBSET recorded[p] /\ p \in Scopes
    BY <1>1 DEF PaidTo
  <2>2. DatedIn(PaidTo(p), t - NewWindow, t)' = {f \in PaidTo(p) : stamp'[f] \in (t - NewWindow) .. t}
    BY <1>4 DEF DatedIn
  <2>3. {f \in PaidTo(p) : stamp'[f] \in (t - NewWindow) .. t} = DatedIn(PaidTo(p), t - NewWindow, t)
    BY ONLY <1>6, <2>1
  <2>4. QED
    BY ONLY <2>2, <2>3
<1>9. WindowsKept'
  <2>1. \A S : TotalOf(S)' = TotalOf(S')
    BY DEF TotalOf
  <2>2. QED
    BY <1>1, <1>7, <1>8, <2>1 DEF LedgerInv, WindowsKept, ledger
<1>10. QED
  BY <1>5, <1>9

\* Nothing is recorded at the start.
LEMMA InitLedger == Init => LedgerInv
<1> SUFFICES ASSUME Init
             PROVE  LedgerInv
  OBVIOUS
<1>1. Dated /\ SignedAlive
  BY DEF Init, Dated, SignedAlive
<1>2. \A s \in Scopes : recorded[s] = {}
  BY DEF Init
<1>3. "policy:global" \in Scopes /\ "mandate" \in Scopes /\ Payees \subseteq Scopes
  BY DEF Scopes
<1>4. RecordsFit
  BY <1>2, <1>3 DEF Init, RecordsFit, Permitted, PaidTo
<1>5. \A S, i, t : S = {} => TotalOf(DatedIn(S, i, t)) = 0
  <2> SUFFICES ASSUME NEW i, NEW t PROVE TotalOf(DatedIn({}, i, t)) = 0
    OBVIOUS
  <2>1. DatedIn({}, i, t) = {}
    BY DEF DatedIn
  <2>2. QED
    BY <2>1, SumEmpty DEF TotalOf
<1>6. WindowsKept
  BY <1>2, <1>3, <1>5, LimitsAreNaturals DEF WindowsKept, Init
<1>7. QED
  BY <1>1, <1>4, <1>6, InitInv DEF LedgerInv

\* An evaluation dates itself by the clock, and is recorded once re-checked.
LEMMA EvaluateLedger ==
  ASSUME LedgerInv, Inv', NEW e \in Evals, Evaluate(e)
  PROVE  LedgerInv'
<1> USE DEF Goes
<1>1. /\ TypeOK /\ UNCHANGED <<signedAt, now>>
      /\ \A f \in Evals \ {e} : pc'[f] = pc[f] /\ stamp'[f] = stamp[f]
  BY DEF Evaluate, BlockedLocally, Start, BlockedRemotely, BlockedOnRecheck, Permit, PermitFails,
         LedgerInv, Inv, TypeOK
<1>2. now \in Clock /\ now <= now
  <2>1. now \in Clock
    BY <1>1 DEF TypeOK
  <2>2. now \in Nat
    BY <2>1, ClocksAreNaturals
  <2>3. QED
    BY <2>1, <2>2
<1>3. \/ pc[e] = "idle" /\ pc'[e] = "blocked"
      \/ pc[e] = "idle" /\ pc'[e] = "awaiting" /\ stamp'[e] = now
      \/ pc[e] = "awaiting" /\ stamp'[e] = stamp[e] /\ pc'[e] \in {"blocked", "permitted", "failed"}
  BY <1>1 DEF Evaluate, BlockedLocally, Start, BlockedRemotely, BlockedOnRecheck, Permit,
              PermitFails, TypeOK
<1>4. Dated'
  BY <1>1, <1>2, <1>3 DEF LedgerInv, Dated
<1>5. SignedAlive'
  BY <1>1, <1>3 DEF LedgerInv, SignedAlive
<1>6. RecordsFit' /\ WindowsKept'
  <2>1. CASE BlockedLocally(e) \/ Start(e) \/ BlockedRemotely(e) \/ BlockedOnRecheck(e)
    <3>1. UNCHANGED ledger /\ pc[e] \notin {"permitted", "failed"}
            /\ pc'[e] \notin {"permitted", "failed"}
      BY <1>1, <2>1 DEF BlockedLocally, Start, BlockedRemotely, BlockedOnRecheck, TypeOK
    <3>2. QED
      BY <1>1, <3>1, LedgerStays
  <2>2. CASE Permit(e)
    <3>1. 3 \in 0 .. 3
      OBVIOUS
    <3>2. QED
      BY <2>2, <3>1, RecordKeeps DEF Permit
  <2>3. ASSUME NEW n \in 0 .. 3, PermitFails(e, n)
        PROVE  RecordsFit' /\ WindowsKept'
    BY <2>3, RecordKeeps DEF PermitFails
  <2>4. QED
    BY <2>1, <2>2, <2>3 DEF Evaluate
<1>7. QED
  BY <1>4, <1>5, <1>6 DEF LedgerInv

\* A check of a token, a tick and a stutter record nothing.
LEMMA OthersLedger ==
  ASSUME LedgerInv, Inv',
         (\E e \in Evals : Approve(e) \/ ApproveUnsafe(e)) \/ Tick \/ UNCHANGED vars
  PROVE  LedgerInv'
<1>1. TypeOK /\ UNCHANGED <<pc, stamp, ledger>>
  BY DEF Approve, ApproveUnsafe, Tick, vars, ledger, LedgerInv, Inv
<1>2. now' = now \/ now' = now + 1
  BY DEF Approve, ApproveUnsafe, Tick, vars
<1>3. Dated'
  <2> SUFFICES ASSUME NEW e \in Evals, pc'[e] \in {"awaiting", "permitted", "failed"}
               PROVE  stamp'[e] \in Clock /\ stamp'[e] <= now'
    BY DEF Dated
  <2>1. stamp'[e] \in Clock /\ stamp'[e] <= now
    BY <1>1 DEF LedgerInv, Dated
  <2>2. stamp'[e] \in Nat /\ now \in Nat
    BY <1>1, <2>1, ClocksAreNaturals DEF TypeOK
  <2>3. QED
    BY <1>2, <2>1, <2>2
<1>4. SignedAlive'
  <2>1. ASSUME NEW e \in Evals, Approve(e)
        PROVE  SignedAlive'
    <3>1. /\ stamp[e] <= now /\ now < stamp[e] + TTL /\ pc[e] = "permitted"
          /\ \A f \in Evals : signedAt'[f] = signedAt[f] \/ (f = e /\ signedAt'[f] = now)
      BY <1>1, <2>1 DEF Approve, Alive, LedgerInv, Dated, TypeOK
    <3>2. QED
      BY <1>1, <3>1 DEF LedgerInv, SignedAlive
  <2>2. CASE UNCHANGED signedAt
    BY <1>1, <2>2 DEF LedgerInv, SignedAlive
  <2>3. QED
    BY <2>1, <2>2 DEF ApproveUnsafe, Tick, vars
<1>5. RecordsFit' /\ WindowsKept'
  BY <1>1, LedgerStays
<1>6. QED
  BY <1>3, <1>4, <1>5 DEF LedgerInv

\* The ledger's invariant of every behaviour.
LEMMA LedgerInvariance == Spec => []LedgerInv
<1>1. LedgerInv /\ [Next]_vars => LedgerInv'
  <2> SUFFICES ASSUME LedgerInv, [Next]_vars
               PROVE  LedgerInv'
    OBVIOUS
  <2>1. Inv'
    BY NextInv DEF LedgerInv
  <2>2. QED
    BY <2>1, EvaluateLedger, OthersLedger DEF Next
<1>2. QED
  BY InitLedger, <1>1, PTL DEF Spec

(* The permitted evaluations of a window are among its records. *)
LEMMA PermittedWithin ==
  ASSUME LedgerInv
  PROVE  CeilingsHold
<1>1. /\ TypeOK /\ "policy:global" \in Scopes /\ "mandate" \in Scopes /\ Payees \subseteq Scopes
  BY DEF LedgerInv, Inv, Scopes
<1>2. ASSUME NEW t \in Clock
      PROVE  /\ TotalOf(DatedIn(Permitted, t - Day, t)) <= DailyCeiling
             /\ TotalOf(DatedIn(Permitted, t - Month, t)) <= MonthlyCeiling
  <2>1. /\ DatedIn(Permitted, t - Day, t) \subseteq DatedIn(recorded["policy:global"], t - Day, t)
        /\ DatedIn(Permitted, t - Month, t) \subseteq DatedIn(recorded["mandate"], t - Month, t)
    BY DEF LedgerInv, RecordsFit, DatedIn
  <2>2. /\ DatedIn(recorded["policy:global"], t - Day, t) \subseteq Evals
        /\ DatedIn(recorded["mandate"], t - Month, t) \subseteq Evals
    BY <1>1 DEF DatedIn, TypeOK
  <2>3. /\ TotalOf(DatedIn(recorded["policy:global"], t - Day, t)) <= DailyCeiling
        /\ TotalOf(DatedIn(recorded["mandate"], t - Month, t)) <= MonthlyCeiling
    BY DEF LedgerInv, WindowsKept
  <2>4. QED
    BY <2>1, <2>2, <2>3, LimitsAreNaturals, TotalWithin
<1>3. NewCounterpartyCapped
  <2> SUFFICES ASSUME NEW p \in Payees, NEW t \in Clock,
                      firstSeen[p] # Never, t <= firstSeen[p] + NewWindow
               PROVE  TotalOf(DatedIn({e \in Permitted : PayTo[e] = p}, t - NewWindow, t))
                        <= NewCounterpartyCap
    BY DEF NewCounterpartyCapped
  <2>1. {e \in Permitted : PayTo[e] = p} \subseteq PaidTo(p)
    BY DEF LedgerInv, RecordsFit, PaidTo, Permitted
  <2>2. /\ DatedIn({e \in Permitted : PayTo[e] = p}, t - NewWindow, t)
             \subseteq DatedIn(PaidTo(p), t - NewWindow, t)
        /\ DatedIn(PaidTo(p), t - NewWindow, t) \subseteq Evals
    BY <1>1, <2>1 DEF DatedIn, PaidTo, TypeOK
  <2>3. TotalOf(DatedIn(PaidTo(p), t - NewWindow, t)) <= NewCounterpartyCap
    BY DEF LedgerInv, WindowsKept
  <2>4. QED
    BY <2>2, <2>3, LimitsAreNaturals, TotalWithin
<1>4. QED
  BY <1>2, <1>3 DEF CeilingsHold

(* What is signed in a window shorter by the token's lifetime is recorded in
   the ceiling's window. *)
LEMMA SignedWithin ==
  ASSUME LedgerInv
  PROVE  SignedWithinCeilings
<1> DEFINE SignedIn(first, t) == {e \in Evals : signedAt[e] # Never /\ signedAt[e] \in first .. t}
<1>1. ASSUME NEW t \in Clock, NEW W \in Nat, TTL <= W
      PROVE  /\ SignedIn(t - (W - TTL), t) \subseteq DatedIn(Permitted, t - W, t)
             /\ DatedIn(Permitted, t - W, t) \subseteq Evals
  <2>1. ASSUME NEW e \in SignedIn(t - (W - TTL), t)
        PROVE  e \in DatedIn(Permitted, t - W, t)
    <3>1. /\ pc[e] = "permitted" /\ stamp[e] <= signedAt[e] /\ signedAt[e] < stamp[e] + TTL
          /\ signedAt[e] \in (t - (W - TTL)) .. t
      BY DEF LedgerInv, SignedAlive
    <3>2. /\ stamp[e] \in Nat /\ t \in Nat /\ TTL \in Nat
      BY <3>1, ClocksAreNaturals, LimitsAreNaturals DEF LedgerInv, Dated
    <3>3. stamp[e] \in (t - W) .. t
      BY <3>1, <3>2
    <3>4. QED
      BY <3>1, <3>3 DEF DatedIn, Permitted
  <2>2. QED
    BY <2>1 DEF DatedIn, Permitted
<1>2. ASSUME NEW t \in Clock
      PROVE  /\ TTL <= Day => TotalOf(SignedIn(t - (Day - TTL), t)) <= DailyCeiling
             /\ TTL <= Month => TotalOf(SignedIn(t - (Month - TTL), t)) <= MonthlyCeiling
  <2>1. /\ TotalOf(DatedIn(Permitted, t - Day, t)) <= DailyCeiling
        /\ TotalOf(DatedIn(Permitted, t - Month, t)) <= MonthlyCeiling
    BY PermittedWithin DEF CeilingsHold
  <2> HIDE DEF SignedIn
  <2>2. QED
    BY <1>1, <2>1, LimitsAreNaturals, TotalWithin
<1>3. QED
  BY <1>2 DEF SignedWithinCeilings

(* evaluateIntent never lets "two intents read one headroom and both clear the
   ceiling": for any number of concurrent evaluations, however slow their
   intelligence, every window of the daily and the monthly ceiling holds, and
   the cap of a counterparty that is new. *)
THEOREM CeilingsAreKept == Spec => []CeilingsHold
<1>1. LedgerInv => CeilingsHold
  BY PermittedWithin
<1>2. QED
  BY <1>1, LedgerInvariance, PTL

(* The signatures that assertIntentApproved lets a wallet make stay within the
   ceilings over every window that is shorter by the lifetime of a token. *)
THEOREM SignedIsWithinCeilings == Spec => []SignedWithinCeilings
<1>1. LedgerInv => SignedWithinCeilings
  BY SignedWithin
<1>2. QED
  BY <1>1, LedgerInvariance, PTL
=============================================================================
