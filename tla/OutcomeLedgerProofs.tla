------------------------- MODULE OutcomeLedgerProofs -------------------------
(***************************************************************************)
(* The safety of the outcome ledger, for any intents, decisions, clocks    *)
(* and approvals, and files of any length.                                 *)
(***************************************************************************)
EXTENDS OutcomeLedger, TLAPS, SequenceTheorems, WellFoundedInduction

-----------------------------------------------------------------------------
(* A non-empty set of positions of a sequence has a last one: the greatest
   row number is the least distance from the end. *)
LEMMA LastExists ==
  ASSUME NEW n \in Nat, NEW S, S \subseteq 1 .. n, S # {}
  PROVE  /\ Max(S) \in S
         /\ \A k \in S : k <= Max(S)
<1> DEFINE T == {x \in Nat : n - x \in S}
<1>1. T \subseteq Nat /\ T # {}
  <2>1. PICK k \in S : k \in 1 .. n
    OBVIOUS
  <2>2. n - k \in Nat /\ n - (n - k) = k
    BY <2>1
  <2>3. n - k \in T
    BY <2>1, <2>2
  <2>4. QED
    BY <2>3
<1>2. PICK x \in T : \A y \in T : ~(<<y, x>> \in OpToRel(<, Nat))
  BY <1>1, NatLessThanWellFounded, WFMin
<1>3. x \in Nat /\ n - x \in S
  BY <1>2
<1>4. \A k \in S : k <= n - x
  <2>1. SUFFICES ASSUME NEW k \in S, ~(k <= n - x)
                 PROVE  FALSE
    OBVIOUS
  <2>2. k \in 1 .. n /\ n - k \in Nat /\ n - (n - k) = k /\ n - k < x
    BY <2>1, <1>3
  <2>3. n - k \in T
    BY <2>1, <2>2
  <2>4. <<n - k, x>> \in OpToRel(<, Nat)
    BY <2>2, <1>3 DEF OpToRel
  <2>5. QED
    BY <1>2, <2>3, <2>4
<1>5. QED
  BY <1>3, <1>4 DEF Max

(* A row appended to any set of earlier rows is the last of them. *)
LEMMA AppendedIsLast ==
  ASSUME NEW n \in Nat, NEW S, S \subseteq 1 .. n
  PROVE  Max(S \cup {n + 1}) = n + 1
<1> DEFINE U == S \cup {n + 1}
<1>1. /\ n + 1 \in U
      /\ \A y \in U : n + 1 >= y
      /\ \A x \in U : (\A y \in U : x >= y) => x = n + 1
  OBVIOUS
<1> HIDE DEF U
<1>2. \E x \in U : \A y \in U : x >= y
  BY <1>1
<1>3. Max(U) \in U /\ \A y \in U : Max(U) >= y
  BY <1>2, Zenon DEF Max
<1>4. QED
  BY <1>1, <1>3 DEF U

-----------------------------------------------------------------------------
(* What appending one row does to the rows of each intent. *)
LEMMA RowsOfAppend ==
  ASSUME NEW f \in Seq(Rows), NEW r \in Rows, NEW i \in Intents
  PROVE  /\ RowsOf(f, i) \subseteq 1 .. Len(f)
         /\ OpeningRowsOf(f, i) \subseteq RowsOf(f, i)
         /\ r.intent = i =>
              RowsOf(Append(f, r), i) = RowsOf(f, i) \cup {Len(f) + 1}
         /\ r.intent # i => RowsOf(Append(f, r), i) = RowsOf(f, i)
         /\ r.intent = i /\ r.state = "approved" =>
              OpeningRowsOf(Append(f, r), i) =
                OpeningRowsOf(f, i) \cup {Len(f) + 1}
         /\ r.intent # i \/ r.state # "approved" =>
              OpeningRowsOf(Append(f, r), i) = OpeningRowsOf(f, i)
<1>1. /\ DOMAIN f = 1 .. Len(f) /\ Len(f) \in Nat
      /\ DOMAIN Append(f, r) = 1 .. (Len(f) + 1)
      /\ \A k \in 1 .. Len(f) : Append(f, r)[k] = f[k]
      /\ Append(f, r)[Len(f) + 1] = r
  BY AppendProperties, LenProperties
<1>2. 1 .. (Len(f) + 1) = (1 .. Len(f)) \cup {Len(f) + 1}
  BY <1>1
<1>3. QED
  BY <1>1, <1>2 DEF RowsOf, OpeningRowsOf

(* Every intent with rows has an opening row: its record has a decision. *)
Opened(f) == \A i \in Intents : RowsOf(f, i) # {} => OpeningRowsOf(f, i) # {}

(* Replaying a file with one more row is replaying the file and then
   applying the row: a restart after commit() rebuilds what commit() left. *)
LEMMA ReplayAppend ==
  ASSUME NEW f \in Seq(Rows), Opened(f), NEW r \in Rows,
         r.state = "approved" \/ RowsOf(f, r.intent) # {}
  PROVE  /\ Replay(Append(f, r)) = ApplyRow(Replay(f), r)
         /\ Opened(Append(f, r))
         /\ ReplayUsed(Append(f, r)) =
              IF r.state = "approved"
                THEN ReplayUsed(f) \cup {r.decision}
                ELSE ReplayUsed(f)
<1> DEFINE g == Append(f, r)
           n == Len(f)
<1>1. /\ DOMAIN f = 1 .. n /\ n \in Nat
      /\ DOMAIN g = 1 .. (n + 1)
      /\ \A k \in 1 .. n : g[k] = f[k]
      /\ g[n + 1] = r
      /\ r.intent \in Intents
  BY AppendProperties, LenProperties DEF Rows
<1> HIDE DEF g
<1>2. ASSUME NEW i \in Intents
      PROVE  /\ RowsOf(f, i) \subseteq 1 .. n
             /\ OpeningRowsOf(f, i) \subseteq RowsOf(f, i)
             /\ r.intent = i => RowsOf(g, i) = RowsOf(f, i) \cup {n + 1}
             /\ r.intent # i => RowsOf(g, i) = RowsOf(f, i)
             /\ r.intent = i /\ r.state = "approved" =>
                  OpeningRowsOf(g, i) = OpeningRowsOf(f, i) \cup {n + 1}
             /\ r.intent # i \/ r.state # "approved" =>
                  OpeningRowsOf(g, i) = OpeningRowsOf(f, i)
  BY RowsOfAppend DEF g
<1>3. Opened(g)
  BY <1>2 DEF Opened
<1>4. Replay(g) = ApplyRow(Replay(f), r)
  <2>1. SUFFICES ASSUME NEW i \in Intents
                 PROVE  Replay(g)[i] = ApplyRow(Replay(f), r)[i]
    BY DEF Replay, ApplyRow
  <2>2. CASE r.intent # i
    <3>1. RowsOf(g, i) = RowsOf(f, i) /\ OpeningRowsOf(g, i) = OpeningRowsOf(f, i)
      BY <1>2, <2>2
    <3>2. ApplyRow(Replay(f), r)[i] = Replay(f)[i]
      BY <2>2 DEF ApplyRow, Replay
    <3>3. CASE RowsOf(f, i) = {}
      BY <3>1, <3>2, <3>3 DEF Replay
    <3>4. CASE RowsOf(f, i) # {}
      <4>1. /\ Max(RowsOf(f, i)) \in 1 .. n
            /\ Max(OpeningRowsOf(f, i)) \in 1 .. n
        BY <1>1, <1>2, <3>4, LastExists DEF Opened
      <4>2. /\ g[Max(RowsOf(f, i))] = f[Max(RowsOf(f, i))]
            /\ g[Max(OpeningRowsOf(f, i))] = f[Max(OpeningRowsOf(f, i))]
        BY <1>1, <4>1
      <4>3. QED
        BY <3>1, <3>2, <3>4, <4>2 DEF Replay
    <3>5. QED
      BY <3>3, <3>4
  <2>3. CASE r.intent = i
    <3>1. RowsOf(g, i) = RowsOf(f, i) \cup {n + 1}
      BY <1>2, <2>3
    <3>2. Max(RowsOf(g, i)) = n + 1
      BY <1>1, <1>2, <3>1, AppendedIsLast
    <3>3. CASE r.state = "approved"
      <4>1. OpeningRowsOf(g, i) = OpeningRowsOf(f, i) \cup {n + 1}
        BY <1>2, <2>3, <3>3
      <4>2. Max(OpeningRowsOf(g, i)) = n + 1
        BY <1>1, <1>2, <4>1, AppendedIsLast
      <4>3. ApplyRow(Replay(f), r)[i] =
              [state |-> "approved", decision |-> r.decision, approval |-> r.approval]
        BY <2>3, <3>3 DEF Replay, ApplyRow
      <4>4. Replay(g)[i] =
              [state |-> r.state, decision |-> r.decision, approval |-> r.approval]
        BY <1>1, <3>1, <3>2, <4>2 DEF Replay
      <4>5. QED
        BY <3>3, <4>3, <4>4
    <3>4. CASE r.state # "approved"
      <4>1. RowsOf(f, i) # {} /\ OpeningRowsOf(f, i) # {}
        BY <2>3, <3>4 DEF Opened
      <4>2. Max(OpeningRowsOf(f, i)) \in 1 .. n
        BY <1>1, <1>2, <4>1, LastExists
      <4>3. OpeningRowsOf(g, i) = OpeningRowsOf(f, i)
        BY <1>2, <3>4
      <4>4. g[Max(OpeningRowsOf(g, i))] = f[Max(OpeningRowsOf(f, i))]
        BY <1>1, <4>2, <4>3
      <4>5. ApplyRow(Replay(f), r)[i] = [Replay(f)[i] EXCEPT !.state = r.state]
        BY <2>3, <3>4 DEF Replay, ApplyRow
      <4>6. Replay(f)[i] =
              [state    |-> f[Max(RowsOf(f, i))].state,
               decision |-> f[Max(OpeningRowsOf(f, i))].decision,
               approval |-> f[Max(OpeningRowsOf(f, i))].approval]
        BY <4>1 DEF Replay
      <4>7. Replay(g)[i] =
              [state    |-> r.state,
               decision |-> f[Max(OpeningRowsOf(f, i))].decision,
               approval |-> f[Max(OpeningRowsOf(f, i))].approval]
        BY <1>1, <3>1, <3>2, <4>4 DEF Replay
      <4>8. QED
        BY <4>5, <4>6, <4>7
    <3>5. QED
      BY <3>3, <3>4
  <2>4. QED
    BY <2>2, <2>3
<1>5. ReplayUsed(g) = IF r.state = "approved"
                        THEN ReplayUsed(f) \cup {r.decision}
                        ELSE ReplayUsed(f)
  BY <1>1 DEF ReplayUsed, DecisionsIn
<1>6. QED
  BY <1>3, <1>4, <1>5 DEF g

-----------------------------------------------------------------------------
(***************************************************************************)
(* The rows the operations append, and the inductive invariant of a file   *)
(* that only such rows are appended to.  The last four conjuncts before    *)
(* the safety properties are what makes those inductive: every decision in *)
(* the file is used, the records of two intents never share one, an        *)
(* approved record has only its opening row, and a signature is either     *)
(* followed by a row that settles it or still paying in the replay.        *)
(***************************************************************************)
LegalRow(f, r) ==
  LET rec == Replay(f)[r.intent]
  IN  IF r.state = "approved"
        THEN /\ rec.state \notin UnresolvedStates
             /\ r.decision \notin ReplayUsed(f)
             /\ r.approval \in Approvals
        ELSE /\ <<rec.state, r.state>> \in LEGAL
             /\ r.decision = rec.decision
             /\ r.state = "signing" => r.at < rec.approval.expiresAt
             /\ r.state = "completed" => r.amount <= rec.approval.cap

DecisionsUsed(f) ==
  /\ \A k \in DOMAIN f : f[k].decision \in ReplayUsed(f)
  /\ \A i \in Intents :
       Replay(f)[i].state # "none" => Replay(f)[i].decision \in ReplayUsed(f)

DecisionsApart(f) ==
  \A i, j \in Intents :
    /\ i # j
    /\ Replay(f)[i].state # "none"
    /\ Replay(f)[j].state # "none"
    => Replay(f)[i].decision # Replay(f)[j].decision

ApprovedIsFresh(f) ==
  \A i \in Intents, k \in DOMAIN f :
    /\ Replay(f)[i].state = "approved"
    /\ f[k].decision = Replay(f)[i].decision
    => f[k].state = "approved"

SettledOrPaying(f) ==
  \A k \in DOMAIN f :
    f[k].state = "signing" =>
      \/ Replay(f)[f[k].intent].state \in PayingStates
      \/ \E j \in DOMAIN f : /\ k <= j
                             /\ f[j].intent = f[k].intent
                             /\ f[j].state \in SettledStates

OpenedBefore(f) ==
  \A k \in DOMAIN f : \E j \in OpeningRowsOf(f, f[k].intent) : j <= k

Sound(f) ==
  /\ f \in Seq(Rows)
  /\ Opened(f)
  /\ OpenedBefore(f)
  /\ Replay(f) \in [Intents -> Records]
  /\ DecisionsUsed(f)
  /\ DecisionsApart(f)
  /\ ApprovedIsFresh(f)
  /\ SettledOrPaying(f)
  /\ SignaturesApart(f)
  /\ DecisionsSingleUse(f)
  /\ RefusalsUnsigned(f)
  /\ SignaturesInTime(f)
  /\ CompletionsInCap(f)

(* A ledger that has written nothing is sound. *)
LEMMA EmptyIsSound ==
  /\ Sound(<<>>)
  /\ Replay(<<>>) = [i \in Intents |-> NoRecord]
  /\ ReplayUsed(<<>>) = {}
<1>1. <<>> \in Seq(Rows) /\ DOMAIN <<>> = {}
  OBVIOUS
<1>2. \A i \in Intents : RowsOf(<<>>, i) = {}
  BY <1>1 DEF RowsOf
<1>3. Replay(<<>>) = [i \in Intents |-> NoRecord]
  BY <1>2 DEF Replay
<1>4. ReplayUsed(<<>>) = {}
  BY <1>1 DEF ReplayUsed, DecisionsIn
<1>5. QED
  BY <1>1, <1>2, <1>3, <1>4
  DEF Sound, Opened, Records, NoRecord, DecisionsUsed, DecisionsApart,
      ApprovedIsFresh, SettledOrPaying, SignaturesApart, DecisionsSingleUse,
      RefusalsUnsigned, OpenedBefore, SignaturesInTime, CompletionsInCap

(* The approval a row acts under is fixed when the row is written, and is the
   one its intent's record holds at that moment. *)
LEMMA ApprovalOfAppend ==
  ASSUME NEW f \in Seq(Rows), Opened(f), OpenedBefore(f), NEW r \in Rows,
         r.state = "approved" \/ RowsOf(f, r.intent) # {}
  PROVE  /\ \A k \in DOMAIN f : ApprovalOf(Append(f, r), k) = ApprovalOf(f, k)
         /\ r.state # "approved" =>
              ApprovalOf(Append(f, r), Len(f) + 1) = Replay(f)[r.intent].approval
         /\ OpenedBefore(Append(f, r))
<1> DEFINE g == Append(f, r)
           n == Len(f)
<1>1. /\ DOMAIN f = 1 .. n /\ n \in Nat
      /\ DOMAIN g = 1 .. (n + 1)
      /\ \A k \in 1 .. n : g[k] = f[k] /\ f[k].intent \in Intents
      /\ g[n + 1] = r
      /\ r.intent \in Intents
  <2>1. \A k \in 1 .. n : f[k] \in Rows
    BY ElementOfSeq
  <2>2. QED
    BY <2>1, AppendProperties, LenProperties DEF Rows
<1>2. ASSUME NEW i \in Intents
      PROVE  /\ OpeningRowsOf(f, i) \subseteq 1 .. n
             /\ OpeningRowsOf(f, i) \subseteq OpeningRowsOf(g, i)
             /\ OpeningRowsOf(g, i) \subseteq OpeningRowsOf(f, i) \cup {n + 1}
             /\ r.intent = i /\ r.state = "approved" => n + 1 \in OpeningRowsOf(g, i)
             /\ r.state # "approved" => OpeningRowsOf(g, i) = OpeningRowsOf(f, i)
  BY RowsOfAppend
<1> HIDE DEF g
<1>3. ASSUME NEW k \in 1 .. n
      PROVE  ApprovalOf(g, k) = ApprovalOf(f, k)
  <2> DEFINE S == {j \in OpeningRowsOf(f, f[k].intent) : j <= k}
  <2>1. S # {} /\ S \subseteq 1 .. n
    BY <1>1, <1>2 DEF OpenedBefore
  <2>2. {j \in OpeningRowsOf(g, g[k].intent) : j <= k} = S
    BY <1>1, <1>2
  <2> HIDE DEF S
  <2>3. Max(S) \in 1 .. n
    BY <1>1, <2>1, LastExists
  <2>4. g[Max(S)] = f[Max(S)]
    BY <1>1, <2>3
  <2>5. ApprovalOf(g, k) = g[Max(S)].approval
    BY <2>2 DEF ApprovalOf
  <2>6. ApprovalOf(f, k) = f[Max(S)].approval
    BY DEF ApprovalOf, S
  <2>7. QED
    BY <2>4, <2>5, <2>6
<1>4. ASSUME r.state # "approved"
      PROVE  ApprovalOf(g, n + 1) = Replay(f)[r.intent].approval
  <2> DEFINE S == OpeningRowsOf(f, r.intent)
  <2>1. S # {} /\ S \subseteq 1 .. n /\ RowsOf(f, r.intent) # {}
    BY <1>1, <1>2, <1>4 DEF Opened
  <2>2. {j \in OpeningRowsOf(g, g[n + 1].intent) : j <= n + 1} = S
    BY <1>1, <1>2, <1>4
  <2>3. Replay(f)[r.intent].approval = f[Max(S)].approval
    BY <1>1, <2>1 DEF Replay
  <2> HIDE DEF S
  <2>4. Max(S) \in 1 .. n
    BY <1>1, <2>1, LastExists
  <2>5. ApprovalOf(g, n + 1) = g[Max(S)].approval
    BY <2>2 DEF ApprovalOf
  <2>6. QED
    BY <1>1, <2>3, <2>4, <2>5
<1>5. OpenedBefore(g)
  <2>1. SUFFICES ASSUME NEW k \in 1 .. (n + 1)
                 PROVE  \E j \in OpeningRowsOf(g, g[k].intent) : j <= k
    BY <1>1 DEF OpenedBefore
  <2>2. CASE k \in 1 .. n
    BY <1>1, <1>2, <2>2 DEF OpenedBefore
  <2>3. CASE k = n + 1
    <3>1. \E j \in OpeningRowsOf(g, r.intent) : TRUE
      BY <1>1, <1>2 DEF Opened
    <3>2. QED
      BY <1>1, <1>2, <2>3, <3>1
  <2>4. QED
    BY <1>1, <2>2, <2>3
<1>6. QED
  BY <1>1, <1>3, <1>4, <1>5 DEF g

(* The heart of the argument: a sound file stays sound when a row is appended
   that is legal for the records a replay of the file yields. *)
LEMMA SoundAppend ==
  ASSUME NEW f, Sound(f), NEW r \in Rows, LegalRow(f, r)
  PROVE  /\ Sound(Append(f, r))
         /\ Replay(Append(f, r)) = ApplyRow(Replay(f), r)
         /\ ReplayUsed(Append(f, r)) =
              IF r.state = "approved"
                THEN ReplayUsed(f) \cup {r.decision}
                ELSE ReplayUsed(f)
<1> DEFINE g == Append(f, r)
           n == Len(f)
           i == r.intent
           rec == Replay(f)[i]
<1>1. /\ f \in Seq(Rows) /\ g \in Seq(Rows)
      /\ DOMAIN f = 1 .. n /\ n \in Nat
      /\ DOMAIN g = 1 .. (n + 1)
      /\ \A k \in 1 .. n : g[k] = f[k]
      /\ g[n + 1] = r
      /\ i \in Intents
  BY AppendProperties, LenProperties DEF Rows, Sound
<1>2. Opened(f) /\ Replay(f) \in [Intents -> Records]
  BY DEF Sound
<1>3. r.state # "approved" => RowsOf(f, i) # {}
  BY <1>1 DEF LegalRow, LEGAL, Replay, NoRecord
<1>4. /\ Replay(g) = ApplyRow(Replay(f), r)
      /\ Opened(g)
      /\ ReplayUsed(g) = IF r.state = "approved"
                           THEN ReplayUsed(f) \cup {r.decision}
                           ELSE ReplayUsed(f)
  BY <1>1, <1>2, <1>3, ReplayAppend DEF g
<1> HIDE DEF g
<1>5. /\ \A j \in Intents : j # i => Replay(g)[j] = Replay(f)[j]
      /\ r.state = "approved" =>
           Replay(g)[i] = [state |-> "approved", decision |-> r.decision,
                           approval |-> r.approval]
      /\ r.state # "approved" =>
           Replay(g)[i] = [rec EXCEPT !.state = r.state]
  BY <1>1, <1>2, <1>4 DEF ApplyRow
<1>6. Replay(g) \in [Intents -> Records]
  <2>1. \A j \in Intents : Replay(g)[j] \in Records
    <3>1. SUFFICES Replay(g)[i] \in Records
      BY <1>2, <1>5
    <3>2. CASE r.state = "approved"
      BY <1>5, <3>2 DEF LegalRow, Rows, Records, States, UnresolvedStates
    <3>3. CASE r.state # "approved"
      <4>1. rec \in [state : States, decision : Decisions, approval : Approvals]
        BY <1>1, <1>2, <3>3 DEF Records, NoRecord, LegalRow, LEGAL
      <4>2. r.state \in States
        BY DEF Rows
      <4>3. QED
        BY <1>5, <3>3, <4>1, <4>2 DEF Records
    <3>4. QED
      BY <3>2, <3>3
  <2>2. QED
    BY <1>4, <2>1 DEF Replay
<1>7. r.decision \in ReplayUsed(g)
  BY <1>1, <1>4 DEF LegalRow, LEGAL, Sound, DecisionsUsed
<1>8. DecisionsUsed(g)
  <2>1. DecisionsUsed(f)
    BY DEF Sound
  <2>2. \A k \in DOMAIN g : g[k].decision \in ReplayUsed(g)
    BY <1>1, <1>4, <1>7, <2>1 DEF DecisionsUsed
  <2>3. \A j \in Intents :
          Replay(g)[j].state # "none" => Replay(g)[j].decision \in ReplayUsed(g)
    <3>1. \A j \in Intents : j # i =>
            (Replay(g)[j].state # "none" => Replay(g)[j].decision \in ReplayUsed(g))
      BY <1>4, <1>5, <2>1 DEF DecisionsUsed
    <3>2. Replay(g)[i].decision = r.decision
      BY <1>1, <1>2, <1>5 DEF LegalRow, Records, NoRecord
    <3>3. QED
      BY <1>7, <3>1, <3>2
  <2>4. QED
    BY <2>2, <2>3 DEF DecisionsUsed
<1>9. /\ Replay(g)[i].state = r.state
      /\ Replay(g)[i].decision = r.decision
      /\ r.state # "approved" => rec.state # "none" /\ r.decision = rec.decision
      /\ r.state = "approved" => r.decision \notin ReplayUsed(f)
  <2>1. rec \in Records
    BY <1>1, <1>2
  <2>2. CASE r.state = "approved"
    BY <1>5, <2>2 DEF LegalRow
  <2>3. CASE r.state # "approved"
    <3>1. <<rec.state, r.state>> \in LEGAL /\ r.decision = rec.decision
      BY <2>3 DEF LegalRow
    <3>2. rec.state # "none"
      BY <3>1 DEF LEGAL
    <3>3. Replay(g)[i] = [rec EXCEPT !.state = r.state]
      BY <1>5, <2>3
    <3>4. Replay(g)[i].state = r.state /\ Replay(g)[i].decision = rec.decision
      BY <2>1, <3>3 DEF Records, NoRecord
    <3>5. QED
      BY <2>3, <3>1, <3>2, <3>4
  <2>4. QED
    BY <2>2, <2>3
<1>10. DecisionsApart(g)
  <2>1. DecisionsUsed(f) /\ DecisionsApart(f)
    BY DEF Sound
  <2>2. SUFFICES ASSUME NEW j \in Intents, j # i, Replay(g)[j].state # "none"
                 PROVE  Replay(g)[j].decision # r.decision
    <3>1. \A h, j \in Intents :
            h # i /\ j # i /\ h # j /\ Replay(g)[h].state # "none"
              /\ Replay(g)[j].state # "none"
            => Replay(g)[h].decision # Replay(g)[j].decision
      BY <1>5, <2>1 DEF DecisionsApart
    <3>2. QED
      BY <1>9, <2>2, <3>1 DEF DecisionsApart
  <2>3. QED
    BY <1>1, <1>5, <1>9, <2>1, <2>2 DEF DecisionsApart, DecisionsUsed
<1>11. ApprovedIsFresh(g)
  <2>1. DecisionsUsed(f) /\ DecisionsApart(f) /\ ApprovedIsFresh(f)
    BY DEF Sound
  <2>2. SUFFICES ASSUME NEW j \in Intents, NEW k \in 1 .. (n + 1),
                        Replay(g)[j].state = "approved",
                        g[k].decision = Replay(g)[j].decision
                 PROVE  g[k].state = "approved"
    BY <1>1 DEF ApprovedIsFresh
  <2>3. CASE j = i
    <3>1. r.state = "approved" /\ g[k].decision = r.decision
      BY <1>9, <2>2, <2>3
    <3>2. k \notin 1 .. n
      BY <1>1, <1>9, <2>1, <3>1 DEF DecisionsUsed
    <3>3. k = n + 1
      BY <1>1, <2>2, <3>2
    <3>4. QED
      BY <1>1, <3>1, <3>3
  <2>4. CASE j # i
    <3>1. Replay(f)[j] = Replay(g)[j]
      BY <1>5, <2>4
    <3>2. r.decision # Replay(f)[j].decision
      BY <1>1, <1>9, <2>1, <2>2, <2>4, <3>1 DEF DecisionsApart, DecisionsUsed
    <3>3. k \in 1 .. n
      BY <1>1, <2>2, <3>1, <3>2
    <3>4. QED
      BY <1>1, <2>1, <2>2, <3>1, <3>3 DEF ApprovedIsFresh
  <2>5. QED
    BY <2>3, <2>4
<1>12. SettledOrPaying(g)
  <2>1. SUFFICES ASSUME NEW k \in 1 .. (n + 1), g[k].state = "signing",
                        Replay(g)[g[k].intent].state \notin PayingStates
                 PROVE  \E j \in 1 .. (n + 1) : /\ k <= j
                                                /\ g[j].intent = g[k].intent
                                                /\ g[j].state \in SettledStates
    BY <1>1 DEF SettledOrPaying
  <2>2. k \in 1 .. n /\ g[k] = f[k] /\ f[k].intent \in Intents
    <3>1. k # n + 1
      BY <1>1, <1>9, <2>1 DEF PayingStates
    <3>2. k \in 1 .. n
      BY <1>1, <3>1
    <3>3. f[k] \in Rows
      BY <1>1, <3>2, ElementOfSeq
    <3>4. QED
      BY <1>1, <3>2, <3>3 DEF Rows
  <2>3. CASE \E j \in 1 .. n : /\ k <= j
                              /\ f[j].intent = f[k].intent
                              /\ f[j].state \in SettledStates
    BY <1>1, <2>2, <2>3
  <2>4. CASE Replay(f)[f[k].intent].state \in PayingStates
    <3>1. f[k].intent = i
      BY <1>5, <2>1, <2>2, <2>4
    <3>2. r.state \in SettledStates
      BY <1>9, <2>1, <2>2, <2>4, <3>1
      DEF LegalRow, LEGAL, PayingStates, UnresolvedStates
    <3>3. QED
      BY <1>1, <2>2, <3>1, <3>2
  <2>5. QED
    BY <1>1, <2>1, <2>2, <2>3, <2>4 DEF Sound, SettledOrPaying
<1>13. SignaturesApart(g)
  <2>1. SUFFICES ASSUME NEW k \in 1 .. (n + 1), NEW m \in 1 .. (n + 1), k < m,
                        g[k].intent = g[m].intent,
                        g[k].state = "signing", g[m].state = "signing"
                 PROVE  \E j \in k .. m : /\ g[j].intent = g[k].intent
                                          /\ g[j].state \in SettledStates
    BY <1>1 DEF SignaturesApart
  <2>2. k \in 1 .. n /\ g[k] = f[k]
    BY <1>1, <2>1
  <2>3. CASE m \in 1 .. n
    <3>1. g[m] = f[m]
      BY <1>1, <2>3
    <3>2. PICK j \in k .. m : /\ f[j].intent = f[k].intent
                              /\ f[j].state \in SettledStates
      BY <1>1, <2>1, <2>2, <2>3, <3>1 DEF Sound, SignaturesApart
    <3>3. j \in 1 .. n
      BY <1>1, <2>2, <2>3
    <3>4. QED
      BY <1>1, <2>2, <3>2, <3>3
  <2>4. CASE m = n + 1
    <3>1. r.state = "signing" /\ f[k].intent = i /\ rec.state = "approved"
      BY <1>1, <2>1, <2>2, <2>4 DEF LegalRow, LEGAL, SettledStates
    <3>2. PICK j \in 1 .. n : /\ k <= j
                              /\ f[j].intent = f[k].intent
                              /\ f[j].state \in SettledStates
      BY <1>1, <2>1, <2>2, <3>1 DEF Sound, SettledOrPaying, PayingStates
    <3>3. QED
      BY <1>1, <2>2, <2>4, <3>2
  <2>5. QED
    BY <1>1, <2>3, <2>4
<1>14. DecisionsSingleUse(g)
  <2>1. SUFFICES ASSUME NEW k \in 1 .. n, g[k].decision = r.decision,
                        g[k].state = r.state, r.state \in {"approved", "signing"}
                 PROVE  FALSE
    <3>1. \A k, m \in 1 .. n :
            /\ g[k].decision = g[m].decision
            /\ g[k].state = g[m].state
            /\ g[k].state \in {"approved", "signing"}
            => k = m
      BY <1>1 DEF Sound, DecisionsSingleUse
    <3>2. \A k \in 1 .. (n + 1) : k \in 1 .. n \/ k = n + 1
      BY <1>1
    <3>3. QED
      BY <1>1, <2>1, <3>1, <3>2 DEF DecisionsSingleUse
  <2>2. CASE r.state = "approved"
    BY <1>1, <1>9, <2>1, <2>2 DEF Sound, DecisionsUsed
  <2>3. CASE r.state = "signing"
    <3>1. rec.state = "approved"
      BY <2>3 DEF LegalRow, LEGAL, SettledStates
    <3>2. QED
      BY <1>1, <1>9, <2>1, <2>3, <3>1 DEF Sound, ApprovedIsFresh
  <2>4. QED
    BY <2>1, <2>2, <2>3
<1>15. RefusalsUnsigned(g)
  <2>1. SUFFICES ASSUME NEW k \in 1 .. n, g[k].decision = r.decision,
                        r.state \in {"refused", "expired", "signing"},
                        g[k].state \in {"refused", "expired", "signing"}
                 PROVE  FALSE
    <3>1. \A k, m \in 1 .. n :
            ~ /\ g[k].decision = g[m].decision
              /\ g[k].state \in {"refused", "expired"}
              /\ g[m].state = "signing"
      BY <1>1 DEF Sound, RefusalsUnsigned
    <3>2. \A k \in 1 .. (n + 1) : k \in 1 .. n \/ k = n + 1
      BY <1>1
    <3>3. QED
      BY <1>1, <2>1, <3>1, <3>2 DEF RefusalsUnsigned
  <2>2. rec.state = "approved"
    BY <2>1 DEF LegalRow, LEGAL, SettledStates
  <2>3. QED
    BY <1>1, <1>9, <2>1, <2>2 DEF Sound, ApprovedIsFresh
<1>16. /\ \A k \in 1 .. n : ApprovalOf(g, k) = ApprovalOf(f, k)
       /\ r.state # "approved" => ApprovalOf(g, n + 1) = rec.approval
       /\ OpenedBefore(g)
  BY <1>1, <1>3, ApprovalOfAppend DEF Sound, g
<1>17. SignaturesInTime(g)
  <2>1. SUFFICES ASSUME NEW k \in 1 .. (n + 1), g[k].state = "signing"
                 PROVE  g[k].at < ApprovalOf(g, k).expiresAt
    BY <1>1 DEF SignaturesInTime
  <2>2. CASE k \in 1 .. n
    BY <1>1, <1>16, <2>1, <2>2 DEF Sound, SignaturesInTime
  <2>3. CASE k = n + 1
    BY <1>1, <1>16, <2>1, <2>3 DEF LegalRow
  <2>4. QED
    BY <1>1, <2>2, <2>3
<1>18. CompletionsInCap(g)
  <2>1. SUFFICES ASSUME NEW k \in 1 .. (n + 1), g[k].state = "completed"
                 PROVE  g[k].amount <= ApprovalOf(g, k).cap
    BY <1>1 DEF CompletionsInCap
  <2>2. CASE k \in 1 .. n
    BY <1>1, <1>16, <2>1, <2>2 DEF Sound, CompletionsInCap
  <2>3. CASE k = n + 1
    BY <1>1, <1>16, <2>1, <2>3 DEF LegalRow
  <2>4. QED
    BY <1>1, <2>2, <2>3
<1>19. QED
  BY <1>1, <1>4, <1>6, <1>8, <1>10, <1>11, <1>12, <1>13, <1>14, <1>15,
     <1>16, <1>17, <1>18
  DEF Sound, g

-----------------------------------------------------------------------------
(***************************************************************************)
(* The loop that replays a file, row by row: its memory after n rows is    *)
(* what Replay and ReplayUsed read off the first n rows.                   *)
(***************************************************************************)
LoopMemory(f, g, n) == IF n = 0 THEN NothingReplayed ELSE RowReplayed(g[n - 1], f[n])

LoopOn(f, last, g) == g = [n \in 0 .. last |-> LoopMemory(f, g, n)]

LEMMA LoopIs ==
  ASSUME NEW f
  PROVE  ReplayLoop(f) = (CHOOSE g : LoopOn(f, Len(f), g))[Len(f)]
BY DEF ReplayLoop, LoopOn, LoopMemory

(* The loop ends after any number of rows. *)
LEMMA LoopExists ==
  ASSUME NEW f, NEW last \in Nat PROVE \E g : LoopOn(f, last, g)
<1> DEFINE Bad == {m \in Nat : ~\E g : LoopOn(f, m, g)}
<1>1. SUFFICES ASSUME Bad # {} PROVE FALSE
  OBVIOUS
<1>2. PICK m \in Bad : \A k \in Bad : ~(<<k, m>> \in OpToRel(<, Nat))
  BY <1>1, NatLessThanWellFounded, WFMin
<1>3. m \in Nat /\ ~\E g : LoopOn(f, m, g)
  BY <1>2
<1>4. CASE m = 0
  <2> DEFINE g == [n \in 0 .. 0 |-> NothingReplayed]
  <2>1. g = [n \in 0 .. 0 |-> LoopMemory(f, g, n)]
    BY DEF LoopMemory
  <2>2. QED
    BY <1>3, <1>4, <2>1 DEF LoopOn
<1>5. CASE m # 0
  <2>1. m - 1 \in Nat /\ <<m - 1, m>> \in OpToRel(<, Nat)
    BY <1>3, <1>5 DEF OpToRel
  <2>2. m - 1 \notin Bad
    BY <1>2, <2>1
  <2>3. PICK g : g = [n \in 0 .. m - 1 |-> LoopMemory(f, g, n)]
    BY <2>1, <2>2 DEF LoopOn
  <2> DEFINE h == [n \in 0 .. m |-> LoopMemory(f, g, n)]
  <2>4. \A n \in 0 .. m - 1 : h[n] = g[n]
    BY <1>3, <2>3
  <2> HIDE DEF h
  <2>5. ASSUME NEW n \in 0 .. m PROVE LoopMemory(f, g, n) = LoopMemory(f, h, n)
    <3>1. n = 0 \/ n - 1 \in 0 .. m - 1
      BY <1>3
    <3>2. QED
      BY <2>4, <3>1 DEF LoopMemory
  <2>6. h = [n \in 0 .. m |-> LoopMemory(f, h, n)]
    <3>1. [n \in 0 .. m |-> LoopMemory(f, g, n)] = [n \in 0 .. m |-> LoopMemory(f, h, n)]
      BY <2>5
    <3>2. QED
      BY <3>1 DEF h
  <2>7. QED
    BY <1>3, <2>6 DEF LoopOn
<1>6. QED
  BY <1>4, <1>5

FirstRows(f, n) == [k \in 1 .. n |-> f[k]]

ReplayedOf(f) == [records |-> Replay(f), used |-> ReplayUsed(f)]

(* One turn of the loop on a file that a ledger wrote: the row is the first of
   an attempt, or of an intent with an attempt. *)
LEMMA FirstRowsGrow ==
  ASSUME NEW f, Sound(f), NEW n \in 1 .. Len(f), Opened(FirstRows(f, n - 1))
  PROVE  /\ Opened(FirstRows(f, n))
         /\ ReplayedOf(FirstRows(f, n)) = RowReplayed(ReplayedOf(FirstRows(f, n - 1)), f[n])
<1> DEFINE p == FirstRows(f, n - 1)
           q == FirstRows(f, n)
<1>1. f \in Seq(Rows) /\ DOMAIN f = 1 .. Len(f) /\ Len(f) \in Nat /\ f[n] \in Rows /\ n \in Nat /\ n - 1 \in Nat
  BY LenProperties, ElementOfSeq DEF Sound
<1>2. p \in Seq(Rows) /\ Len(p) = n - 1
  <2>1. \A k \in 1 .. n - 1 : f[k] \in Rows
    BY <1>1, ElementOfSeq
  <2>2. p \in [1 .. n - 1 -> Rows]
    BY <2>1 DEF FirstRows
  <2>3. p \in Seq(Rows)
    BY <1>1, <2>2, SeqDef
  <2>4. DOMAIN p = 1 .. Len(p) /\ Len(p) \in Nat /\ DOMAIN p = 1 .. n - 1
    BY <2>2, <2>3, LenProperties
  <2>5. QED
    BY <1>1, <2>3, <2>4
<1>3. Append(p, f[n]) = q
  <2>1. /\ Append(p, f[n]) \in Seq(Rows) /\ Len(Append(p, f[n])) = n
        /\ \A k \in 1 .. n - 1 : Append(p, f[n])[k] = p[k]
        /\ Append(p, f[n])[n] = f[n]
    BY <1>1, <1>2, AppendProperties
  <2>2. DOMAIN Append(p, f[n]) = 1 .. n
    BY <2>1, LenProperties
  <2>3. \A k \in 1 .. n : Append(p, f[n])[k] = f[k]
    <3>1. \A k \in 1 .. n - 1 : p[k] = f[k]
      BY DEF FirstRows
    <3>2. \A k \in 1 .. n : k = n \/ k \in 1 .. n - 1
      BY <1>1
    <3>3. QED
      BY <2>1, <3>1, <3>2
  <2> DEFINE s == Append(p, f[n])
  <2>4. s = [k \in 1 .. n |-> s[k]]
    BY <2>1, <2>2, LenProperties
  <2> HIDE DEF s
  <2>5. [k \in 1 .. n |-> s[k]] = [k \in 1 .. n |-> f[k]]
    BY <2>3 DEF s
  <2>6. QED
    BY <2>4, <2>5 DEF s, FirstRows
<1>4. f[n].state = "approved" \/ RowsOf(p, f[n].intent) # {}
  <2>1. PICK j \in OpeningRowsOf(f, f[n].intent) : j <= n
    BY <1>1 DEF Sound, OpenedBefore
  <2>2. j \in 1 .. Len(f) /\ f[j].intent = f[n].intent /\ f[j].state = "approved"
    BY <1>1, <2>1 DEF OpeningRowsOf, RowsOf
  <2>3. CASE j = n
    BY <2>2, <2>3
  <2>4. CASE j # n
    <3>1. j \in 1 .. n - 1
      BY <1>1, <2>1, <2>2, <2>4
    <3>2. p[j] = f[j] /\ j \in DOMAIN p
      BY <3>1 DEF FirstRows
    <3>3. QED
      BY <2>2, <3>2 DEF RowsOf
  <2>5. QED
    BY <2>3, <2>4
<1> HIDE DEF p, q
<1>5. Opened(p)
  BY DEF p
<1>6. /\ Replay(q) = ApplyRow(Replay(p), f[n])
      /\ Opened(q)
      /\ ReplayUsed(q) = IF f[n].state = "approved" THEN ReplayUsed(p) \cup {f[n].decision} ELSE ReplayUsed(p)
  BY <1>1, <1>2, <1>3, <1>4, <1>5, ReplayAppend
<1>7. QED
  BY <1>6 DEF ReplayedOf, RowReplayed, p, q

(* The loop over the rows of a sound file. *)
LEMMA LoopReplays ==
  ASSUME NEW f, Sound(f)
  PROVE  ReplayLoop(f) = ReplayedOf(f)
<1> DEFINE last == Len(f)
           g == CHOOSE g : LoopOn(f, last, g)
           Good(n) == Opened(FirstRows(f, n)) /\ g[n] = ReplayedOf(FirstRows(f, n))
           Bad == {n \in 0 .. last : ~Good(n)}
<1>1. f \in Seq(Rows) /\ last \in Nat /\ f = [k \in 1 .. last |-> f[k]]
  BY LenProperties DEF Sound
<1>2. LoopOn(f, last, g)
  BY <1>1, LoopExists
<1>3. ReplayLoop(f) = g[last]
  BY LoopIs
<1> HIDE DEF g, last
<1>4. \A n \in 0 .. last : g[n] = LoopMemory(f, g, n)
  BY <1>2 DEF LoopOn
<1>5. Good(0)
  <2>1. FirstRows(f, 0) = << >>
    BY DEF FirstRows
  <2>2. Opened(<< >>) /\ ReplayedOf(<< >>) = NothingReplayed
    <3>1. DOMAIN << >> = {}
      OBVIOUS
    <3>2. \A i \in Intents : RowsOf(<< >>, i) = {}
      BY <3>1 DEF RowsOf
    <3>3. Replay(<< >>) = [i \in Intents |-> NoRecord]
      BY <3>2 DEF Replay
    <3>4. ReplayUsed(<< >>) = {}
      BY <3>1 DEF ReplayUsed, DecisionsIn
    <3>5. QED
      BY <3>2, <3>3, <3>4 DEF Opened, ReplayedOf, NothingReplayed
  <2>3. g[0] = NothingReplayed
    <3>1. 0 \in 0 .. last
      BY <1>1
    <3>2. g[0] = LoopMemory(f, g, 0)
      BY <1>4, <3>1
    <3>3. LoopMemory(f, g, 0) = NothingReplayed
      BY DEF LoopMemory
    <3>4. QED
      BY <3>2, <3>3
  <2>4. Opened(FirstRows(f, 0)) /\ g[0] = ReplayedOf(FirstRows(f, 0))
    BY <2>1, <2>2, <2>3
  <2>5. QED
    BY <2>4
<1>6. ASSUME NEW n \in 0 .. last, n # 0, Good(n - 1) PROVE Good(n)
  <2>1. n \in 1 .. Len(f)
    BY <1>1, <1>6 DEF last
  <2>2. /\ Opened(FirstRows(f, n))
        /\ ReplayedOf(FirstRows(f, n)) = RowReplayed(ReplayedOf(FirstRows(f, n - 1)), f[n])
    BY <1>6, <2>1, FirstRowsGrow
  <2>3. g[n] = RowReplayed(g[n - 1], f[n])
    BY <1>4, <1>6 DEF LoopMemory
  <2>4. QED
    BY <1>6, <2>2, <2>3
<1> HIDE DEF Good
<1>7. Bad = {}
  <2> SUFFICES ASSUME Bad # {} PROVE FALSE
    OBVIOUS
  <2>1. Bad \subseteq Nat
    BY <1>1
  <2>2. PICK n \in Bad : \A k \in Bad : ~(<<k, n>> \in OpToRel(<, Nat))
    BY <2>1, NatLessThanWellFounded, WFMin
  <2>3. n \in 0 .. last /\ ~Good(n)
    BY <2>2
  <2>4. n # 0
    BY <1>5, <2>3
  <2>5. n - 1 \in 0 .. last /\ <<n - 1, n>> \in OpToRel(<, Nat)
    BY <1>1, <2>3, <2>4 DEF OpToRel
  <2>6. Good(n - 1)
    BY <2>2, <2>5
  <2>7. QED
    BY <1>6, <2>3, <2>4, <2>6
<1>8. Good(last)
  BY <1>1, <1>7
<1>9. FirstRows(f, last) = f
  BY <1>1 DEF FirstRows
<1>10. QED
  BY <1>3, <1>8, <1>9 DEF Good

-----------------------------------------------------------------------------
(***************************************************************************)
(* The inductive invariant of the specification.  The file is sound        *)
(* whether the process runs or not; the memory only matters while it runs. *)
(***************************************************************************)
LedgerInv == TypeOK /\ MemoryIsReplay /\ Sound(file)

(* The ledger starts in the invariant, with an empty file. *)
LEMMA InitInv == Init => LedgerInv
BY EmptyIsSound DEF Init, LedgerInv, TypeOK, MemoryIsReplay, Records, NoRecord

(* Every commit of a legal row preserves the invariant. *)
LEMMA CommitInv ==
  ASSUME LedgerInv, status = "up", NEW r \in Rows, LegalRow(file, r), Commit(r)
  PROVE  LedgerInv'
<1>1. /\ Sound(file')
      /\ Replay(file') = ApplyRow(Replay(file), r)
      /\ ReplayUsed(file') = IF r.state = "approved"
                               THEN ReplayUsed(file) \cup {r.decision}
                               ELSE ReplayUsed(file)
  BY SoundAppend DEF LedgerInv, Commit
<1>2. records = Replay(file) /\ used = ReplayUsed(file)
  BY DEF LedgerInv, MemoryIsReplay
<1>3. records' = Replay(file') /\ used' = ReplayUsed(file')
  BY <1>1, <1>2 DEF Commit
<1>4. MemoryIsReplay'
  BY <1>3 DEF MemoryIsReplay
<1>5. TypeOK'
  BY <1>1, <1>3 DEF LedgerInv, TypeOK, Commit, Sound, Rows
<1>6. QED
  BY <1>1, <1>4, <1>5 DEF LedgerInv

(* The row a transition appends is one the file may hold. *)
LEMMA TransitionRowLegal ==
  ASSUME LedgerInv, status = "up", NEW i \in Intents, NEW t \in Times, NEW s,
         <<records[i].state, s>> \in LEGAL,
         s = "signing" => t < records[i].approval.expiresAt,
         NEW amount \in Amounts \cup {0},
         s = "completed" => amount <= records[i].approval.cap
  PROVE  LET r == [TransitionRow(records, i, s, t) EXCEPT !.amount = amount]
         IN  r \in Rows /\ LegalRow(file, r)
<1>1. records = Replay(file) /\ records[i] \in Records
  BY DEF LedgerInv, MemoryIsReplay, TypeOK
<1>2. s \in States /\ s # "approved" /\ records[i].decision \in Decisions
  BY <1>1 DEF LEGAL, SettledStates, States, UnresolvedStates, TerminalStates,
              Records, NoRecord
<1> DEFINE r == [TransitionRow(records, i, s, t) EXCEPT !.amount = amount]
<1>3. r = [intent |-> i, decision |-> records[i].decision, state |-> s, at |-> t,
           approval |-> NoApproval, amount |-> amount]
  BY DEF TransitionRow, Row
<1>4. r \in Rows
  BY <1>2, <1>3 DEF Rows
<1>5. LegalRow(file, r)
  BY <1>1, <1>2, <1>3 DEF LegalRow
<1>6. QED
  BY <1>4, <1>5

(* Every operation that is one plain transition preserves the invariant. *)
LEMMA TransitionInv ==
  ASSUME LedgerInv, NEW i \in Intents, NEW t \in Times, NEW s, Transition(i, s, t),
         s = "signing" => t < records[i].approval.expiresAt,
         s # "completed"
  PROVE  LedgerInv'
<1> DEFINE r == TransitionRow(records, i, s, t)
<1>1. [r EXCEPT !.amount = 0] = r
  BY DEF TransitionRow, Row
<1>2. r \in Rows /\ LegalRow(file, r)
  BY <1>1, TransitionRowLegal DEF Transition
<1>3. QED
  BY <1>2, CommitInv DEF Transition

(* begin() over a lapsed approval appends two rows; each is legal when it is
   written. *)
LEMMA BeginAfterLapseInv ==
  ASSUME LedgerInv, NEW i \in Intents, NEW d \in Decisions, NEW a \in Approvals,
         NEW t \in Times, BeginAfterLapse(i, d, a, t)
  PROVE  LedgerInv'
<1> DEFINE lapse == TransitionRow(records, i, "expired", t)
           open  == OpeningRow(i, d, a, t)
           mid   == Append(file, lapse)
<1>1. records = Replay(file) /\ used = ReplayUsed(file) /\ status = "up"
  BY DEF LedgerInv, MemoryIsReplay, BeginAfterLapse
<1>2. lapse \in Rows /\ LegalRow(file, lapse)
  <2>1. [lapse EXCEPT !.amount = 0] = lapse
    BY DEF TransitionRow, Row
  <2>2. QED
    BY <1>1, <2>1, TransitionRowLegal DEF BeginAfterLapse
<1>3. /\ Sound(mid)
      /\ Replay(mid) = ApplyRow(records, lapse)
      /\ ReplayUsed(mid) = used
  BY <1>1, <1>2, SoundAppend DEF LedgerInv, TransitionRow, Row
<1>4. open = [intent |-> i, decision |-> d, state |-> "approved", at |-> t,
              approval |-> a, amount |-> 0]
  BY DEF OpeningRow, Row
<1>5. open \in Rows
  BY <1>4 DEF Rows, States, UnresolvedStates
<1>6. Replay(mid)[i].state = "expired"
  <2>1. records[i] \in Records /\ records \in [Intents -> Records]
    BY DEF LedgerInv, TypeOK
  <2>2. ApplyRow(records, lapse)[i] = [records[i] EXCEPT !.state = "expired"]
    BY <2>1 DEF ApplyRow, TransitionRow, Row
  <2>3. QED
    BY <1>3, <2>1, <2>2 DEF Records, NoRecord
<1>7. LegalRow(mid, open)
  BY <1>3, <1>4, <1>6 DEF LegalRow, BeginAfterLapse, CanAttempt, UnresolvedStates
<1>8. /\ Sound(Append(mid, open))
      /\ Replay(Append(mid, open)) = ApplyRow(Replay(mid), open)
      /\ ReplayUsed(Append(mid, open)) = used \cup {d}
  BY <1>3, <1>4, <1>5, <1>7, SoundAppend
<1>9. /\ file' = Append(mid, open)
      /\ records' = ApplyRow(ApplyRow(records, lapse), open)
      /\ used' = used \cup {d}
      /\ UNCHANGED <<intact, status>>
  BY <1>4 DEF BeginAfterLapse, CommitBoth
<1>10. Sound(file') /\ records' = Replay(file') /\ used' = ReplayUsed(file')
  BY <1>3, <1>8, <1>9
<1>11. MemoryIsReplay'
  BY <1>10 DEF MemoryIsReplay
<1>12. TypeOK'
  BY <1>9, <1>10 DEF LedgerInv, TypeOK, Sound
<1>13. QED
  BY <1>10, <1>11, <1>12 DEF LedgerInv

(* begin() with no lapsed approval in the way preserves the invariant. *)
LEMMA BeginFreshInv ==
  ASSUME LedgerInv, NEW i \in Intents, NEW d \in Decisions, NEW a \in Approvals,
         NEW t \in Times, BeginFresh(i, d, a, t)
  PROVE  LedgerInv'
<1> DEFINE open == OpeningRow(i, d, a, t)
<1>1. records = Replay(file) /\ used = ReplayUsed(file)
  BY DEF LedgerInv, MemoryIsReplay, BeginFresh
<1>2. open = [intent |-> i, decision |-> d, state |-> "approved", at |-> t,
              approval |-> a, amount |-> 0]
  BY DEF OpeningRow, Row
<1>3. open \in Rows
  BY <1>2 DEF Rows, States, UnresolvedStates
<1>4. LegalRow(file, open)
  BY <1>1, <1>2 DEF LegalRow, BeginFresh, CanAttempt
<1>5. QED
  BY <1>3, <1>4, CommitInv DEF BeginFresh

(* complete() preserves the invariant, whatever verdict and amount it is given. *)
LEMMA CompleteInv ==
  ASSUME LedgerInv, NEW i \in Intents, NEW ok \in BOOLEAN, NEW sameRule \in BOOLEAN,
         NEW amount \in Amounts, NEW t \in Times,
         Complete(i, ok, sameRule, amount, t)
  PROVE  LedgerInv'
<1> DEFINE to == CompletionState(records[i], ok, sameRule, amount)
           r  == [TransitionRow(records, i, to, t) EXCEPT !.amount = amount]
<1>1. /\ to # "signing"
      /\ to = "completed" => amount <= records[i].approval.cap
  BY DEF CompletionState
<1>2. r \in Rows /\ LegalRow(file, r)
  BY <1>1, TransitionRowLegal DEF Complete
<1>3. QED
  BY <1>2, CommitInv DEF Complete

(* One step of the specification preserves the invariant. *)
LEMMA NextInv == LedgerInv /\ [Next]_vars => LedgerInv'
<1> SUFFICES ASSUME LedgerInv, [Next]_vars
             PROVE  LedgerInv'
  OBVIOUS
<1>1. ASSUME NEW i \in Intents, NEW t \in Times, Operation(i, t)
      PROVE  LedgerInv'
  <2>1. ASSUME NEW d \in Decisions, NEW a \in Approvals, Begin(i, d, a, t)
        PROVE  LedgerInv'
    BY <2>1, BeginFreshInv, BeginAfterLapseInv DEF Begin
  <2>2. CASE Refuse(i, t)
    BY <2>2, TransitionInv DEF Refuse
  <2>3. CASE Lapse(i, t)
    BY <2>3, TransitionInv DEF Lapse
  <2>4. CASE MarkSigning(i, t)
    BY <2>4, TransitionInv DEF MarkSigning
  <2>5. CASE MarkUnknown(i, t)
    BY <2>5, TransitionInv DEF MarkUnknown
  <2>6. ASSUME NEW ok \in BOOLEAN, NEW sameRule \in BOOLEAN, NEW amount \in Amounts,
               Complete(i, ok, sameRule, amount, t)
        PROVE  LedgerInv'
    BY <2>6, CompleteInv
  <2>7. CASE MarkNotSettled(i, t)
    BY <2>7, TransitionInv DEF MarkNotSettled
  <2>8. QED
    BY <1>1, <2>1, <2>2, <2>3, <2>4, <2>5, <2>6, <2>7 DEF Operation
<1>2. CASE AppendFails
  BY <1>2 DEF AppendFails, LedgerInv, TypeOK, MemoryIsReplay
<1>3. CASE Crash
  BY <1>3 DEF Crash, LedgerInv, TypeOK, MemoryIsReplay, Records
<1>4. CASE Open
  <2>1. Replay(file) \in [Intents -> Records]
    BY DEF LedgerInv, Sound
  <2>2. ReplayUsed(file) \subseteq Decisions
    <3>1. file \in Seq(Rows) /\ DOMAIN file = 1 .. Len(file)
      BY LenProperties DEF LedgerInv, Sound
    <3>2. \A k \in DOMAIN file : file[k] \in Rows
      BY <3>1, ElementOfSeq
    <3>3. QED
      BY <3>2 DEF ReplayUsed, DecisionsIn, Rows
  <2>3. QED
    BY <1>4, <2>1, <2>2 DEF Open, LedgerInv, TypeOK, MemoryIsReplay
<1>5. CASE UNCHANGED vars
  BY <1>5 DEF vars, LedgerInv, TypeOK, MemoryIsReplay
<1>6. QED
  BY <1>1, <1>2, <1>3, <1>4, <1>5 DEF Next

(* The inductive invariant of createLedger() and createFileOutcomeLedger() holds
   in every reachable state; every safety theorem below reads off a part of it. *)
THEOREM Invariance == Spec => []LedgerInv
BY InitInv, NextInv, PTL DEF Spec

(* The ledger's state has the types its module declares: the file only holds
   rows the operations write, the memory only records. *)
THEOREM TypeCorrect == Spec => []TypeOK
BY Invariance, PTL DEF LedgerInv

(* A restart always rebuilds the memory the process had: outcome-ledger.ts
   commit() and createFileOutcomeLedger(). *)
THEOREM RestartRebuilds == Spec => []MemoryIsReplay
BY Invariance, PTL DEF LedgerInv

(* The loop of createFileOutcomeLedger over the rows on disk, one at a time,
   rebuilds what the file says as a whole, for files of any length. *)
THEOREM LoopRebuilds == Spec => []ReplayIsFold
<1>1. LedgerInv => ReplayIsFold
  BY LoopReplays DEF LedgerInv, ReplayIsFold, ReplayedOf
<1>2. QED
  BY <1>1, Invariance, PTL

(* No second signature on an intent whose payment is unresolved, for any
   number of attempts, restarts and failed appends. *)
THEOREM NoSecondPayment == Spec => []OneUnresolvedPayment
<1>1. LedgerInv => OneUnresolvedPayment
  BY DEF LedgerInv, Sound, OneUnresolvedPayment
<1>2. QED
  BY <1>1, Invariance, PTL

(* No decision id opens two attempts or backs two signatures. *)
THEOREM SingleUse == Spec => []ApprovalSingleUse
<1>1. LedgerInv => ApprovalSingleUse
  BY DEF LedgerInv, Sound, ApprovalSingleUse
<1>2. QED
  BY <1>1, Invariance, PTL

(* A refused or expired approval never signs. *)
THEOREM RefusalIsFinal == Spec => []RefusedNeverSigned
<1>1. LedgerInv => RefusedNeverSigned
  BY DEF LedgerInv, Sound, RefusedNeverSigned
<1>2. QED
  BY <1>1, Invariance, PTL

(* The signer is reached only before its own approval's expiry. *)
THEOREM SignsInTime == Spec => []SignedBeforeExpiry
<1>1. LedgerInv => SignedBeforeExpiry
  BY DEF LedgerInv, Sound, SignedBeforeExpiry
<1>2. QED
  BY <1>1, Invariance, PTL

(* A completed outcome stays within its own approval's cap. *)
THEOREM CompletesInCap == Spec => []CompletedWithinApproval
<1>1. LedgerInv => CompletedWithinApproval
  BY DEF LedgerInv, Sound, CompletedWithinApproval
<1>2. QED
  BY <1>1, Invariance, PTL

-----------------------------------------------------------------------------
(***************************************************************************)
(* The ledger implements OnePayment.  A row changes the abstract state     *)
(* only when it is a signature, which is Pay, or settles one, which is     *)
(* Establish; the argument needs the file to be sound.                     *)
(***************************************************************************)
LEMMA RowInPromise ==
  ASSUME NEW f, Sound(f), NEW r \in Rows, LegalRow(f, r)
  PROVE  LET g   == Append(f, r)
             i   == r.intent
             out == OutstandingIn(f)
         IN  /\ r.state = "signing" =>
                  /\ out[i] = NoDecision
                  /\ r.decision \notin DecisionsIn(f, {"signing"})
                  /\ OutstandingIn(g) = [out EXCEPT ![i] = r.decision]
                  /\ DecisionsIn(g, {"signing"}) =
                       DecisionsIn(f, {"signing"}) \cup {r.decision}
                  /\ DecisionsIn(g, SettledStates) = DecisionsIn(f, SettledStates)
             /\ r.state \in SettledStates =>
                  /\ out[i] = r.decision
                  /\ r.decision \in Decisions
                  /\ OutstandingIn(g) = [out EXCEPT ![i] = NoDecision]
                  /\ DecisionsIn(g, {"signing"}) = DecisionsIn(f, {"signing"})
                  /\ DecisionsIn(g, SettledStates) =
                       DecisionsIn(f, SettledStates) \cup {out[i]}
             /\ r.state \notin {"signing"} \cup SettledStates =>
                  /\ OutstandingIn(g) = out
                  /\ DecisionsIn(g, {"signing"}) = DecisionsIn(f, {"signing"})
                  /\ DecisionsIn(g, SettledStates) = DecisionsIn(f, SettledStates)
<1> DEFINE g == Append(f, r)
           n == Len(f)
           i == r.intent
           rec == Replay(f)[i]
           out == OutstandingIn(f)
<1>1. /\ DOMAIN f = 1 .. n /\ n \in Nat
      /\ DOMAIN g = 1 .. (n + 1)
      /\ \A k \in 1 .. n : g[k] = f[k]
      /\ g[n + 1] = r
      /\ i \in Intents
  BY AppendProperties, LenProperties DEF Rows, Sound
<1>2. /\ Replay(g) = ApplyRow(Replay(f), r)
      /\ Replay(f) \in [Intents -> Records]
  BY SoundAppend DEF Sound
<1> HIDE DEF g
<1>3. /\ \A j \in Intents : j # i => Replay(g)[j] = Replay(f)[j]
      /\ Replay(g)[i].state = r.state
      /\ r.state # "approved" =>
           Replay(g)[i].decision = rec.decision /\ rec.state # "none"
      /\ DOMAIN Replay(g) = Intents
  BY <1>1, <1>2 DEF ApplyRow, Records, NoRecord, LegalRow, LEGAL
<1>4. /\ \A j \in Intents : j # i => OutstandingIn(g)[j] = out[j]
      /\ OutstandingIn(g)[i] = IF r.state \in PayingStates
                                 THEN rec.decision ELSE NoDecision
      /\ out[i] = IF rec.state \in PayingStates THEN rec.decision ELSE NoDecision
      /\ out = [j \in Intents |-> out[j]]
      /\ OutstandingIn(g) = [j \in Intents |-> OutstandingIn(g)[j]]
  BY <1>1, <1>3 DEF OutstandingIn, PayingStates
<1>5. ASSUME NEW S
      PROVE  DecisionsIn(g, S) = IF r.state \in S
                                   THEN DecisionsIn(f, S) \cup {r.decision}
                                   ELSE DecisionsIn(f, S)
  BY <1>1 DEF DecisionsIn
<1> HIDE DEF out
<1>6. ASSUME r.state = "signing"
      PROVE  /\ out[i] = NoDecision
             /\ r.decision \notin DecisionsIn(f, {"signing"})
             /\ OutstandingIn(g) = [out EXCEPT ![i] = r.decision]
  <2>1. rec.state = "approved" /\ r.decision = rec.decision
    BY <1>6 DEF LegalRow, LEGAL, SettledStates
  <2>2. r.decision \notin DecisionsIn(f, {"signing"})
    BY <1>1, <2>1 DEF Sound, ApprovedIsFresh, DecisionsIn
  <2>3. QED
    BY <1>1, <1>4, <1>6, <2>1, <2>2 DEF PayingStates
<1>7. ASSUME r.state \in SettledStates
      PROVE  /\ out[i] = r.decision
             /\ r.decision \in Decisions
             /\ OutstandingIn(g) = [out EXCEPT ![i] = NoDecision]
  <2>1. rec.state \in PayingStates /\ r.decision = rec.decision
    BY <1>7 DEF LegalRow, LEGAL, SettledStates, PayingStates
  <2>2. QED
    BY <1>1, <1>4, <1>7, <2>1 DEF PayingStates, SettledStates, Rows
<1>8. ASSUME r.state \notin {"signing"} \cup SettledStates
      PROVE  OutstandingIn(g) = out
  <2>1. OutstandingIn(g)[i] = out[i]
    <3>1. CASE r.state = "unknown"
      <4>1. rec.state = "signing"
        BY <3>1 DEF LegalRow, LEGAL, SettledStates
      <4>2. QED
        BY <1>4, <3>1, <4>1 DEF PayingStates
    <3>2. CASE r.state # "unknown"
      <4>1. r.state \in {"approved", "refused", "expired"}
        BY <1>8, <3>2 DEF Rows, States, UnresolvedStates, TerminalStates, SettledStates
      <4>2. rec.state \notin PayingStates
        BY <4>1 DEF LegalRow, LEGAL, SettledStates, PayingStates, UnresolvedStates
      <4>3. QED
        BY <1>4, <4>1, <4>2 DEF PayingStates
    <3>3. QED
      BY <3>1, <3>2
  <2>2. \A j \in Intents : OutstandingIn(g)[j] = out[j]
    BY <1>4, <2>1
  <2>3. QED
    BY <1>4, <2>2
<1>9. "signing" \notin SettledStates
  BY DEF SettledStates
<1>10. QED
  BY <1>5, <1>6, <1>7, <1>8, <1>9 DEF g, out

(* Every commit of a legal row is a payment, an established outcome, or
   nothing to the abstract specification. *)
LEMMA CommitInPromise ==
  ASSUME Sound(file), NEW r \in Rows, LegalRow(file, r), file' = Append(file, r)
  PROVE  [Promise!Next]_(Promise!vars)
<1> DEFINE i == r.intent
<1>1. /\ Outstanding = OutstandingIn(file) /\ Outstanding' = OutstandingIn(file')
      /\ Paid = DecisionsIn(file, {"signing"})
      /\ Paid' = DecisionsIn(file', {"signing"})
      /\ Established = DecisionsIn(file, SettledStates)
      /\ Established' = DecisionsIn(file', SettledStates)
      /\ i \in Intents /\ r.decision \in Decisions
  BY DEF Outstanding, Paid, Established, Rows
<1>2. CASE r.state = "signing"
  <2>1. Promise!Pay(i, r.decision)
    BY <1>1, <1>2, RowInPromise DEF Promise!Pay
  <2>2. QED
    BY <1>1, <2>1 DEF Promise!Next
<1>3. CASE r.state \in SettledStates
  <2>1. Promise!Establish(i)
    BY <1>1, <1>3, RowInPromise, NoDecisionAssumption DEF Promise!Establish
  <2>2. QED
    BY <1>1, <2>1 DEF Promise!Next
<1>4. CASE r.state \notin {"signing"} \cup SettledStates
  BY <1>1, <1>4, RowInPromise DEF Promise!vars
<1>5. QED
  BY <1>2, <1>3, <1>4

(* Every step of the ledger is a step of OnePayment or changes nothing in it. *)
LEMMA StepInPromise == LedgerInv /\ [Next]_vars => [Promise!Next]_(Promise!vars)
<1> SUFFICES ASSUME LedgerInv, [Next]_vars
             PROVE  [Promise!Next]_(Promise!vars)
  OBVIOUS
<1>1. Sound(file)
  BY DEF LedgerInv
<1>2. ASSUME UNCHANGED file
      PROVE  UNCHANGED Promise!vars
  BY <1>2 DEF Promise!vars, Outstanding, Paid, Established
<1>3. ASSUME NEW i \in Intents, NEW t \in Times, NEW s, Transition(i, s, t),
             s = "signing" => t < records[i].approval.expiresAt,
             s # "completed"
      PROVE  [Promise!Next]_(Promise!vars)
  <2> DEFINE r == TransitionRow(records, i, s, t)
  <2>1. [r EXCEPT !.amount = 0] = r
    BY DEF TransitionRow, Row
  <2>2. r \in Rows /\ LegalRow(file, r) /\ file' = Append(file, r)
    BY <1>3, <2>1, TransitionRowLegal DEF Transition, Commit
  <2>3. QED
    BY <1>1, <2>2, CommitInPromise
<1>4. ASSUME NEW i \in Intents, NEW t \in Times, Operation(i, t)
      PROVE  [Promise!Next]_(Promise!vars)
  <2>1. ASSUME NEW d \in Decisions, NEW a \in Approvals, BeginFresh(i, d, a, t)
        PROVE  [Promise!Next]_(Promise!vars)
    <3> DEFINE open == OpeningRow(i, d, a, t)
    <3>1. open = [intent |-> i, decision |-> d, state |-> "approved", at |-> t,
                  approval |-> a, amount |-> 0]
      BY DEF OpeningRow, Row
    <3>2. open \in Rows
      BY <3>1 DEF Rows, States, UnresolvedStates
    <3>3. LegalRow(file, open) /\ file' = Append(file, open)
      BY <2>1, <3>1
      DEF LegalRow, BeginFresh, CanAttempt, Commit, LedgerInv, MemoryIsReplay
    <3>4. QED
      BY <1>1, <3>2, <3>3, CommitInPromise
  <2>2. ASSUME NEW d \in Decisions, NEW a \in Approvals, BeginAfterLapse(i, d, a, t)
        PROVE  UNCHANGED Promise!vars
    <3> DEFINE lapse == TransitionRow(records, i, "expired", t)
               open  == OpeningRow(i, d, a, t)
               mid   == Append(file, lapse)
    <3>1. records = Replay(file) /\ used = ReplayUsed(file) /\ status = "up"
      BY <2>2 DEF LedgerInv, MemoryIsReplay, BeginAfterLapse
    <3>2. lapse \in Rows /\ LegalRow(file, lapse) /\ lapse.state = "expired"
      <4>1. [lapse EXCEPT !.amount = 0] = lapse /\ lapse.state = "expired"
        BY DEF TransitionRow, Row
      <4>2. QED
        BY <2>2, <3>1, <4>1, TransitionRowLegal DEF BeginAfterLapse
    <3>3. open = [intent |-> i, decision |-> d, state |-> "approved", at |-> t,
                  approval |-> a, amount |-> 0]
      BY DEF OpeningRow, Row
    <3>4. open \in Rows /\ open.state = "approved"
      BY <3>3 DEF Rows, States, UnresolvedStates
    <3>5. Sound(mid) /\ Replay(mid) = ApplyRow(records, lapse) /\ ReplayUsed(mid) = used
      BY <1>1, <3>1, <3>2, SoundAppend
    <3>6. LegalRow(mid, open)
      <4>1. Replay(mid)[i].state = "expired"
        <5>1. records[i] \in Records /\ records \in [Intents -> Records]
          BY DEF LedgerInv, TypeOK
        <5>2. ApplyRow(records, lapse)[i] = [records[i] EXCEPT !.state = "expired"]
          BY <5>1 DEF ApplyRow, TransitionRow, Row
        <5>3. QED
          BY <3>5, <5>1, <5>2 DEF Records, NoRecord
      <4>2. QED
        BY <2>2, <3>3, <3>5, <4>1
        DEF LegalRow, BeginAfterLapse, CanAttempt, UnresolvedStates
    <3>7. file' = Append(mid, open)
      BY <2>2 DEF BeginAfterLapse, CommitBoth
    <3>8. {"approved", "expired"} \cap ({"signing"} \cup SettledStates) = {}
      BY DEF SettledStates
    <3>9. /\ OutstandingIn(mid) = OutstandingIn(file)
          /\ DecisionsIn(mid, {"signing"}) = DecisionsIn(file, {"signing"})
          /\ DecisionsIn(mid, SettledStates) = DecisionsIn(file, SettledStates)
      BY <1>1, <3>2, <3>8, RowInPromise
    <3>10. /\ OutstandingIn(file') = OutstandingIn(mid)
           /\ DecisionsIn(file', {"signing"}) = DecisionsIn(mid, {"signing"})
           /\ DecisionsIn(file', SettledStates) = DecisionsIn(mid, SettledStates)
      BY <3>4, <3>5, <3>6, <3>7, <3>8, RowInPromise
    <3>11. QED
      BY <3>9, <3>10 DEF Promise!vars, Outstanding, Paid, Established
  <2>3. ASSUME NEW ok \in BOOLEAN, NEW sameRule \in BOOLEAN, NEW amount \in Amounts,
               Complete(i, ok, sameRule, amount, t)
        PROVE  [Promise!Next]_(Promise!vars)
    <3> DEFINE to == CompletionState(records[i], ok, sameRule, amount)
               r  == [TransitionRow(records, i, to, t) EXCEPT !.amount = amount]
    <3>1. /\ to # "signing"
          /\ to = "completed" => amount <= records[i].approval.cap
      BY DEF CompletionState
    <3>2. r \in Rows /\ LegalRow(file, r) /\ file' = Append(file, r)
      BY <2>3, <3>1, TransitionRowLegal DEF Complete, Commit
    <3>3. QED
      BY <1>1, <3>2, CommitInPromise
  <2>4. CASE MarkSigning(i, t)
    BY <2>4, <1>3 DEF MarkSigning
  <2>5. CASE Refuse(i, t) \/ Lapse(i, t) \/ MarkUnknown(i, t) \/ MarkNotSettled(i, t)
    BY <2>5, <1>3 DEF Refuse, Lapse, MarkUnknown, MarkNotSettled
  <2>6. QED
    BY <1>4, <2>1, <2>2, <2>3, <2>4, <2>5 DEF Operation, Begin
<1>5. CASE AppendFails \/ Crash \/ Open \/ UNCHANGED vars
  BY <1>2, <1>5 DEF AppendFails, Crash, Open, vars
<1>6. QED
  BY <1>4, <1>5 DEF Next

(* An empty file maps to the initial state of OnePayment. *)
LEMMA InitInPromise == Init => Promise!Init
<1> SUFFICES ASSUME Init
             PROVE  Promise!Init
  OBVIOUS
<1>1. file = <<>> /\ DOMAIN file = {}
  BY DEF Init
<1>2. \A i \in Intents : Replay(file)[i].state = "none"
  <2>1. Replay(file) = [i \in Intents |-> NoRecord]
    BY <1>1, EmptyIsSound
  <2>2. NoRecord.state = "none"
    BY DEF NoRecord
  <2>3. QED
    BY <2>1, <2>2
<1>3. Outstanding = [i \in Intents |-> NoDecision]
  <2>1. "none" \notin PayingStates
    BY DEF PayingStates
  <2>2. \A i \in Intents : Replay(file)[i].state \notin PayingStates
    BY <1>2, <2>1
  <2>3. QED
    BY <2>2, Zenon DEF Outstanding, OutstandingIn
<1>4. Paid = {} /\ Established = {}
  BY <1>1 DEF Paid, Established, DecisionsIn
<1>5. QED
  BY <1>3, <1>4 DEF Promise!Init

(* The ledger keeps the promise of OnePayment: one outstanding payment per
   intent, resolved only by an established outcome, one payment per approval,
   across every crash, damaged file and replay. *)
THEOREM ImplementsOnePayment == Spec => KeepsPromise
BY InitInPromise, StepInPromise, Invariance, PTL DEF Spec, KeepsPromise, Promise!Spec
=============================================================================
