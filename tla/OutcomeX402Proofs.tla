-------------------------- MODULE OutcomeX402Proofs --------------------------
(***************************************************************************)
(* The safety of the outcome ledger on the x402 round trip, for any number *)
(* of concurrent calls, intents and operations: while the operator leaves  *)
(* calls in flight alone, no signature passes an unresolved one.           *)
(***************************************************************************)
EXTENDS OutcomeX402, TLAPS

Signed == {"signing", "sent", "settling", "validating"}

(* Where a call is and what became of its authorisation go together: nothing
   is signed before the checks have passed, a signer is under way only in its
   own call, and nobody establishes the outcome of a call that still waits. *)
PlacesMatchChain ==
  \A c \in Calls :
    /\ pc[c] \in {"idle", "checking"} => chain[c] = "none" /\ c \notin resolved
    /\ pc[c] \in Signed => chain[c] # "none" /\ c \notin resolved
    /\ chain[c] = "local" <=> pc[c] = "signing"
    /\ pc[c] = "validating" => Succeeded(TermsOf[intent[c]])

\* open() lets no two attempts of one operation be unresolved.
OneUnresolved ==
  \A i, j \in Intents :
    i # j /\ SameOperation(i, j) =>
      ~(records[i].state \in UnresolvedStates /\ records[j].state \in UnresolvedStates)

\* Some call on the intent signed for every record that says a signer may have run.
PayerKnown ==
  \A i \in Intents :
    records[i].state \in PayingStates \cup SettledStates =>
      payer[i] \in Calls /\ intent[payer[i]] = i

\* What the records say of the signatures.
Settling ==
  OneUnresolved /\ PayerKnown /\ OutstandingIsRecorded /\ SettledIsTrue

Inv == TypeOK /\ PlacesMatchChain /\ Settling

-----------------------------------------------------------------------------
\* A ledger transition touches one record, and that one only when it is legal.
LEMMA MovedIs ==
  ASSUME NEW recs \in [Intents -> Records \cup {NoRecord}],
         NEW i \in Intents, NEW s \in States
  PROVE  /\ Moved(recs, i, s) \in [Intents -> Records \cup {NoRecord}]
         /\ \A j \in Intents \ {i} : Moved(recs, i, s)[j] = recs[j]
         /\ <<recs[i].state, s>> \in LEGAL => Moved(recs, i, s)[i].state = s
         /\ <<recs[i].state, s>> \notin LEGAL => Moved(recs, i, s)[i] = recs[i]
<1>1. CASE <<recs[i].state, s>> \in LEGAL
  <2>1. recs[i] \in Records
    BY <1>1 DEF LEGAL, NoRecord, SettledStates
  <2>2. [recs[i] EXCEPT !.state = s] \in Records
    BY <2>1 DEF Records
  <2>3. [recs[i] EXCEPT !.state = s].state = s
    BY <2>1 DEF Records
  <2>4. QED
    BY <1>1, <2>2, <2>3 DEF Moved, WithState
<1>2. CASE <<recs[i].state, s>> \notin LEGAL
  BY <1>2 DEF Moved
<1>3. QED
  BY <1>1, <1>2

\* Lapsing a set of approvals records exactly these as expired.
LEMMA LapseAllIs ==
  ASSUME NEW recs \in [Intents -> Records \cup {NoRecord}], NEW J,
         \A j \in Intents : j \in J => recs[j].state = "approved"
  PROVE  /\ LapseAll(recs, J) \in [Intents -> Records \cup {NoRecord}]
         /\ \A j \in Intents :
              /\ j \in J => LapseAll(recs, J)[j].state = "expired"
              /\ j \notin J => LapseAll(recs, J)[j] = recs[j]
<1>1. ASSUME NEW j \in Intents, j \in J
      PROVE  /\ [recs[j] EXCEPT !.state = "expired"] \in Records
             /\ [recs[j] EXCEPT !.state = "expired"].state = "expired"
  <2>1. recs[j] \in Records
    BY <1>1 DEF NoRecord
  <2>2. QED
    BY <2>1 DEF Records, States, UnresolvedStates, TerminalStates
<1>2. QED
  BY <1>1 DEF LapseAll, WithState

-----------------------------------------------------------------------------
\* What a record may go through without a signature and without an outcome.
Quiet == {<<"approved", "refused">>, <<"approved", "expired">>, <<"signing", "unknown">>}

RecordsQuiet ==
  \A i \in Intents :
    \/ records'[i].state = records[i].state
    \/ <<records[i].state, records'[i].state>> \in Quiet

\* No authorisation appears, disappears or changes its fate once it has one.
ChainQuiet ==
  \A c \in Calls :
    /\ chain'[c] = "none" <=> chain[c] = "none"
    /\ chain[c] \in {"paid", "void"} => chain'[c] = chain[c]

\* A transaction that succeeded has succeeded for good.
LEMMA SucceededStays ==
  ASSUME NEW t, Succeeded(t), UNCHANGED intent,
         \A c \in Calls : chain[c] = "paid" => chain'[c] = "paid"
  PROVE  Succeeded(t)'
BY DEF Succeeded

(* A step that neither signs nor establishes an outcome keeps what the records
   say of the signatures. *)
LEMMA QuietStep ==
  ASSUME TypeOK, TypeOK', Settling, RecordsQuiet, ChainQuiet,
         UNCHANGED <<intent, payer, resolved>>
  PROVE  Settling'
<1> USE DEF Settling, RecordsQuiet, ChainQuiet, Quiet
<1>1. OneUnresolved'
  <2>1. \A i \in Intents :
          records'[i].state \in UnresolvedStates => records[i].state \in UnresolvedStates
    BY DEF UnresolvedStates
  <2>2. QED
    BY <2>1 DEF OneUnresolved, SameOperation
<1>2. PayerKnown'
  <2>1. \A i \in Intents :
          records'[i].state \in PayingStates \cup SettledStates
            => records[i].state \in PayingStates \cup SettledStates
    BY DEF PayingStates, SettledStates
  <2>2. QED
    BY <2>1 DEF PayerKnown
<1>3. OutstandingIsRecorded'
  <2>1. SUFFICES ASSUME NEW c \in Calls, c \in Outstanding'
                 PROVE  /\ records'[intent[c]].state \in PayingStates
                        /\ payer[intent[c]] = c
    BY DEF OutstandingIsRecorded, Outstanding
  <2>2. c \in Outstanding
    BY <2>1 DEF Outstanding
  <2>3. /\ intent[c] \in Intents
        /\ records[intent[c]].state \in PayingStates
        /\ payer[intent[c]] = c
    BY <2>2 DEF OutstandingIsRecorded, TypeOK
  <2>4. QED
    BY <2>3 DEF PayingStates
<1>4. SettledIsTrue'
  <2>1. SUFFICES ASSUME NEW i \in Intents, records'[i].state \in SettledStates
                 PROVE  /\ records'[i].state \in {"completed", "paid_incomplete"}
                             => Succeeded(TermsOf[i])'
                        /\ records'[i].state = "not_settled" => chain'[payer[i]] = "void"
    BY DEF SettledIsTrue, SettledStates
  <2>2. records'[i].state = records[i].state /\ payer[i] \in Calls
    BY <2>1 DEF PayerKnown, SettledStates
  <2>3. Succeeded(TermsOf[i]) => Succeeded(TermsOf[i])'
    BY SucceededStays
  <2>4. QED
    BY <2>1, <2>2, <2>3 DEF SettledIsTrue
<1>5. QED
  BY <1>1, <1>2, <1>3, <1>4

\* The legal moves out of the states the code moves a record from.
LEMMA LegalMoves ==
  /\ \A s : <<s, "refused">> \in LEGAL => s = "approved"
  /\ \A s : <<s, "expired">> \in LEGAL => s = "approved"
  /\ \A s : <<s, "unknown">> \in LEGAL => s = "signing"
  /\ \A s : <<s, "signing">> \in LEGAL <=> s = "approved"
  /\ \A s, to : to \in SettledStates => (<<s, to>> \in LEGAL <=> s \in PayingStates)
BY DEF LEGAL, PayingStates, SettledStates

\* A refusal, a lapse and an unknown answer are quiet.
LEMMA QuietMove ==
  ASSUME TypeOK, NEW i \in Intents, NEW s \in {"refused", "expired", "unknown"},
         records' = Moved(records, i, s)
  PROVE  RecordsQuiet /\ records' \in [Intents -> Records \cup {NoRecord}]
<1>1. s \in States /\ records \in [Intents -> Records \cup {NoRecord}]
  BY DEF States, UnresolvedStates, TerminalStates, TypeOK
<1>2. /\ \A j \in Intents \ {i} : records'[j] = records[j]
      /\ <<records[i].state, s>> \in LEGAL => records'[i].state = s
      /\ <<records[i].state, s>> \notin LEGAL => records'[i] = records[i]
      /\ records' \in [Intents -> Records \cup {NoRecord}]
  BY <1>1, MovedIs
<1>3. <<records[i].state, s>> \in LEGAL => <<records[i].state, s>> \in Quiet
  BY LegalMoves DEF Quiet
<1>4. QED
  BY <1>2, <1>3 DEF RecordsQuiet

-----------------------------------------------------------------------------
\* open() blocked: some lapsed approvals are recorded as expired.
LEMMA OpenBlockedInv ==
  ASSUME Inv, NEW c \in Calls, Open(c), OpenBlocked(c)
  PROVE  Inv'
<1> USE DEF Inv
<1>1. PICK J \in SUBSET LapsedOthers(intent[c]) : records' = LapseAll(records, J)
  BY DEF OpenBlocked
<1>2. \A j \in Intents : j \in J => records[j].state = "approved"
  BY DEF LapsedOthers, ApprovedLapsed
<1>3. /\ records' \in [Intents -> Records \cup {NoRecord}]
      /\ RecordsQuiet
  BY <1>1, <1>2, LapseAllIs DEF RecordsQuiet, Quiet, TypeOK
<1>4. TypeOK' /\ PlacesMatchChain'
  BY <1>3 DEF Open, OpenBlocked, Ends, TypeOK, Places, InFlight, PlacesMatchChain, Succeeded, Signed
<1>5. ChainQuiet
  BY DEF Open, ChainQuiet
<1>6. QED
  BY <1>3, <1>4, <1>5, QuietStep DEF Open

(* open() passing: every other unresolved attempt of the operation has lapsed
   and is recorded so, the intent's own record admits an attempt, and then it
   is the operation's only unresolved one. *)
LEMMA OpenBeginsInv ==
  ASSUME Inv, NEW c \in Calls, Open(c), OpenBegins(c)
  PROVE  Inv'
<1> USE DEF Inv
<1> DEFINE i      == intent[c]
           lapsed == IF ApprovedLapsed(records[i], now) THEN {i} ELSE {}
           J      == LapsedOthers(i) \cup lapsed
           recs   == LapseAll(records, J)
           opened == [state |-> "approved", decision |-> c,
                      approval |-> [expiresAt |-> now + TTL, cap |-> 1]]
<1>1. i \in Intents /\ now \in Nat /\ TTL \in Nat
  BY ClockAssumption DEF TypeOK
<1>2. \A j \in Intents : j \in J => records[j].state = "approved"
  BY DEF LapsedOthers, ApprovedLapsed
<1>3. /\ recs \in [Intents -> Records \cup {NoRecord}]
      /\ \A j \in Intents :
           /\ j \in J => recs[j].state = "expired"
           /\ j \notin J => recs[j] = records[j]
  BY <1>2, LapseAllIs DEF TypeOK
<1>4. opened \in Records
  BY <1>1 DEF Records, States, UnresolvedStates
<1>5. OtherUnresolved(i) = LapsedOthers(i)
  BY DEF OpenBegins
<1>6. ChainQuiet
  BY DEF Open, ChainQuiet
<1> HIDE DEF recs
<1>7. CASE CanAttempt(recs[i], {}, c, now)
  <2>1. records' = [recs EXCEPT ![i] = opened] /\ Goes(c, "checking")
    BY <1>7 DEF OpenBegins, recs
  <2>2. /\ records'[i] = opened
        /\ \A j \in Intents \ {i} : records'[j] = recs[j]
        /\ records' \in [Intents -> Records \cup {NoRecord}]
    BY <2>1, <1>1, <1>3, <1>4
  <2>3. records[i].state \notin PayingStates
    <3>1. records[i].state \in PayingStates => i \notin J
      BY <1>1, <1>2 DEF PayingStates
    <3>2. QED
      BY <1>1, <1>3, <1>7, <3>1 DEF CanAttempt, ApprovedLapsed, PayingStates, UnresolvedStates
  <2>4. TypeOK' /\ PlacesMatchChain'
    BY <2>1, <2>2 DEF Open, Goes, TypeOK, Places, InFlight, PlacesMatchChain, Succeeded, Signed
  <2>5. OneUnresolved'
    <3>1. \A j \in Intents \ {i} :
            /\ records'[j].state \in UnresolvedStates => records[j].state \in UnresolvedStates
            /\ SameOperation(i, j) => records'[j].state \notin UnresolvedStates
      <4>1. SUFFICES ASSUME NEW j \in Intents \ {i}
            PROVE /\ records'[j].state \in UnresolvedStates => records[j].state \in UnresolvedStates
                  /\ SameOperation(i, j) => records'[j].state \notin UnresolvedStates
        OBVIOUS
      <4>2. CASE j \in J
        BY <2>2, <1>3, <4>2 DEF UnresolvedStates
      <4>3. CASE j \notin J
        <5>1. records'[j] = records[j]
          BY <2>2, <1>3, <4>3
        <5>2. SameOperation(i, j) => records[j].state \notin UnresolvedStates
          BY <1>5, <4>3 DEF OtherUnresolved
        <5>3. QED
          BY <5>1, <5>2
      <4>4. QED
        BY <4>2, <4>3
    <3>2. QED
      BY <3>1 DEF OneUnresolved, Settling, SameOperation
  <2>6. \A j \in Intents :
          records'[j].state \in PayingStates \cup SettledStates
            => records'[j] = records[j]
    BY <2>2, <1>3 DEF opened, PayingStates, SettledStates
  <2>7. PayerKnown' /\ SettledIsTrue'
    <3>1. UNCHANGED <<intent, chain, payer>>
      BY DEF Open
    <3>2. PayerKnown'
      BY <2>6, <3>1 DEF PayerKnown, Settling
    <3>3. \A j \in Intents : Succeeded(TermsOf[j]) => Succeeded(TermsOf[j])'
      BY <3>1, SucceededStays
    <3>4. SettledIsTrue'
      BY <2>6, <3>1, <3>3 DEF SettledIsTrue, Settling, SettledStates
    <3>5. QED
      BY <3>2, <3>4
  <2>8. OutstandingIsRecorded'
    <3>1. \A j \in Intents : records[j].state \in PayingStates => records'[j] = records[j]
      BY <2>2, <2>3, <1>2, <1>3 DEF PayingStates
    <3>2. QED
      BY <3>1 DEF OutstandingIsRecorded, Outstanding, Settling, Open, TypeOK
  <2>9. QED
    BY <2>4, <2>5, <2>7, <2>8 DEF Settling
<1>8. CASE ~CanAttempt(recs[i], {}, c, now)
  <2>1. records' = recs /\ Ends(c)
    BY <1>8 DEF OpenBegins, recs
  <2>2. RecordsQuiet
    BY <2>1, <1>2, <1>3 DEF RecordsQuiet, Quiet
  <2>3. TypeOK' /\ PlacesMatchChain'
    BY <2>1, <1>3 DEF Open, Ends, TypeOK, Places, InFlight, PlacesMatchChain, Succeeded, Signed
  <2>4. QED
    BY <2>2, <2>3, <1>6, QuietStep DEF Open
<1>9. QED
  BY <1>7, <1>8

-----------------------------------------------------------------------------
\* close() refusing: only an approved record moves.
LEMMA CloseRefusedInv ==
  ASSUME Inv, NEW c \in Calls, CloseRefused(c)
  PROVE  Inv'
<1> USE DEF Inv
<1>1. RecordsQuiet /\ records' \in [Intents -> Records \cup {NoRecord}]
  BY QuietMove DEF CloseRefused, TypeOK
<1>2. TypeOK' /\ PlacesMatchChain' /\ ChainQuiet
  BY <1>1 DEF CloseRefused, Ends, TypeOK, Places, InFlight, PlacesMatchChain, Succeeded, Signed, ChainQuiet
<1>3. QED
  BY <1>1, <1>2, QuietStep DEF CloseRefused

(* close() passing: the signature is made on an approved record, hence on the
   operation's only unresolved one, and the record is its own from then on. *)
LEMMA ClosePassedInv ==
  ASSUME Inv, NEW c \in Calls, ClosePassed(c)
  PROVE  Inv'
<1> USE DEF Inv
<1> DEFINE i == intent[c]
<1>1. i \in Intents /\ pc[c] = "checking" /\ chain[c] = "none"
  BY DEF ClosePassed, TypeOK, PlacesMatchChain
<1>2. CASE records[i].state = "approved" /\ now < records[i].approval.expiresAt
  <2>1. /\ records' = Moved(records, i, "signing")
        /\ payer' = [payer EXCEPT ![i] = c]
        /\ chain' = [chain EXCEPT ![c] = "local"]
        /\ pc' = [pc EXCEPT ![c] = "signing"]
        /\ UNCHANGED <<up, now, intent, live, resolved>>
    BY <1>2 DEF ClosePassed, Goes
  <2>2. "signing" \in States /\ <<records[i].state, "signing">> \in LEGAL
    BY <1>2, LegalMoves DEF States, UnresolvedStates
  <2>3. /\ records' \in [Intents -> Records \cup {NoRecord}]
        /\ \A j \in Intents \ {i} : records'[j] = records[j]
        /\ records'[i].state = "signing"
    BY <1>1, <2>1, <2>2, MovedIs DEF TypeOK
  <2>4. TypeOK' /\ PlacesMatchChain'
    BY <1>1, <2>1, <2>3 DEF TypeOK, Places, InFlight, Fates, PlacesMatchChain, Succeeded, Signed
  <2>5. OneUnresolved'
    <3>1. \A j \in Intents :
            records'[j].state \in UnresolvedStates => records[j].state \in UnresolvedStates
      BY <1>2, <2>3 DEF UnresolvedStates
    <3>2. QED
      BY <3>1 DEF OneUnresolved, Settling, SameOperation
  <2>6. PayerKnown'
    BY <1>1, <2>1, <2>3 DEF PayerKnown, Settling, TypeOK
  <2>7. OutstandingIsRecorded'
    <3>1. SUFFICES ASSUME NEW d \in Calls, d \in Outstanding'
                   PROVE  /\ records'[intent[d]].state \in PayingStates
                          /\ payer'[intent[d]] = d
      BY <2>1 DEF OutstandingIsRecorded, Outstanding
    <3>2. CASE d = c
      BY <1>1, <2>1, <2>3, <3>2 DEF TypeOK, PayingStates
    <3>3. CASE d # c
      <4>1. d \in Outstanding
        BY <1>1, <2>1, <3>1, <3>3 DEF Outstanding, TypeOK
      <4>2. /\ intent[d] \in Intents
            /\ records[intent[d]].state \in PayingStates
            /\ payer[intent[d]] = d
        BY <4>1 DEF OutstandingIsRecorded, Settling, TypeOK
      <4>3. intent[d] # i
        BY <1>2, <4>2 DEF PayingStates
      <4>4. QED
        BY <1>1, <2>1, <2>3, <4>2, <4>3 DEF TypeOK
    <3>4. QED
      BY <3>2, <3>3
  <2>8. SettledIsTrue'
    <3>1. SUFFICES ASSUME NEW j \in Intents, records'[j].state \in SettledStates
                   PROVE  /\ records'[j].state \in {"completed", "paid_incomplete"}
                               => Succeeded(TermsOf[j])'
                          /\ records'[j].state = "not_settled" => chain'[payer'[j]] = "void"
      BY DEF SettledIsTrue, SettledStates
    <3>2. j # i /\ records'[j] = records[j] /\ payer'[j] = payer[j]
      BY <1>1, <2>1, <2>3, <3>1 DEF SettledStates, TypeOK
    <3>3. Succeeded(TermsOf[j]) => Succeeded(TermsOf[j])'
      BY <1>1, <2>1, SucceededStays DEF TypeOK
    <3>4. records'[j].state = "not_settled" => chain'[payer'[j]] = "void"
      BY <1>1, <2>1, <3>2 DEF SettledIsTrue, Settling, TypeOK
    <3>5. QED
      BY <3>2, <3>3, <3>4 DEF SettledIsTrue, Settling
  <2>9. QED
    BY <2>4, <2>5, <2>6, <2>7, <2>8 DEF Settling
<1>3. CASE ~(records[i].state = "approved" /\ now < records[i].approval.expiresAt)
  <2>1. /\ \/ records' = Moved(records, i, "expired")
           \/ records' = records
        /\ pc' = [pc EXCEPT ![c] = "done"]
        /\ UNCHANGED <<up, now, intent, live, chain, payer, resolved>>
    BY <1>3 DEF ClosePassed, Ends
  <2>2. RecordsQuiet /\ records' \in [Intents -> Records \cup {NoRecord}]
    <3>1. CASE records' = Moved(records, i, "expired")
      BY <1>1, <3>1, QuietMove
    <3>2. CASE records' = records
      BY <3>2 DEF RecordsQuiet, TypeOK
    <3>3. QED
      BY <2>1, <3>1, <3>2
  <2>3. TypeOK' /\ PlacesMatchChain' /\ ChainQuiet
    BY <1>1, <2>1, <2>2 DEF TypeOK, Places, InFlight, PlacesMatchChain, Succeeded, Signed, ChainQuiet
  <2>4. QED
    BY <2>1, <2>2, <2>3, QuietStep
<1>4. QED
  BY <1>2, <1>3

\* The signer and the transport: only the authorisation moves.
LEMMA TransportInv ==
  ASSUME Inv, NEW c \in Calls, SignerThrows(c) \/ SendPaid(c) \/ AnswerSettled(c) \/ Confirmed(c)
  PROVE  Inv'
<1> USE DEF Inv
<1>1. UNCHANGED <<records, intent, payer, resolved>>
  BY DEF SignerThrows, SendPaid, AnswerSettled, Confirmed
<1>2. RecordsQuiet
  BY <1>1 DEF RecordsQuiet
<1>3. TypeOK' /\ PlacesMatchChain' /\ ChainQuiet
  <2> USE DEF TypeOK, Places, InFlight, Fates, PlacesMatchChain, Succeeded, Signed, ChainQuiet, Ends, Goes
  <2>1. CASE SignerThrows(c)
    BY <2>1 DEF SignerThrows
  <2>2. CASE SendPaid(c)
    BY <2>2 DEF SendPaid
  <2>3. CASE AnswerSettled(c)
    BY <2>3 DEF AnswerSettled
  <2>4. CASE Confirmed(c)
    BY <2>4 DEF Confirmed
  <2>5. QED
    BY <2>1, <2>2, <2>3, <2>4
<1>4. QED
  BY <1>1, <1>2, <1>3, QuietStep

\* An answer that establishes nothing leaves the record unknown.
LEMMA UnknownInv ==
  ASSUME Inv, NEW c \in Calls, AnswerUnknown(c) \/ Unconfirmed(c)
  PROVE  Inv'
<1> USE DEF Inv
<1>1. /\ \/ records' = Moved(records, intent[c], "unknown")
         \/ records' = records
      /\ pc[c] \in Signed
      /\ pc' = [pc EXCEPT ![c] = "done"]
      /\ UNCHANGED <<up, now, intent, live, chain, payer, resolved>>
  BY DEF AnswerUnknown, Unconfirmed, Ends, Signed
<1>2. RecordsQuiet /\ records' \in [Intents -> Records \cup {NoRecord}]
  <2>1. CASE records' = Moved(records, intent[c], "unknown")
    BY <2>1, QuietMove DEF TypeOK
  <2>2. CASE records' = records
    BY <2>2 DEF RecordsQuiet, TypeOK
  <2>3. QED
    BY <1>1, <2>1, <2>2
<1>3. TypeOK' /\ ChainQuiet
  BY <1>1, <1>2 DEF TypeOK, Places, InFlight, ChainQuiet
<1>4. PlacesMatchChain'
  <2>1. pc[c] # "signing"
    BY DEF AnswerUnknown, Unconfirmed
  <2>2. QED
    BY <1>1, <2>1 DEF TypeOK, PlacesMatchChain, Succeeded, Signed
<1>5. QED
  BY <1>1, <1>2, <1>3, <1>4, QuietStep

-----------------------------------------------------------------------------
(* Establishing the outcome of the signature a record stands for, as the chain
   has it, settles that record and resolves that signature, and no other. *)
LEMMA Established ==
  ASSUME Inv, NEW i \in Intents, NEW to \in SettledStates,
         records[i].state \in PayingStates,
         records' = Moved(records, i, to),
         to \in {"completed", "paid_incomplete"} => Succeeded(TermsOf[i]),
         to = "not_settled" => chain[payer[i]] = "void",
         resolved' = resolved \cup {payer[i]},
         UNCHANGED <<intent, chain, payer>>
  PROVE  Settling' /\ records' \in [Intents -> Records \cup {NoRecord}]
<1> USE DEF Inv
<1>1. to \in States /\ <<records[i].state, to>> \in LEGAL
  BY LegalMoves DEF States, TerminalStates, SettledStates
<1>2. /\ records' \in [Intents -> Records \cup {NoRecord}]
      /\ \A j \in Intents \ {i} : records'[j] = records[j]
      /\ records'[i].state = to
  BY <1>1, MovedIs DEF TypeOK
<1>3. OneUnresolved'
  <2>1. \A j \in Intents :
          records'[j].state \in UnresolvedStates => records[j].state \in UnresolvedStates
    BY <1>2 DEF PayingStates, UnresolvedStates
  <2>2. QED
    BY <2>1 DEF OneUnresolved, Settling, SameOperation
<1>4. PayerKnown'
  BY <1>2 DEF PayerKnown, Settling
<1>5. OutstandingIsRecorded'
  <2>1. SUFFICES ASSUME NEW d \in Calls, d \in Outstanding'
                 PROVE  /\ records'[intent[d]].state \in PayingStates
                        /\ payer[intent[d]] = d
    BY DEF OutstandingIsRecorded, Outstanding
  <2>2. d \in Outstanding /\ d # payer[i]
    BY <2>1 DEF Outstanding
  <2>3. /\ intent[d] \in Intents
        /\ records[intent[d]].state \in PayingStates
        /\ payer[intent[d]] = d
    BY <2>2 DEF OutstandingIsRecorded, Settling, TypeOK
  <2>4. intent[d] # i
    BY <2>2, <2>3
  <2>5. QED
    BY <1>2, <2>3, <2>4
<1>6. SettledIsTrue'
  <2>1. Succeeded(TermsOf[i]) => Succeeded(TermsOf[i])'
    BY SucceededStays
  <2>2. \A j \in Intents : Succeeded(TermsOf[j]) <=> Succeeded(TermsOf[j])'
    BY DEF Succeeded
  <2>3. QED
    BY <1>2, <2>1, <2>2 DEF SettledIsTrue, Settling, SettledStates
<1>7. QED
  BY <1>2, <1>3, <1>4, <1>5, <1>6 DEF Settling

\* complete() after a confirmed settlement: the call resolves its own payment.
LEMMA CompleteInv ==
  ASSUME Inv, NEW c \in Calls, NEW ok \in BOOLEAN, NEW sameRule \in BOOLEAN,
         NEW amount \in {1, 2}, CompleteCall(c, ok, sameRule, amount)
  PROVE  Inv'
<1> USE DEF Inv
<1> DEFINE i  == intent[c]
           to == CompletionState(records[i], ok, sameRule, amount)
<1>1. /\ pc[c] = "validating" /\ i \in Intents /\ Succeeded(TermsOf[i])
      /\ chain[c] # "none" /\ c \notin resolved
  BY DEF CompleteCall, TypeOK, PlacesMatchChain, Succeeded, Signed
<1>2. records[i].state \in PayingStates /\ payer[i] = c
  BY <1>1 DEF Settling, OutstandingIsRecorded, Outstanding
<1>3. to \in {"completed", "paid_incomplete"}
  BY DEF CompletionState
<1>4. /\ records' = Moved(records, i, to)
      /\ resolved' = resolved \cup {c}
      /\ pc' = [pc EXCEPT ![c] = "done"]
      /\ UNCHANGED <<up, now, intent, live, chain, payer>>
  <2>1. <<records[i].state, to>> \in LEGAL
    BY <1>2, <1>3, LegalMoves DEF SettledStates
  <2>2. QED
    BY <2>1 DEF CompleteCall, Ends
<1> HIDE DEF to
<1>5. Settling' /\ records' \in [Intents -> Records \cup {NoRecord}]
  BY <1>1, <1>2, <1>3, <1>4, Established DEF SettledStates
<1>6. \A t : Succeeded(t) <=> Succeeded(t)'
  BY <1>4 DEF Succeeded
<1>7. TypeOK' /\ PlacesMatchChain'
  BY <1>1, <1>4, <1>5, <1>6 DEF TypeOK, Places, InFlight, PlacesMatchChain, Succeeded, Signed
<1>8. QED
  BY <1>5, <1>7

\* An operator who leaves calls in flight alone resolves what the record stands for.
LEMMA ReconcileInv ==
  ASSUME Inv, ReconcileInFlight = FALSE, NEW i \in Intents, Reconcile(i)
  PROVE  Inv'
<1> USE DEF Inv
<1> DEFINE c == payer[i]
<1>1. /\ records[i].state \in PayingStates /\ pc[c] \notin InFlight
      /\ chain[c] \in {"paid", "void"}
      /\ resolved' = resolved \cup {c}
      /\ UNCHANGED <<up, now, pc, intent, live, chain, payer>>
  BY DEF Reconcile
<1>2. c \in Calls /\ intent[c] = i
  BY <1>1 DEF Settling, PayerKnown
<1>3. PICK to \in SettledStates :
        /\ records' = Moved(records, i, to)
        /\ to \in {"completed", "paid_incomplete"} => chain[c] = "paid"
        /\ to = "not_settled" => chain[c] = "void"
  BY DEF Reconcile, SettledStates
<1>4. Settling' /\ records' \in [Intents -> Records \cup {NoRecord}]
  <2>1. to \in {"completed", "paid_incomplete"} => Succeeded(TermsOf[i])
    BY <1>2, <1>3 DEF Succeeded
  <2>2. QED
    BY <1>1, <1>3, <2>1, Established
<1>5. TypeOK' /\ PlacesMatchChain'
  BY <1>1, <1>2, <1>4 DEF TypeOK, PlacesMatchChain, Succeeded, Signed, InFlight
<1>6. QED
  BY <1>4, <1>5

\* The chain, the process and the clock touch neither records nor outcomes.
LEMMA OutsideInv ==
  ASSUME Inv, (\E c \in Calls : ChainDecides(c)) \/ Crash \/ Restart \/ Tick \/ UNCHANGED vars
  PROVE  Inv'
<1> USE DEF Inv
<1>1. UNCHANGED <<records, intent, payer, resolved>>
  BY DEF ChainDecides, Crash, Restart, Tick, vars
<1>2. RecordsQuiet
  BY <1>1 DEF RecordsQuiet
<1>3. TypeOK' /\ PlacesMatchChain' /\ ChainQuiet
  <2> USE DEF TypeOK, Places, InFlight, Fates, PlacesMatchChain, Succeeded, Signed, ChainQuiet
  <2>1. ASSUME NEW c \in Calls, ChainDecides(c)
        PROVE  TypeOK' /\ PlacesMatchChain' /\ ChainQuiet
    <3>1. /\ chain[c] = "pending" /\ chain' \in [Calls -> Fates]
          /\ UNCHANGED <<records, up, now, pc, intent, live, payer, resolved>>
          /\ \A d \in Calls :
               IF d = c THEN chain'[d] \in {"paid", "void"} ELSE chain'[d] = chain[d]
      BY <2>1 DEF ChainDecides
    <3>2. TypeOK' /\ ChainQuiet
      BY <3>1
    <3>3. \A d \in Calls :
            Succeeded(TermsOf[intent[d]]) => Succeeded(TermsOf[intent[d]])'
      BY <3>1, SucceededStays
    <3> HIDE DEF Succeeded
    <3>4. PlacesMatchChain'
      BY <3>1, <3>3
    <3>5. QED
      BY <3>2, <3>4
  <2>2. CASE Crash
    BY <2>2 DEF Crash
  <2>3. CASE Restart \/ UNCHANGED vars
    <3>1. UNCHANGED <<records, now, pc, intent, live, chain, payer, resolved>> /\ up' \in BOOLEAN
      BY <2>3 DEF Restart, vars
    <3>2. \A t : Succeeded(t) <=> Succeeded(t)'
      BY <3>1
    <3> HIDE DEF Succeeded
    <3>3. QED
      BY <3>1, <3>2
  <2>4. CASE Tick
    BY <2>4, ClockAssumption DEF Tick
  <2>5. QED
    BY <2>1, <2>2, <2>3, <2>4
<1>4. QED
  BY <1>1, <1>2, <1>3, QuietStep

-----------------------------------------------------------------------------
\* No call is open and no attempt recorded at the start.
LEMMA InitInv == Init => Inv
<1> SUFFICES ASSUME Init
             PROVE  Inv
  OBVIOUS
<1>1. TypeOK /\ PlacesMatchChain
  BY ClockAssumption DEF Init, TypeOK, Places, InFlight, Fates, NoCall, PlacesMatchChain, Succeeded, Signed
<1>2. \A i \in Intents : records[i].state = "none"
  BY DEF Init, NoRecord
<1>3. Outstanding = {}
  BY DEF Init, Outstanding
<1>4. Settling
  BY <1>2, <1>3 DEF Settling, OneUnresolved, PayerKnown, OutstandingIsRecorded, SettledIsTrue,
                    UnresolvedStates, PayingStates, SettledStates
<1>5. QED
  BY <1>1, <1>4 DEF Inv

\* Every step of the calls, the chain, the operator and the process keeps it.
LEMMA NextInv ==
  ASSUME ReconcileInFlight = FALSE, Inv, [Next]_vars
  PROVE  Inv'
<1>1. ASSUME NEW c \in Calls, Open(c)
      PROVE  Inv'
  BY <1>1, OpenBlockedInv, OpenBeginsInv DEF Open
<1>2. ASSUME NEW c \in Calls, Proceed(c)
      PROVE  Inv'
  BY <1>2, CloseRefusedInv, ClosePassedInv, TransportInv, UnknownInv, CompleteInv DEF Proceed
<1>3. CASE World
  BY <1>3, ReconcileInv, OutsideInv DEF World
<1>4. CASE UNCHANGED vars
  BY <1>4, OutsideInv
<1>5. QED
  BY <1>1, <1>2, <1>3, <1>4 DEF Next

(* Everything below is read off one inductive invariant.  It needs the operator
   to leave calls in flight alone: the run outcome_x402_late_answer shows what
   happens otherwise. *)
THEOREM Invariance ==
  ASSUME ReconcileInFlight = FALSE
  PROVE  Spec => []Inv
<1>1. Inv /\ [Next]_vars => Inv'
  BY NextInv
<1>2. QED
  BY <1>1, InitInv, PTL DEF Spec

\* Two outstanding calls of one operation cannot both be the record's.
LEMMA InvApart == Inv => NoBypass
<1> SUFFICES ASSUME Inv, NEW c \in Outstanding, NEW d \in Outstanding, c # d,
                    SameOperation(intent[c], intent[d])
             PROVE  FALSE
  BY DEF NoBypass
<1>1. /\ intent[c] \in Intents /\ intent[d] \in Intents
      /\ records[intent[c]].state \in PayingStates /\ payer[intent[c]] = c
      /\ records[intent[d]].state \in PayingStates /\ payer[intent[d]] = d
  BY DEF Inv, Settling, OutstandingIsRecorded, Outstanding, TypeOK
<1>2. intent[c] # intent[d]
  BY <1>1
<1>3. QED
  BY <1>1, <1>2 DEF Inv, Settling, OneUnresolved, PayingStates, UnresolvedStates

(* The state of the x402 binding of outcome-ledger-x402.ts keeps its types for
   any number of calls, intents and operations. *)
THEOREM RoundTripTypes ==
  ASSUME ReconcileInFlight = FALSE
  PROVE  Spec => []TypeOK
<1>1. Inv => TypeOK
  BY DEF Inv
<1>2. QED
  BY <1>1, Invariance, PTL

(* open() and close() never let two calls of one operation both have signed with
   neither outcome established, whatever their terms, hooks, answers, crashes
   and restarts. *)
THEOREM NeverBypassed ==
  ASSUME ReconcileInFlight = FALSE
  PROVE  Spec => []NoBypass
BY Invariance, InvApart, PTL

(* The record of an unresolved signature's intent says signing or unknown and
   stands for that signature, also after the process has died and come back. *)
THEOREM LedgerKnows ==
  ASSUME ReconcileInFlight = FALSE
  PROVE  Spec => []OutstandingIsRecorded
<1>1. Inv => OutstandingIsRecorded
  BY DEF Inv, Settling
<1>2. QED
  BY <1>1, Invariance, PTL

(* A record that wrapTransport or an operator has settled rests on the chain: a
   completed one on some transaction that succeeded on its terms, whose it was
   left open, a not_settled one on its own authorisation being void.  The
   seller's word alone never settles one. *)
THEOREM RecordsTellTruth ==
  ASSUME ReconcileInFlight = FALSE
  PROVE  Spec => []SettledIsTrue
<1>1. Inv => SettledIsTrue
  BY DEF Inv, Settling
<1>2. QED
  BY <1>1, Invariance, PTL
=============================================================================
