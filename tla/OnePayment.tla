----------------------------- MODULE OnePayment -----------------------------
(***************************************************************************)
(* What the outcome ledger promises, without files or restarts: on each    *)
(* intent at most one payment is outstanding, it stays outstanding until   *)
(* its outcome is established, and no approval pays twice.                 *)
(***************************************************************************)
CONSTANTS Intents, Decisions, NoDecision

VARIABLES
  outstanding,  \* for each intent the decision whose payment is unresolved
  paid,         \* the decisions a signature was ever made under
  established   \* the decisions whose payment's outcome is established

vars == <<outstanding, paid, established>>

Init ==
  /\ outstanding = [i \in Intents |-> NoDecision]
  /\ paid = {}
  /\ established = {}

Pay(i, d) ==
  /\ outstanding[i] = NoDecision
  /\ d \notin paid
  /\ outstanding' = [outstanding EXCEPT ![i] = d]
  /\ paid' = paid \cup {d}
  /\ UNCHANGED established

Establish(i) ==
  /\ outstanding[i] # NoDecision
  /\ established' = established \cup {outstanding[i]}
  /\ outstanding' = [outstanding EXCEPT ![i] = NoDecision]
  /\ UNCHANGED paid

Next == \E i \in Intents : Establish(i) \/ \E d \in Decisions : Pay(i, d)

Spec == Init /\ [][Next]_vars
=============================================================================
