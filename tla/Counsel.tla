------------------------------ MODULE Counsel ------------------------------
(***************************************************************************)
(* counsel_orchestration/decide.py: seven roles read a decision record in  *)
(* a fixed order, and a payout is authorized only if none of them objects. *)
(*                                                                         *)
(* A record is a function from the fields it has to what they hold: "true" *)
(* and "false" are the booleans, "odd" is anything else.  An agent file is *)
(* [kind, name, order]: a role's file, one that cannot be read, or one that*)
(* is no role's; order is None unless it parses to an integer.             *)
(***************************************************************************)
EXTENDS Naturals, SequencesExt, Optional

CONSTANT CounselCases   \* what is asked: [record, files]; record = None is no object

\* A record is an object or none.
ASSUME CasesAssumption ==
  \A case \in CounselCases : case.record = None \/ case.record = <<case.record[1]>>

VARIABLE counsel   \* [at, record, index, checked, refusing, handoff, skipped, authorized]
counselVars == <<counsel>>

ROLE_ORDER ==
  <<"gate_drought", "inscription", "settlement_not_delivery", "familiar_face", "collapsed_time",
    "one_eyed_verifier", "evidence_only">>

\* The fields without which a role refuses.
Required ==
  [gate_drought |-> {"pressure_requests_override"},
   inscription |-> {"parses_cleanly", "signature_valid", "signer_verified", "signer_pinned", "self_attested"},
   settlement_not_delivery |-> {"settlement_visible", "delivery_evidence"},
   familiar_face |-> {"known_name_vouches", "unknown_key", "unknown_key_verified"},
   collapsed_time |-> {"must_decide_now", "receipt_thin"},
   one_eyed_verifier |-> {"check_scope", "reported_as_full_verification"},
   evidence_only |-> {"claim_wider_than_evidence", "quick_integration_called_traction"}]

\* The fields a role reads if they are there.
Observed(role) == IF role = "gate_drought" THEN {"empty_queue", "deadline_pressure"} ELSE {}

-----------------------------------------------------------------------------
(* discover_agents does not raise: every file can be read, every role has   *)
(* one file, and its order is the role's place.                             *)
Discovered(files) ==
  LET roles == {n \in DOMAIN files : files[n].kind = "role"}
  IN  /\ \A n \in DOMAIN files : files[n].kind # "unreadable"
      /\ \A n, k \in roles : files[n].name = files[k].name => n = k
      /\ \A place \in DOMAIN ROLE_ORDER :
           \E n \in roles : files[n].name = ROLE_ORDER[place] /\ files[n].order = <<place>>

Present(role, record) == (Required[role] \cup Observed(role)) \cap DOMAIN record

\* _not_bool over what the role takes for a flag; the scope of a check is a name.
Untyped(role, record) ==
  {field \in Present(role, record) \ {"check_scope"} : record[field] \notin {"true", "false"}}

Credential(record) ==
  /\ \A field \in {"parses_cleanly", "signature_valid", "signer_verified", "signer_pinned"} : record[field] = "true"
  /\ record["self_attested"] # "true"

\* The condition under which a role refuses what it could read.
Objects(role, record) ==
  CASE role = "gate_drought" -> record["pressure_requests_override"] # "false"
    [] role = "inscription" -> ~Credential(record)
    [] role = "settlement_not_delivery" -> record["delivery_evidence"] # "true"
    [] role = "familiar_face" -> record["unknown_key"] = "true" /\ record["unknown_key_verified"] # "true"
    [] role = "collapsed_time" -> FALSE
    [] role = "one_eyed_verifier" -> record["check_scope"] # "full"
    [] role = "evidence_only" -> \E field \in Required[role] : record[field] = "true"

HandsOver(role, record) == role = "collapsed_time" /\ record["must_decide_now"] = "true"

\* What a role returns: its verdict, and the fields it checked and skipped.
Outcome(role, record) ==
  LET missing == Required[role] \ DOMAIN record
      untyped == Untyped(role, record)
      answer(verdict, checked, skipped) ==
        [role |-> role, verdict |-> verdict, checked |-> checked, skipped |-> skipped]
  IN IF missing # {} THEN answer("refuse", Present(role, record), missing)
     ELSE IF untyped # {}
       THEN answer("refuse", Present(role, record) \ untyped,
                   untyped \cup (Observed(role) \ DOMAIN record))
     ELSE answer(IF Objects(role, record) THEN "refuse"
                 ELSE IF HandsOver(role, record) THEN "hand_to_human" ELSE "allow",
                 Present(role, record), Observed(role) \ DOMAIN record)

-----------------------------------------------------------------------------
(* decide.                                                                 *)

CounselIdle == [at |-> "idle", record |-> None, index |-> 1, checked |-> <<>>, refusing |-> None,
                handoff |-> None, skipped |-> {}, authorized |-> FALSE]

\* _stopped: the roles from start on were not reached.
Stopped(state, verdict, role, start) ==
  [state EXCEPT !.at = verdict, !.refusing = <<role>>,
                !.skipped = {ROLE_ORDER[n] : n \in {k \in DOMAIN ROLE_ORDER : k >= start}}]

\* The record and the directory are read.
Asks ==
  /\ counsel.at = "idle"
  /\ \E case \in CounselCases :
       LET state == [CounselIdle EXCEPT !.record = case.record]
       IN counsel' = IF case.record = None THEN Stopped(state, "refuse", "input", 1)
                     ELSE IF ~Discovered(case.files) THEN Stopped(state, "refuse", "discovery", 1)
                     ELSE [state EXCEPT !.at = "folding"]

\* Slip: a hand-over ends the fold.
RoleReadsStopping ==
  /\ counsel.at = "folding" /\ counsel.index \in DOMAIN ROLE_ORDER
  /\ LET outcome == Outcome(ROLE_ORDER[counsel.index], counsel.record[1])
         state == [counsel EXCEPT !.checked = Append(@, outcome), !.index = @ + 1]
     IN counsel' = IF outcome.verdict # "allow" THEN Stopped(state, outcome.verdict, outcome.role, state.index)
                   ELSE state

\* One turn of the loop: a refusal ends it, a hand-over does not.
RoleReads ==
  /\ counsel.at = "folding" /\ counsel.index \in DOMAIN ROLE_ORDER
  /\ LET outcome == Outcome(ROLE_ORDER[counsel.index], counsel.record[1])
         state == [counsel EXCEPT !.checked = Append(@, outcome), !.index = @ + 1]
     IN counsel' = IF outcome.verdict = "refuse" THEN Stopped(state, "refuse", outcome.role, state.index)
                   ELSE IF outcome.verdict = "hand_to_human"
                     THEN [state EXCEPT !.handoff = Or(@, <<outcome.role>>)]
                   ELSE state

\* The loop is over without a refusal.
Concluded ==
  /\ counsel.at = "folding" /\ counsel.index > Len(ROLE_ORDER)
  /\ counsel' = IF counsel.handoff # None
                  THEN Stopped(counsel, "hand_to_human", counsel.handoff[1], counsel.index)
                ELSE [counsel EXCEPT !.at = "allow", !.authorized = TRUE]

CounselInit == counsel = CounselIdle
CounselNext == Asks \/ RoleReads \/ Concluded
-----------------------------------------------------------------------------
RecordFields == UNION {Required[role] \cup Observed(role) : role \in DOMAIN Required}

CounselTypeOK ==
  /\ counsel.at \in {"idle", "folding", "refuse", "hand_to_human", "allow"}
  /\ Len(counsel.record) <= 1
  /\ counsel.index \in 1 .. Len(ROLE_ORDER) + 1
  /\ \A n \in DOMAIN counsel.checked :
       counsel.checked[n] \in [role : ToSet(ROLE_ORDER), verdict : {"allow", "refuse", "hand_to_human"},
                               checked : SUBSET RecordFields, skipped : SUBSET RecordFields]
  /\ counsel.skipped \subseteq ToSet(ROLE_ORDER)
  /\ counsel.authorized \in BOOLEAN

Flags(record) == DOMAIN record \ {"check_scope"}
Shows(record, field, answer) == field \in DOMAIN record /\ record[field] = answer

\* Everything that counsel asks for is there, time aside.
Supported(record) ==
  /\ RecordFields \ Observed("gate_drought") \subseteq DOMAIN record
  /\ \A field \in Flags(record) \cap RecordFields : record[field] \in {"true", "false"}
  /\ \A field \in {"parses_cleanly", "signature_valid", "signer_verified", "signer_pinned", "delivery_evidence"} :
       Shows(record, field, "true")
  /\ \A field \in {"pressure_requests_override", "self_attested", "claim_wider_than_evidence",
                   "quick_integration_called_traction"} :
       Shows(record, field, "false")
  /\ Shows(record, "unknown_key", "false") \/ Shows(record, "unknown_key_verified", "true")
  /\ Shows(record, "check_scope", "full")

(* decide() fails closed: a payout is authorized only of a record that supports
   it in full and is not rushed; a human is handed a supported record and never
   one that fails already; and a role refuses only what is not supported, so
   that an empty queue, a thin receipt, a vouching name or a visible settlement
   changes no verdict.  The roles that were read and those that were not are
   all seven, and the last one read is the one that is named. *)
CounselFailsClosed ==
  LET asked == counsel.record[1]
      read == {counsel.checked[n].role : n \in DOMAIN counsel.checked}
  IN /\ counsel.authorized => counsel.at = "allow"
     /\ counsel.at = "allow" => counsel.authorized /\ Supported(asked) /\ Shows(asked, "must_decide_now", "false")
     /\ counsel.at = "hand_to_human" => Supported(asked) /\ Shows(asked, "must_decide_now", "true")
     /\ counsel.at = "refuse" /\ read # {} =>
          /\ ~Supported(asked)
          /\ counsel.refusing[1] = Last(counsel.checked).role
     /\ counsel.at \in {"refuse", "hand_to_human", "allow"} =>
          /\ read \cap counsel.skipped = {}
          /\ read \cup counsel.skipped = ToSet(ROLE_ORDER)
=============================================================================
