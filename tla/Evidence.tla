------------------------------ MODULE Evidence ------------------------------
(***************************************************************************)
(* The evidence bundle: evidence-bundle.ts exports one of a decision, its  *)
(* publisher may change it, and evidence-verify.ts says which of its       *)
(* claims hold.  A text is known by the shapes a scan finds in it: found   *)
(* is a set of [path, kind].                                               *)
(***************************************************************************)
EXTENDS Naturals, FiniteSets, Sequences, Optional

CONSTANTS
  EvidenceInputs,  \* what a caller may export
  EvidenceEdits,   \* changes of a published bundle: [field, value]
  Tokens,          \* the decisions of the operator
  Outcomes,        \* what the operator may ask to be attested of them
  OperatorKey,
  Peers            \* which optional peers the reader has: [base58, keccak]

\* A section of a bundle that has a leaf, or has none.
MayHaveLeaf(section) ==
  section # None => section[1].leaf = None \/ section[1].leaf = <<section[1].leaf[1]>>

\* GateAdoptionLineage
Lineages == {"dogfood", "external_candidate"}

ASSUME EvidenceInputsAssumption ==
  \A input \in EvidenceInputs :
    /\ MayHaveLeaf(input.bind)
    /\ input.lineage # None => input.lineage[1] \in Lineages
    /\ input.transcript # None => input.transcript[1].lineage \in Lineages

ASSUME EvidenceEditsAssumption ==
  \A edit \in EvidenceEdits : edit.field \in {"bind", "attestation"} => MayHaveLeaf(edit.value)

ASSUME PeersAssumption == Peers \subseteq [base58 : BOOLEAN, keccak : BOOLEAN]

VARIABLE evidence  \* [at, signed, bundle, input, edits, report]
evidenceVars == <<evidence>>

-----------------------------------------------------------------------------
(* outcome-attestation.ts: what a decision came to, signed by the operator.
   Fields are [decisionId, counterparty, verdict, outcome, timestamp, intent,
   payer, tx, preflight], an intent [form, hash], a transaction [head, anchor],
   of which a leaf holds the anchor only.  Hashes are free, and a signature
   names its key and the leaf.                                              *)

OutcomeKinds == {"settled", "blocked_never_signed", "expired_unused"}

\* checkContract does not throw
HonoursContract(verdict, outcome, tx, payer) ==
  /\ verdict \in {"allow", "warn", "block"}
  /\ outcome \in OutcomeKinds
  /\ outcome = "settled" => tx # None /\ payer # None /\ verdict # "block"
  /\ outcome # "settled" => tx = None
  /\ outcome = "blocked_never_signed" => verdict = "block"
  /\ outcome = "expired_unused" => verdict # "block"

\* computeDecisionOutcomeLeafV1 returns a leaf, if the optional peer is there
Encodable(fields) ==
  /\ HonoursContract(fields.verdict, fields.outcome, fields.tx, fields.payer)
  /\ fields.decisionId # None /\ fields.counterparty # "empty"
  /\ fields.timestamp >= 0
  /\ fields.intent # None => fields.intent[1].form \in {"tiv1", "0x", "bare"}

\* pubkey32: without the base58 peer a wallet is hashed as a text.
PayerBytes(payer, base58) ==
  IF payer = None THEN None ELSE <<IF base58 THEN "key" ELSE "text", payer[1]>>

Anchor32(tx) == IF tx = None THEN None ELSE <<tx[1].anchor>>

\* computeDecisionOutcomeLeafV1
OutcomeLeaf(fields, base58) ==
  [decisionId |-> fields.decisionId, counterparty |-> fields.counterparty, verdict |-> fields.verdict,
   outcome |-> fields.outcome, timestamp |-> fields.timestamp, preflight |-> fields.preflight,
   intent |-> IF fields.intent = None THEN None ELSE <<fields.intent[1].hash>>,
   payer |-> PayerBytes(fields.payer, base58), anchor |-> Anchor32(fields.tx)]

\* buildOutcomeAttestation: fields that encode, signed; it needs both peers.
Attested(fields, key) ==
  LET leaf == OutcomeLeaf(fields, TRUE)
  IN [outcome |-> fields.outcome, leaf |-> <<leaf>>, preimage |-> <<fields>>,
      signature |-> <<[by |-> key, over |-> leaf]>>, signing_pubkey |-> <<key>>]

\* buildBlockedNeverSignedAttestation: the fields taken of a token, if any
BlockedFields(token, counterparty, timestamp) ==
  IF token.decision # "block" THEN None
  ELSE <<[decisionId |-> <<token.decisionId>>, counterparty |-> counterparty, verdict |-> "block",
          outcome |-> "blocked_never_signed", timestamp |-> timestamp, intent |-> token.intent,
          payer |-> None, tx |-> None, preflight |-> None]>>

\* verifyOutcomeAttestationSignature: a missing peer is a signature that fails.
SignatureVerifies(leaf, signature, key, base58) ==
  base58 /\ signature = <<[by |-> key, over |-> leaf]>>

-----------------------------------------------------------------------------
(* Scrubbing and scanning.                                                 *)

\* resourceBindLeafHash; a hash is an offer, and NotHex is no hash.
OfferHash(offer) == <<"sha256", offer>>
NotHex == <<"not_hex">>

At(path, kinds) == {[path |-> path, kind |-> kind] : kind \in kinds}

Waivable == {"base58_secret_key", "long_hex", "evm_address", "base58_pubkey"}

AttestedFields == {"intent_hash", "payer", "settlement_anchor", "settlement_tx", "counterparty"}
PreimagePath(field) == "outcomeAttestation.preimage." \o field

\* WAIVERS
Waived ==
  UNION {At(path, {"long_hex"}) : path \in {"bind.leaf_hash", "receipt.leaf", "receipt.leaf_hash",
                                            "outcomeAttestation.leaf", "ledger.lastHash"}}
    \cup UNION {At(path, {"base58_pubkey"}) : path \in {"outcomeAttestation.signing_pubkey",
                          "requirements.payTo", "requirements.asset", "requirements.network"}}
    \cup At("outcomeAttestation.signature", {"base58_secret_key"})
    \cup UNION {At(PreimagePath(f), {"long_hex", "base58_pubkey", "base58_secret_key"}) : f \in AttestedFields}

\* PUBLISHED_VERBATIM
Verbatim ==
  {"requirements.payTo", "requirements.asset", "requirements.network", "requirements.resource",
   "requirements.scheme", "requirements.amount", "bind.leaf_hash", "receipt.leaf", "receipt.leaf_hash",
   "ledger.lastHash", "outcomeAttestation.leaf", "outcomeAttestation.signature",
   "outcomeAttestation.signing_pubkey"}
    \cup {PreimagePath(f) : f \in AttestedFields \cup {"decision_id"}}

\* Slip: only what lies under a secret's name is removed.
ScrubbedByName(found) == {hit \in found : hit.kind = "secret_key_name"}

\* scrubForEvidence: a key of a secret's name goes, a text is masked unless
\* it is published verbatim.
Removed(found) == {hit \in found : hit.kind = "secret_key_name" \/ hit.path \notin Verbatim}

\* scanForSecretValues does not look for names.
Violations(found) ==
  {hit \in found : hit.kind # "secret_key_name" /\ ~(hit.kind \in Waivable /\ hit \in Waived)}

-----------------------------------------------------------------------------
(* exportEvidenceBundle.                                                   *)

\* isInternalIntegration and looksSelfAuthored
Internal(integration) == integration.internal

OrElse(value, default) == IF value = None THEN default ELSE value[1]

\* The decision a transcript's block_path step stands for.
BlockDecision(input) ==
  LET transcript == input.transcript
      block == IF transcript = None THEN None ELSE transcript[1].block
  IN [verdict |-> IF block = None THEN <<"unknown">> ELSE <<block[1].verdict>>,
      approved |-> <<block # None /\ block[1].approved>>,
      signer |-> <<IF block = None THEN 0 ELSE block[1].signer>>,
      id |-> None,
      provenance |-> <<IF transcript = None THEN "unknown" ELSE "transcript_step">>]

ExportedDecision(input) ==
  IF input.decision = None THEN BlockDecision(input)
  ELSE [input.decision[1] EXCEPT !.provenance = Or(@, <<"explicit_caller">>)]

\* An internal integration is never exported as an external candidate.
ExportedLineage(input) ==
  LET requested == Or(input.lineage, IF input.transcript = None THEN None ELSE <<input.transcript[1].lineage>>)
      lineage == OrElse(requested, IF Internal(input.integration) THEN "dogfood" ELSE "external_candidate")
  IN IF lineage = "external_candidate" /\ Internal(input.integration) THEN "dogfood" ELSE lineage

ExportedOffer(input) ==
  Or(input.requirements,
     IF input.transcript = None \/ input.transcript[1].block = None THEN None
     ELSE <<input.transcript[1].block[1].offer>>)

\* exportEvidenceBundle
Export(input, attestation) ==
  [malformed |-> {}, integration |-> input.integration, lineage |-> ExportedLineage(input),
   decision |-> <<ExportedDecision(input)>>, bind |-> input.bind, receipt |-> input.receipt,
   requirements |-> ExportedOffer(input), attestation |-> attestation, claimsExternalRun |-> FALSE,
   found |-> input.found \ Removed(input.found), redactions |-> Removed(input.found), derived |-> TRUE]

-----------------------------------------------------------------------------
(* validateEvidenceBundle: the codes of its errors; its warnings never     *)
(* change a verdict.                                                       *)

Code(code, holds) == IF holds THEN {code} ELSE {}

\* validateShape and validateSections; malformed are the fields that are not
\* what they must be and that nothing below reads.
ShapeErrors(b) ==
  Code("invalid_field", b.malformed # {} \/ b.decision = None)
    \cup Code("invalid_field", b.decision # None /\ None \in {b.decision[1][f] : f \in {"verdict", "approved", "signer"}})
    \cup Code("lineage_invalid", b.lineage \notin Lineages)
    \cup Code("bind_leaf_malformed", b.bind # None /\ b.bind[1].leaf = <<NotHex>>)
    \cup Code("outcome_invalid", b.attestation # None /\ b.attestation[1].outcome \notin OutcomeKinds)

SignerRan(d) == d.signer # None /\ d.signer[1] > 0

\* Slip: a refusal is not compared with the signatures it counts.
ApprovalContradicts(d) ==
  Code("approved_block_verdict", d.approved = <<TRUE>> /\ d.signer = <<0>> /\ d.verdict = <<"block">>)

DecisionContradicts(d) ==
  Code("refused_but_signed", d.approved = <<FALSE>> /\ SignerRan(d))
    \cup Code("approved_block_verdict", d.approved = <<TRUE>> /\ d.signer = <<0>> /\ d.verdict = <<"block">>)

OutcomeContradicts(d, outcome) ==
  Code("outcome_contradicts_decision", \/ outcome = "blocked_never_signed" /\ d.approved = <<TRUE>>
                                       \/ outcome = "settled" /\ d.approved = <<FALSE>>)
    \cup Code("outcome_contradicts_signer", outcome = "blocked_never_signed" /\ SignerRan(d))

\* validateCoherence
Contradictions(b) ==
  IF b.decision = None THEN {}
  ELSE DecisionContradicts(b.decision[1])
         \cup (IF b.attestation = None THEN {}
               ELSE OutcomeContradicts(b.decision[1], b.attestation[1].outcome))

ProvenanceErrors(b) ==
  Code("signer_provenance_invalid",
       /\ b.decision # None /\ b.decision[1].provenance # None
       /\ b.decision[1].provenance[1] \notin {"transcript_step", "explicit_caller", "unknown"})

\* validateLineage
LineageErrors(b) ==
  Code("lineage_forged", b.lineage = "external_candidate" /\ Internal(b.integration))
    \cup Code("external_run_asserted", b.claimsExternalRun)

\* validateEvidenceBundle
ValidationErrors(b) == ShapeErrors(b) \cup Contradictions(b) \cup ProvenanceErrors(b) \cup LineageErrors(b)

-----------------------------------------------------------------------------
(* verifyBundleLinkage: each check is verified, failed or unchecked.       *)
Checked(holds) == IF holds THEN "verified" ELSE "failed"

BindLevels == [refuse |-> "unbound", soft |-> "client_stamped", hard |-> "tx_included"]

BindLevelCheck(b) ==
  IF b.bind = None \/ b.bind[1].strength = None \/ b.bind[1].level = None THEN "unchecked"
  ELSE Checked(/\ b.bind[1].strength[1] \in DOMAIN BindLevels
               /\ BindLevels[b.bind[1].strength[1]] = b.bind[1].level[1])

BindLeafCheck(b) ==
  IF b.bind = None \/ b.requirements = None THEN "unchecked"
  ELSE IF b.bind[1].leaf \in {None, <<NotHex>>} \/ b.requirements[1].resource = "not_a_url" THEN "unchecked"
  ELSE Checked(b.bind[1].leaf[1] = OfferHash(b.requirements[1]))

\* receiptChecks
ReceiptCheck(b) ==
  IF b.receipt = None \/ ~b.receipt[1].resourceBound THEN "unchecked"
  ELSE Checked(/\ b.bind # None /\ b.bind[1].leaf # None
               /\ b.receipt[1].leaf = b.bind[1].leaf)

\* outcomeChecks, one by one
OutcomeLeafCheck(attestation, peers) ==
  IF attestation = None \/ ~peers.keccak THEN "unchecked"
  ELSE LET a == attestation[1] IN
       IF a.preimage = None \/ a.leaf = None THEN "unchecked"
       ELSE IF ~Encodable(a.preimage[1]) THEN "unchecked"
       ELSE Checked(OutcomeLeaf(a.preimage[1], peers.base58) = a.leaf[1])

SignatureCheck(attestation, expected, peers) ==
  IF attestation = None THEN "unchecked"
  ELSE LET a == attestation[1]
           key == Or(expected, a.signing_pubkey)
       IN IF a.signature = None \/ key = None \/ a.leaf = None THEN "unchecked"
          ELSE Checked(SignatureVerifies(a.leaf[1], a.signature, key[1], peers.base58))

DecisionCheck(decision, attestation) ==
  IF decision = None \/ attestation = None THEN "unchecked"
  ELSE LET named == IF attestation[1].preimage = None THEN None ELSE attestation[1].preimage[1].decisionId
       IN IF None \in {decision[1].id, named} THEN "unchecked"
          ELSE Checked(decision[1].id = named)

\* verifyBundleLinkage
Linkage(b, expected, peers) ==
  [bind_strength_level |-> BindLevelCheck(b), bind_leaf_recomputed |-> BindLeafCheck(b),
   receipt_binds_bind |-> ReceiptCheck(b),
   outcome_leaf_recomputed |-> OutcomeLeafCheck(b.attestation, peers),
   outcome_signature |-> SignatureCheck(b.attestation, expected, peers),
   outcome_binds_decision |-> DecisionCheck(b.decision, b.attestation)]

-----------------------------------------------------------------------------
(* classifyBundleClaims and verifyEvidenceBundle.                          *)

\* Slip: a signature by the key it carries is taken for the operator's.
LabelOfAnyKey(links, id, expected) == IF links[id] = "verified" THEN "MACHINE_VERIFIED" ELSE "ASSERTED"

\* linked: a check that failed is asserted too, and so is a signature that
\* only the bundle's own key verifies.
LabelOf(links, id, expected) ==
  IF links[id] = "verified" /\ ~(id = "outcome_signature" /\ expected = None)
    THEN "MACHINE_VERIFIED" ELSE "ASSERTED"

Established(holds) == IF holds THEN "MACHINE_VERIFIED" ELSE "REFUTED"

\* verifyEvidenceBundle; its claims of what can never be established are left out.
VerifyBundle(b, expected, peers) ==
  LET errors == ValidationErrors(b)
      clean == Violations(b.found) = {}
      links == Linkage(b, expected, peers)
      label(id) == LabelOf(links, id, expected)
  IN [ok |-> errors = {} /\ clean /\ \A id \in DOMAIN links : links[id] # "failed",
      expected |-> expected, peers |-> peers, links |-> links,
      claims |-> [bind_leaf_recomputed |-> label("bind_leaf_recomputed"),
                  receipt_binds_bind |-> label("receipt_binds_bind"),
                  outcome_leaf_recomputed |-> label("outcome_leaf_recomputed"),
                  outcome_signature |-> label("outcome_signature"),
                  well_formed_v1 |-> Established(errors = {}),
                  internally_consistent |-> Established(Contradictions(b) = {}),
                  scrub_clean |-> Established(clean),
                  lineage_honest |-> Established(LineageErrors(b) = {}),
                  redactions_derived |-> IF b.derived THEN "MACHINE_VERIFIED" ELSE "ASSERTED"]]

-----------------------------------------------------------------------------
(* The operator attests, a caller exports, the publisher may edit, and a   *)
(* reader verifies.                                                        *)
EvidenceIdle == [at |-> "idle", signed |-> {}, input |-> None, bundle |-> None, edits |-> 0, report |-> None]

\* buildBlockedNeverSignedAttestation throws unless the token blocks.
AttestsRefusal ==
  /\ evidence = EvidenceIdle
  /\ \E token \in Tokens :
       LET fields == BlockedFields(token, "shop", 1)
       IN /\ fields # None /\ Encodable(fields[1])
          /\ evidence' = [evidence EXCEPT !.at = "attested", !.signed = {Attested(fields[1], OperatorKey)}]

AttestsOutcome ==
  /\ evidence = EvidenceIdle
  /\ \E fields \in Outcomes :
       /\ Encodable(fields)
       /\ evidence' = [evidence EXCEPT !.at = "attested", !.signed = {Attested(fields, OperatorKey)}]

Exports ==
  /\ evidence.at \in {"idle", "attested"}
  /\ \E input \in EvidenceInputs, attestation \in {None} \cup {<<a>> : a \in evidence.signed} :
       evidence' = [evidence EXCEPT !.at = "published", !.input = <<input>>,
                                    !.bundle = <<Export(input, attestation)>>]

\* Nobody else signs with the operator's key.
CanMake(edit) ==
  (edit.field = "attestation" /\ edit.value # None) =>
    LET a == edit.value[1]
    IN (a.signature # None /\ a.signature[1].by = OperatorKey) =>
         \E made \in evidence.signed : made.signature = a.signature

\* A publisher changes a field; MaxEdits bounds how many.
MaxEdits == 2
Edits ==
  /\ evidence.at = "published" /\ evidence.edits < MaxEdits
  /\ \E edit \in EvidenceEdits :
       /\ CanMake(edit)
       /\ evidence' = [evidence EXCEPT !.bundle[1][edit.field] = edit.value, !.edits = @ + 1]

Verifies ==
  /\ evidence.at = "published"
  /\ \E expected \in {None, <<OperatorKey>>}, peers \in Peers :
       evidence' = [evidence EXCEPT !.at = "verified",
                      !.report = <<VerifyBundle(evidence.bundle[1], expected, peers)>>]

EvidenceInit == evidence = EvidenceIdle
EvidenceNext == AttestsRefusal \/ AttestsOutcome \/ Exports \/ Edits \/ Verifies
-----------------------------------------------------------------------------
EvidenceTypeOK ==
  /\ evidence.at \in {"idle", "attested", "published", "verified"}
  /\ evidence.edits \in 0 .. MaxEdits
  /\ evidence.at = "verified" <=> evidence.report # None

Fresh == evidence.bundle # None /\ evidence.edits = 0

(* What an export publishes of a text at a path that is not published verbatim
   is nothing; what it says it removed is what it removed; and an internal
   integration is not exported as an external candidate whatever it asks. *)
ExportsNoSecrets ==
  Fresh =>
    LET b == evidence.bundle[1] IN
    /\ \A hit \in b.found : hit.path \in Verbatim /\ hit.kind # "secret_key_name"
    /\ b.redactions = evidence.input[1].found \ b.found
    /\ Internal(evidence.input[1].integration) => b.lineage = "dogfood"

\* The attestations the operator signed for the leaf a bundle carries.
Behind(b) == {a \in evidence.signed : a.leaf = b.attestation[1].leaf}

\* The hash of an offer can be computed.
Rehashable(b) ==
  /\ b.requirements # None /\ b.requirements[1].resource # "not_a_url"
  /\ b.bind # None /\ b.bind[1].leaf # None

\* The decision, the signatures it counts and the outcome shown beside it cannot
\* all be so.  Without a decision there is nothing to compare.
AtOdds(b) ==
  /\ b.decision # None
  /\ LET d == b.decision[1] IN
     \/ d.approved = <<FALSE>> /\ SignerRan(d)
     \/ d.approved = <<TRUE>> /\ d.signer = <<0>> /\ d.verdict = <<"block">>
     \/ /\ b.attestation # None
        /\ \/ b.attestation[1].outcome = "settled" /\ d.approved = <<FALSE>>
           \/ /\ b.attestation[1].outcome = "blocked_never_signed"
              /\ d.approved = <<TRUE>> \/ SignerRan(d)

\* It makes more of the run than a run of one's own can be.
Overclaims(b) ==
  \/ b.lineage = "external_candidate" /\ Internal(b.integration)
  \/ b.claimsExternalRun

\* Its receipt is for an offer that it does not publish.
ForAnotherOffer(b) ==
  /\ b.receipt # None /\ b.receipt[1].resourceBound /\ Rehashable(b)
  /\ b.receipt[1].leaf # <<OfferHash(b.requirements[1])>>

\* What a reader may take from ok.
OkMeans(b) == ~AtOdds(b) /\ ~Overclaims(b) /\ ~ForAnotherOffer(b) /\ Violations(b.found) = {}

\* What a reader may take from the signature of the leaf a bundle carries.
SignedAsShown(b, report) ==
  \A a \in Behind(b) :
    LET signed == a.preimage[1]  shown == b.attestation[1].preimage IN
    /\ HonoursContract(signed.verdict, signed.outcome, signed.tx, signed.payer)
    /\ (report.peers.keccak /\ shown # None) =>
         (Encodable(shown[1]) => OutcomeLeaf(shown[1], TRUE) = OutcomeLeaf(signed, TRUE))

ReadsVerified(report, id) == report.claims[id] = "MACHINE_VERIFIED"

\* What a reader may take from a claim's label, of a bundle that is ok or not.
LabelsAreEarned(b, report) ==
  /\ \A id \in DOMAIN report.claims \cap DOMAIN report.links :
       ReadsVerified(report, id) => report.links[id] = "verified"
  /\ ReadsVerified(report, "well_formed_v1") => ~AtOdds(b) /\ ~Overclaims(b)
  /\ ReadsVerified(report, "internally_consistent") <=> ~AtOdds(b)
  /\ ReadsVerified(report, "lineage_honest") <=> ~Overclaims(b)
  /\ ReadsVerified(report, "scrub_clean") <=> Violations(b.found) = {}
  /\ report.ok /\ ReadsVerified(report, "redactions_derived") => b.derived /\ Violations(b.found) = {}

(* A reader who gets ok has a bundle whose decision, count of signatures and
   shown outcome agree, whose lineage claims no more than it may, whose scan is
   clean and whose receipt is for the offer it publishes.  With the operator's
   key given, a signature counts only if the operator made it, of an outcome the
   contract allows; with the peers at hand the published preimage is what was
   signed, up to the transaction's anchor.  A linkage claim is machine verified
   only on a check that was carried out, and the claims of consistency, lineage
   and scrubbing only if they hold.
   Three things a reader may not take from it.  The outcome shown is compared with
   the decision and never with the signed preimage, so "blocked_never_signed" may
   stand over a signed "settled": what was signed is in the preimage.  A bundle
   without a decision, which is not ok, reads internally consistent although
   nothing was compared.  And redactions are verified as derived by the bundle's
   own word: only with ok does it say that the scan found nothing. *)
ReportIsEarned ==
  evidence.report # None =>
    LET b == evidence.bundle[1]  report == evidence.report[1]
        authentic == ReadsVerified(report, "outcome_signature")
    IN /\ report.ok => OkMeans(b)
       /\ authentic => report.expected # None /\ Behind(b) # {}
       /\ authentic /\ report.ok => SignedAsShown(b, report)
       /\ LabelsAreEarned(b, report)

EvidenceIsEarned == ExportsNoSecrets /\ ReportIsEarned

-----------------------------------------------------------------------------
(* The inductive invariant of the proofs.                                   *)

EvidenceFields == {"at", "signed", "input", "bundle", "edits", "report"}
BundleFields ==
  {"malformed", "integration", "lineage", "decision", "bind", "receipt", "requirements", "attestation",
   "claimsExternalRun", "found", "redactions", "derived"}

\* An attestation that the operator made.
Made(a) == a = Attested(a.preimage[1], OperatorKey) /\ Encodable(a.preimage[1])

\* A bundle in which the operator's signature is one that the operator made.
Authentic(b, signed) ==
  /\ b = [f \in BundleFields |-> b[f]]
  /\ MayHaveLeaf(b.bind) /\ MayHaveLeaf(b.attestation)
  /\ b.attestation # None =>
       LET a == b.attestation[1]
       IN (a.signature # None /\ a.signature[1].by = OperatorKey) =>
            \E made \in signed : made.signature = a.signature

ReportedOn(report, b) ==
  \E expected \in {None, <<OperatorKey>>}, peers \in Peers : report = <<VerifyBundle(b, expected, peers)>>

EvidenceInv ==
  /\ evidence = [f \in EvidenceFields |-> evidence[f]]
  /\ \A a \in evidence.signed : Made(a)
  /\ evidence.at \in {"idle", "attested"} => evidence.bundle = None /\ evidence.edits = 0
  /\ evidence.bundle # None => evidence.bundle = <<evidence.bundle[1]>> /\ Authentic(evidence.bundle[1], evidence.signed)
  /\ evidence.at = "published" => evidence.bundle # None
  /\ evidence.bundle # None /\ evidence.edits = 0 =>
       \E input \in EvidenceInputs : \E attestation :
         evidence.input = <<input>> /\ evidence.bundle = <<Export(input, attestation)>>
  /\ evidence.edits \in Nat
  /\ evidence.report # None =>
       evidence.at = "verified" /\ evidence.bundle # None /\ ReportedOn(evidence.report, evidence.bundle[1])

=============================================================================
