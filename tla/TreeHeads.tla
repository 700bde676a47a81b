----------------------------- MODULE TreeHeads -----------------------------
(***************************************************************************)
(* The signed heads of twzrd-log-verifier's trees: sth.ts, with the key    *)
(* directory of keydir.ts, equivocation.ts, and the trust rules of         *)
(* client.ts.  A head is a record; its signature names the key that made   *)
(* it and the preimage it was made over, so it verifies for no other key   *)
(* and no other fields.                                                    *)
(***************************************************************************)
EXTENDS Merkle, SequencesExt, FiniteSets, Optional

CONSTANTS
  Histories,   \* the entry sequences the log keeps: more than one is a fork
  Genuine      \* the heads that the log itself signed

IsList(s) == s \in Seq(ToSet(s))

ASSUME HistoriesAssumption == \A hist \in Histories : IsList(hist) /\ Len(hist) <= MaxTreeSize

-----------------------------------------------------------------------------
(* Heads.                                                                  *)

RootAt(hist, size) == MerkleRoot(SubSeq(hist, 1, size))

Describes(hist, h) == h.tree_size <= Len(hist) /\ h.root = RootAt(hist, h.tree_size)

NoName == "no name"   \* a key_id or key that is absent

KnownDomains == {"V1", "V2"}

\* encodeSthPreimage throws: a V2 head names its key, a V1 head may not.
Encodes(h) ==
  /\ h.domain \in KnownDomains
  /\ h.domain = "V1" <=> h.key_id = NoName
  /\ IsHash(h.root)

Preimage(h) ==
  <<h.domain, h.log_id, h.key_id, h.tree_size, h.timestamp_unix, h.root>>

-----------------------------------------------------------------------------
(* keydir.ts.  A directory is the record of a log and its sequence of keys *)
(* [key_id, public_key, mode, from, to]; to = None is open-ended.          *)

Covers(k, t) == k.from <= t /\ (k.to # None => t < k.to[1])

Overlap(a, b) ==
  /\ a.from <= b.from
  /\ a.to = None \/ b.from < a.to[1]

\* validateLogKeyDirectory reports nothing.
ValidDirectory(dir) ==
  /\ dir.keys # <<>>
  /\ \A i, j \in DOMAIN dir.keys : i # j =>
       /\ dir.keys[i].key_id # dir.keys[j].key_id
       /\ ~Overlap(dir.keys[i], dir.keys[j])
  /\ \A i \in DOMAIN dir.keys :
       dir.keys[i].to # None => dir.keys[i].from < dir.keys[i].to[1]
  /\ Cardinality({i \in DOMAIN dir.keys : dir.keys[i].mode = "sign"}) <= 1

EntriesOf(dir, keyId) == SelectSeq(dir.keys, LAMBDA k : k.key_id = keyId)

\* resolveLogKey finds an entry and has nothing to say against it.
Resolved(dir, h) ==
  SelectSeq(EntriesOf(dir, h.key_id), LAMBDA k : Covers(k, h.timestamp_unix))

-----------------------------------------------------------------------------
(* verifySth, against one pinned key or a pinned directory.                *)

PinnedKey(key) == [kind |-> "key", key |-> key]
PinnedDirectory(dir) == [kind |-> "directory", dir |-> dir]

TrustedKeys(h, trusted) ==
  IF trusted.kind = "key" THEN {trusted.key}
  ELSE IF trusted.dir.log_id # h.log_id \/ h.key_id = NoName THEN {}
  ELSE {k.public_key : k \in ToSet(Resolved(trusted.dir, h))}

\* signing_pubkey is advisory: it must agree with the trusted key if present.
ValidHead(h, trusted) ==
  /\ Encodes(h)
  /\ \E key \in TrustedKeys(h, trusted) :
       /\ h.signing_pubkey \in {NoName, key}
       /\ h.signature = [by |-> key, over |-> Preimage(h)]

\* signSth
Signed(fields, key) ==
  [domain |-> fields.domain, log_id |-> fields.log_id, key_id |-> fields.key_id,
   tree_size |-> fields.tree_size, timestamp_unix |-> fields.timestamp_unix,
   root |-> fields.root, signing_pubkey |-> key,
   signature |-> [by |-> key, over |-> Preimage(fields)]]

-----------------------------------------------------------------------------
(* checkEquivocation: path is None or <<p>>.  Only two heads of one size   *)
(* convict; a path is not signed and convicts nobody.                      *)

Older(a, b) == IF a.tree_size < b.tree_size THEN a ELSE b
Newer(a, b) == IF a.tree_size < b.tree_size THEN b ELSE a

\* Slip: a path that does not verify convicts the log.
ConvictsOnPath(a, b, trusted, path) ==
  /\ ValidHead(a, trusted) /\ ValidHead(b, trusted)
  /\ a.log_id = b.log_id
  /\ \/ a.tree_size = b.tree_size /\ a.root # b.root
     \/ /\ a.tree_size # b.tree_size /\ path # None
        /\ ~VerifyConsistency(Older(a, b).tree_size, Older(a, b).root,
                              Newer(a, b).tree_size, Newer(a, b).root, path[1])

Convicts(a, b, trusted, path) ==
  /\ ValidHead(a, trusted) /\ ValidHead(b, trusted)
  /\ a.log_id = b.log_id
  /\ a.tree_size = b.tree_size
  /\ a.root # b.root

\* consistency_verified = true
ProvesExtension(a, b, trusted, path) ==
  /\ ValidHead(a, trusted) /\ ValidHead(b, trusted)
  /\ a.log_id = b.log_id
  /\ a.tree_size # b.tree_size
  /\ path # None
  /\ VerifyConsistency(Older(a, b).tree_size, Older(a, b).root,
                       Newer(a, b).tree_size, Newer(a, b).root, path[1])

-----------------------------------------------------------------------------
(* client.ts: whose keys are trusted, and what an inclusion block proves.  *)

\* keyDirectoryFromDescriptor throws on a directory that does not validate.
AdvertisedTrust(d) ==
  IF d.keys # <<>>
    THEN IF ValidDirectory(d) THEN <<PinnedDirectory(d)>> ELSE None
  ELSE IF d.sth_pubkey # NoName THEN <<PinnedKey(d.sth_pubkey)>> ELSE None

\* resolveTrust: None when it throws; a caller's pin always wins.
ResolveTrust(pin, descriptor, trustDescriptorKeys) ==
  IF pin # None THEN <<[trusted |-> pin[1], tofu |-> FALSE]>>
  ELSE IF trustDescriptorKeys /\ descriptor # None /\ AdvertisedTrust(descriptor[1]) # None
    THEN <<[trusted |-> AdvertisedTrust(descriptor[1])[1], tofu |-> TRUE]>>
  ELSE None

TargetsHead(proof, sth) == proof.tree_size \in {None, <<sth.tree_size>>}

\* verifyLogInclusion: every leaf named must agree; the result is `valid`.
InclusionHolds(leaves, proof, sth, trusted) ==
  /\ Cardinality(leaves) = 1
  /\ sth # None
  /\ proof.leaf_index \in Nat
  /\ ValidHead(sth[1], trusted)
  /\ TargetsHead(proof, sth[1])
  /\ VerifyInclusion(CHOOSE l \in leaves : TRUE, proof.leaf_index,
                     IF proof.tree_size = None THEN sth[1].tree_size ELSE proof.tree_size[1],
                     proof.audit_path, sth[1].root)
=============================================================================
