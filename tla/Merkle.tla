------------------------------- MODULE Merkle -------------------------------
(***************************************************************************)
(* The trees of twzrd-log-verifier.  merkle.ts has the RFC 6962 tree over  *)
(* the log's entries, the proofs the log serves, and the two verifiers a   *)
(* relying party runs.  Hashes are free terms: two hashes are equal only   *)
(* when what was hashed is, which is what collision resistance gives.      *)
(***************************************************************************)
EXTENDS Integers, Sequences

MaxProofDepth == 32

\* The sizes up to which a tree's consistency proofs have MaxProofDepth hashes at most.
MaxTreeSize == 2147483647

EmptyRoot == <<"empty">>
LeafHash(e) == <<"leaf", e>>
NodeHash(l, r) == <<"node", l, r>>

\* A string of another length than 32 bytes in place of a hash.
NotAHash == <<"short">>
IsHash(x) == x # NotAHash

-----------------------------------------------------------------------------
(* Generation: the tree of entries[start:end) and its proofs.              *)

\* The largest power of two below n, by doubling.
SplitPoint(n) ==
  LET double[k \in 1 .. n] == IF 2 * k < n THEN double[2 * k] ELSE k
  IN double[1]

Spans(entries) == {se \in (0 .. Len(entries)) \X (0 .. Len(entries)) : se[1] <= se[2]}

\* mth: the hash of every span of the entries.
SpanHash(entries) ==
  LET mth[se \in Spans(entries)] ==
        LET s == se[1]  e == se[2]  k == SplitPoint(e - s)
        IN IF e = s THEN EmptyRoot
           ELSE IF e = s + 1 THEN LeafHash(entries[e])
           ELSE NodeHash(mth[<<s, s + k>>], mth[<<s + k, e>>])
  IN mth

MerkleRoot(entries) == SpanHash(entries)[<<0, Len(entries)>>]

\* The spans that hold the n-th entry.
SpansOver(entries, n) == {se \in Spans(entries) : se[1] < n /\ n <= se[2]}

InclusionProof(entries, index) ==
  LET mth == SpanHash(entries)
      path[se \in SpansOver(entries, index + 1)] ==
        LET s == se[1]  e == se[2]  k == SplitPoint(e - s)
        IN IF e = s + 1 THEN <<>>
           ELSE IF index < s + k
             THEN Append(path[<<s, s + k>>], mth[<<s + k, e>>])
             ELSE Append(path[<<s + k, e>>], mth[<<s, s + k>>])
  IN path[<<0, Len(entries)>>]

\* subproof's flag `complete` holds on the spans that start at the first entry.
ConsistencyProof(entries, oldSize) ==
  LET mth == SpanHash(entries)
      subproof[se \in SpansOver(entries, oldSize)] ==
        LET s == se[1]  e == se[2]  k == SplitPoint(e - s)
        IN IF oldSize = e THEN (IF s = 0 THEN <<>> ELSE <<mth[se]>>)
           ELSE IF oldSize <= s + k
             THEN Append(subproof[<<s, s + k>>], mth[<<s + k, e>>])
             ELSE Append(subproof[<<s + k, e>>], mth[<<s, s + k>>])
  IN IF oldSize \in {0, Len(entries)} THEN <<>> ELSE subproof[<<0, Len(entries)>>]

-----------------------------------------------------------------------------
(* Verification: a walk from the leaf (or the old tree's last full node)   *)
(* to the root; fn and sn are the node's and the last node's positions.    *)

Even(n) == n % 2 = 0

\* Both positions one level up.
Parent(pos) == [fn |-> pos.fn \div 2, sn |-> pos.sn \div 2]

\* Where a walk up from pos may be.
Below(pos) == [fn : 0 .. pos.fn, sn : 0 .. pos.sn]

\* Past the levels where fn is a left edge.
SkipLevels(pos) ==
  LET up[p \in Below(pos)] == IF Even(p.fn) /\ p.fn # 0 THEN up[Parent(p)] ELSE p
  IN up[pos]

\* The sibling to be hashed in is a left one.
SiblingIsLeft(pos) == ~Even(pos.fn) \/ pos.fn = pos.sn

Above(pos) == Parent(IF SiblingIsLeft(pos) THEN SkipLevels(pos) ELSE pos)

InclusionStep(w, p) ==
  IF w.pos.sn = 0 THEN [ok |-> FALSE, r |-> w.r, pos |-> w.pos]
  ELSE [ok |-> w.ok,
        r |-> IF SiblingIsLeft(w.pos) THEN NodeHash(p, w.r) ELSE NodeHash(w.r, p),
        pos |-> Above(w.pos)]

InclusionWalk(start, path) ==
  LET after[i \in 0 .. Len(path)] == IF i = 0 THEN start ELSE InclusionStep(after[i - 1], path[i])
  IN after[Len(path)]

VerifyInclusion(entry, index, treeSize, path, root) ==
  /\ index \in Nat /\ treeSize \in Nat \ {0} /\ index < treeSize
  /\ Len(path) <= MaxProofDepth
  /\ IsHash(root)
  /\ \A i \in DOMAIN path : IsHash(path[i])
  /\ LET start == [ok |-> TRUE, r |-> LeafHash(entry),
                   pos |-> [fn |-> index, sn |-> treeSize - 1]]
         end == InclusionWalk(start, path)
     IN end.ok /\ end.pos.sn = 0 /\ end.r = root

ConsistencyStep(w, c) ==
  IF w.pos.sn = 0 THEN [ok |-> FALSE, fr |-> w.fr, sr |-> w.sr, pos |-> w.pos]
  ELSE IF SiblingIsLeft(w.pos)
    THEN [ok |-> w.ok, fr |-> NodeHash(c, w.fr), sr |-> NodeHash(c, w.sr),
          pos |-> Above(w.pos)]
    ELSE [ok |-> w.ok, fr |-> w.fr, sr |-> NodeHash(w.sr, c), pos |-> Above(w.pos)]

IsPowerOfTwo(n) == n = 1 \/ n = 2 * SplitPoint(n)

\* The lowest level on which the old tree's last node is a left child.
LastFullNode(pos) ==
  LET up[p \in Below(pos)] == IF Even(p.fn) THEN p ELSE up[Parent(p)]
  IN up[pos]

\* The walk starts with the first node on both sides.
ConsistencyWalk(nodes, pos) ==
  LET after[i \in 1 .. Len(nodes)] ==
        IF i = 1 THEN [ok |-> TRUE, fr |-> nodes[1], sr |-> nodes[1], pos |-> pos]
        ELSE ConsistencyStep(after[i - 1], nodes[i])
  IN after[Len(nodes)]

WalksToBoth(end, firstRoot, secondRoot) ==
  end.ok /\ end.pos.sn = 0 /\ end.fr = firstRoot /\ end.sr = secondRoot

VerifyConsistency(firstSize, firstRoot, secondSize, secondRoot, path) ==
  /\ firstSize \in Nat /\ secondSize \in Nat /\ firstSize <= secondSize
  /\ IsHash(firstRoot) /\ IsHash(secondRoot)
  /\ Len(path) <= MaxProofDepth
  /\ \A i \in DOMAIN path : IsHash(path[i])
  /\ IF firstSize = secondSize THEN path = <<>> /\ firstRoot = secondRoot
     ELSE IF firstSize = 0 THEN path = <<>>
     ELSE /\ path # <<>>
          /\ LET nodes == IF IsPowerOfTwo(firstSize) THEN <<firstRoot>> \o path ELSE path
             IN WalksToBoth(ConsistencyWalk(nodes, LastFullNode([fn |-> firstSize - 1, sn |-> secondSize - 1])),
                            firstRoot, secondRoot)
=============================================================================
