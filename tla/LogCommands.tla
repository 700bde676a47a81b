---------------------------- MODULE LogCommands ----------------------------
(***************************************************************************)
(* What twzrd-log-verify answers of files its user holds: the commands     *)
(* inclusion, consistency and equivocation of cli.ts, and the check of an  *)
(* on-chain anchor of anchor.ts.  A transaction is [signatures, message];  *)
(* a signature names its key and the message it was made over.             *)
(***************************************************************************)
EXTENDS TreeHeads

CONSTANTS
  CommandHeads,   \* the heads the user may hold
  CommandPaths,   \* the consistency paths
  Inclusions,     \* the inclusion proofs: [leaves, proof]
  CommandTrust,   \* the pin
  Authority,      \* the pinned anchor authority
  Program,        \* the pinned program
  Ledgers,        \* the ledger pin: None or <<account>>
  RpcAnswers,     \* what the RPC may answer: None, or [raw, succeeded]
  AuthoritySigned \* the messages the authority really signed

\* Nobody but the log and the authority signs with their keys; a file names
\* finitely many leaves and a list of hashes.
ASSUME CommandHeadsAssumption == \A h \in CommandHeads : ValidHead(h, CommandTrust) => h \in Genuine
ASSUME AuthorityAssumption ==
  \A answer \in RpcAnswers \ {None} :
    LET signatures == answer[1].raw.signatures
    IN \A i \in 1 .. Len(signatures) :
         signatures[i].by = Authority => signatures[i].over \in AuthoritySigned
ASSUME InclusionsAssumption ==
  \A given \in Inclusions : IsFiniteSet(given.leaves) /\ IsList(given.proof.audit_path)
ASSUME CommandPathsAssumption == \A path \in CommandPaths : IsList(path)

VARIABLE command   \* [at, heads, leaf, index, tx, ledger, convicts]
commandVars == <<command>>

CommandIdle == [at |-> "idle", heads |-> <<>>, leaf |-> None, index |-> None, tx |-> None,
                ledger |-> None, convicts |-> FALSE]

Exits(kind, heads, ok) ==
  command' = [command EXCEPT !.at = kind, !.heads = IF ok THEN heads ELSE <<>>]

-----------------------------------------------------------------------------
(* cli.ts.  A command that exits 0 keeps what it found valid.              *)

\* Slip: the proof is checked against a head that nobody has signed.
InclusionUnderAnyHead(sth, given) ==
  VerifyInclusion(CHOOSE l \in given.leaves : TRUE, given.proof.leaf_index, sth.tree_size,
                  given.proof.audit_path, sth.root)

\* cmdInclusion: of one leaf, whichever of its two file layouts is used
IncludedUnder(sth, given) == InclusionHolds(given.leaves, given.proof, <<sth>>, CommandTrust)

Inclusion ==
  /\ command = CommandIdle
  /\ \E sth \in CommandHeads, given \in Inclusions :
       IF IncludedUnder(sth, given)
         THEN command' = [command EXCEPT !.at = "inclusion", !.heads = <<sth>>,
                            !.leaf = <<CHOOSE l \in given.leaves : TRUE>>, !.index = <<given.proof.leaf_index>>]
       ELSE Exits("inclusion", <<>>, FALSE)

\* cmdConsistency
Extends(old, new, path) ==
  /\ ValidHead(old, CommandTrust) /\ ValidHead(new, CommandTrust)
  /\ old.log_id = new.log_id
  /\ VerifyConsistency(old.tree_size, old.root, new.tree_size, new.root, path)

Consistency ==
  /\ command = CommandIdle
  /\ \E old, new \in CommandHeads, path \in CommandPaths :
       Exits("consistency", <<old, new>>, Extends(old, new, path))

\* cmdEquivocation: it exits 0 unless a head is invalid or a path fails; the
\* finding is apart from that.
Equivocation ==
  /\ command = CommandIdle
  /\ \E a, b \in CommandHeads, path \in {None} \cup {<<p>> : p \in CommandPaths} :
       LET checked == /\ ValidHead(a, CommandTrust) /\ ValidHead(b, CommandTrust)
                      /\ \/ a.log_id # b.log_id \/ a.tree_size = b.tree_size \/ path = None
                         \/ ProvesExtension(a, b, CommandTrust, path)
       IN command' = [command EXCEPT !.at = "equivocation", !.heads = IF checked THEN <<a, b>> ELSE <<>>,
                        !.convicts = Convicts(a, b, CommandTrust, path)]

-----------------------------------------------------------------------------
(* anchor.ts.                                                              *)

\* parseRawTransaction
Parses(raw) ==
  /\ Len(raw.signatures) = raw.message.required
  /\ raw.message.required <= Len(raw.message.keys)

Identity(raw) == raw.signatures[1]

\* Slip: the header's word is taken for who signed.
HeaderNamesSigners(raw) == TRUE

\* verifyTransactionSignatures
SignaturesVerify(raw) ==
  \A i \in 1 .. raw.message.required :
    raw.signatures[i] = [by |-> raw.message.keys[i], over |-> raw.message]

SignersOf(raw) == {raw.message.keys[i] : i \in 1 .. raw.message.required}

\* fetchAnchorTransaction: the transaction asked for, as the RPC answers it.
Fetched(tx, answer) ==
  /\ answer # None
  /\ LET raw == answer[1].raw IN
     /\ Parses(raw) /\ raw.signatures # <<>>
     /\ Identity(raw) = tx
     /\ SignaturesVerify(raw)

\* anchorMatchesSth; a memo carries no timestamp.
MatchesSth(payload, sth) ==
  /\ payload.log_id = sth.log_id
  /\ payload.tree_size = sth.tree_size
  /\ payload.root = sth.root
  /\ payload.timestamp \in {None, <<sth.timestamp_unix>>}

HeadBinds(ix, sth, ledger) ==
  /\ ix.kind = "anchor_head" /\ ix.program = Program
  /\ MatchesSth(ix.payload, sth)
  /\ ix.authority = Authority
  /\ ledger = None \/ ix.ledger = ledger[1]

\* A memo binds whatever program and ledger are pinned.
MemoBinds(ix, sth) == ix.kind = "memo" /\ MatchesSth(ix.payload, sth)

Binds(message, sth, ledger) ==
  \E i \in DOMAIN message.instructions :
    HeadBinds(message.instructions[i], sth, ledger) \/ MemoBinds(message.instructions[i], sth)

\* verifyAnchor
AnchorHolds(sth, tx, ledger, answer) ==
  /\ ValidHead(sth, CommandTrust)
  /\ Fetched(tx, answer)
  /\ answer[1].succeeded
  /\ Binds(answer[1].raw.message, sth, ledger)
  /\ Authority \in SignersOf(answer[1].raw)

AsksRpc ==
  /\ command = CommandIdle
  /\ \E sth \in CommandHeads, answer \in RpcAnswers \ {None}, ledger \in Ledgers :
       command' = [command EXCEPT !.at = "asked", !.heads = <<sth>>,
                     !.tx = <<Identity(answer[1].raw)>>, !.ledger = ledger]

Anchor ==
  /\ command.at = "asked"
  /\ \E answer \in RpcAnswers :
       Exits("anchor", command.heads,
             AnchorHolds(command.heads[1], command.tx[1], command.ledger, answer))

CommandInit == command = CommandIdle
CommandNext == Inclusion \/ Consistency \/ Equivocation \/ AsksRpc \/ Anchor
-----------------------------------------------------------------------------
CommandTypeOK ==
  /\ command.at \in {"idle", "asked", "inclusion", "consistency", "equivocation", "anchor"}
  /\ command.convicts => command.at = "equivocation" /\ Len(command.heads) = 2

Found(kind) == command.at = kind /\ command.heads # <<>>

(* Whatever files and answers a command is given, VALID says something about
   the pinned log: the leaf is where the proof says it is in a tree it signed
   (the self-test tries a wrong index, cli.ts:606); its two heads are of one history; only two roots it signed for one size convict it; and the pinned
   authority signed a message that binds the head, which no RPC can make up. *)
CommandsProve ==
  /\ Found("inclusion") =>
       \E hist \in Histories : /\ command.heads[1] \in Genuine
                               /\ Describes(hist, command.heads[1])
                               /\ command.index[1] \in 0 .. command.heads[1].tree_size - 1
                               /\ command.leaf = <<hist[command.index[1] + 1]>>
  /\ Found("consistency") =>
       /\ ToSet(command.heads) \subseteq Genuine
       /\ \E hist \in Histories : \A h \in ToSet(command.heads) : Describes(hist, h)
  /\ command.convicts =>
       /\ ToSet(command.heads) \subseteq Genuine
       /\ ~\E hist \in Histories : \A h \in ToSet(command.heads) : Describes(hist, h)
  /\ Found("anchor") =>
       /\ command.heads[1] \in Genuine
       /\ \E message \in AuthoritySigned : Binds(message, command.heads[1], command.ledger)
=============================================================================
