-------------------------- MODULE MCBuyerSurfaces --------------------------
EXTENDS BuyerSurfaces, TLC

-----------------------------------------------------------------------------
(* The log and its monitor.                                                *)
CONSTANTS o1, o2, o3, d1, d2

MCObservers == {o1, o2, o3}

HistoryA == <<"r1", "r2", "r3", "r4", "r5", "r6">>
HistoryB == <<"r1", "r2", "x3", "x4">>
MCHistories == {HistoryA, HistoryB}

\* k1 signed until time 3, k2 signs since.
Directory ==
  [log_id |-> "log",
   keys |-> << [key_id |-> "k1", public_key |-> "P1", mode |-> "verify-only", from |-> 0, to |-> <<3>>],
               [key_id |-> "k2", public_key |-> "P2", mode |-> "sign", from |-> 3, to |-> None] >>]
MCTrusted == PinnedDirectory(Directory)

Fields(log, keyId, hist, size, time) ==
  [domain |-> "V2", log_id |-> log, key_id |-> keyId, tree_size |-> size,
   timestamp_unix |-> time, root |-> RootAt(hist, size)]

MCGenuine ==
  { Signed(Fields("log", "k1", HistoryA, 2, 1), "P1"),
    Signed(Fields("log", "k1", HistoryA, 3, 2), "P1"),
    Signed(Fields("log", "k2", HistoryB, 3, 3), "P2"),
    Signed(Fields("log", "k2", HistoryB, 4, 4), "P2"),
    Signed(Fields("log", "k2", HistoryA, 5, 4), "P2"),
    Signed(Fields("log", "k2", HistoryA, 6, 5), "P2") }

\* Signed by the retired key for a later time, by nobody, and by another log.
Forged ==
  { Signed(Fields("log", "k1", HistoryB, 4, 5), "P1"),
    Signed(Fields("log", "k2", HistoryB, 4, 4), "P9"),
    Signed(Fields("other", "k2", HistoryA, 4, 4), "P2") }

MCHeads == MCGenuine \cup Forged

MCPaths ==
  {ConsistencyProof(SubSeq(HistoryA, 1, mn[2]), mn[1]) :
     mn \in {<<2, 3>>, <<2, 5>>, <<3, 5>>, <<3, 6>>, <<5, 6>>}}
    \cup {ConsistencyProof(SubSeq(HistoryB, 1, n), m) : m \in {2, 3}, n \in {3, 4}}
    \cup {<<>>, <<NotAHash>>, <<EmptyRoot>>}

MCDeskCalls == {d1, d2}

MCSymmetry == Permutations(MCObservers) \cup Permutations(MCDeskCalls)

-----------------------------------------------------------------------------
(* The 402s, the intel answers and the hook's options.                     *)
W == [evm |-> FALSE, id |-> "w", spelling |-> "w"]
ELower == [evm |-> TRUE, id |-> "e", spelling |-> "lower"]
EMixed == [evm |-> TRUE, id |-> "e", spelling |-> "mixed"]

Entry(amount, payTo, network, asset) ==
  [amount |-> <<amount>>, maxAmountRequired |-> None, payTo |-> <<payTo>>, pay_to |-> None,
   network |-> network, asset |-> asset, resource |-> <<"shop">>, feePayer |-> None]

Plain == Entry(2, W, "solana", <<"usdc_mainnet">>)

MCReqs ==
  { Plain,
    [Plain EXCEPT !.maxAmountRequired = <<3>>],
    [Plain EXCEPT !.amount = None],
    [Plain EXCEPT !.amount = <<-1>>],
    [Plain EXCEPT !.amount = None, !.maxAmountRequired = <<3>>],
    [Plain EXCEPT !.payTo = None],
    [Plain EXCEPT !.asset = <<"usdc_devnet">>],
    [Plain EXCEPT !.asset = None, !.network = "missing"],
    [Plain EXCEPT !.network = "devnet_genesis", !.asset = <<"usdc_devnet">>],
    [Entry(2, ELower, "base", <<"usdc_base">>) EXCEPT !.pay_to = <<EMixed>>],
    Entry(2, ELower, "polygon", <<"other_token">>),
    Entry(4, W, "solana", <<"usdc_mainnet">>) }

Card0 == [decision |-> <<"allow">>, trust_score |-> 50, null_reason |-> "none", score |-> "number",
          can_spend |-> None, cap |-> None]
MCPreflights ==
  { None, <<Card0>>, <<[Card0 EXCEPT !.cap = <<2>>]>>,
    <<[Card0 EXCEPT !.decision = <<"warn">>]>>,
    <<[Card0 EXCEPT !.decision = <<"warn">>, !.cap = <<2>>]>>,
    <<[Card0 EXCEPT !.decision = None, !.cap = <<3>>, !.null_reason = "unknown_subject"]>>,
    <<[Card0 EXCEPT !.decision = <<"block">>]>>,
    <<[Card0 EXCEPT !.trust_score = 20, !.can_spend = <<FALSE>>]>> }

Wash(flagged, confidence) ==
  Lookup([kind |-> "card", card |-> [washFlagged |-> flagged, washStale |-> FALSE,
          ringEvaluated |-> None, washConfidence |-> confidence]])
MCLookups ==
  { Lookup([kind |-> "late"]), Lookup([kind |-> "client_error"]),
    Wash(<<FALSE>>, "full"), Wash(<<TRUE>>, "full"), Wash(<<TRUE>>, "partial"), Wash(None, "full") }

Written == [minScore |-> None, blocks |-> {"block"}, failOpen |-> "unset", gateOnCanSpend |-> "unset",
            refuseUnevaluated |-> "unset", refuseUncappedWarn |-> "unset", refuseWashFlagged |-> TRUE,
            refuseWashUnknown |-> "unset", washMax |-> None, mode |-> "observe"]
Default == ResolveConfig(Written)
Lenient == ResolveConfig([Written EXCEPT !.failOpen = "on", !.refuseUnevaluated = "off",
                          !.refuseUncappedWarn = "off", !.refuseWashUnknown = "off", !.washMax = <<2>>])
Typos == ResolveConfig([Written EXCEPT !.failOpen = "typo", !.refuseUnevaluated = "typo",
                        !.refuseUncappedWarn = "typo", !.mode = "strict"])

Installed(cfg) == [cfg |-> cfg, control |-> FALSE, clearance |-> None, receiptSet |-> FALSE, receipt |-> None,
              escalateSet |-> FALSE, escalate |-> None, x402 |-> FALSE]
Buys(hard) == [hard |-> hard, record |-> None, issuer |-> TRUE, keys |-> <<[issuer |-> "ik"]>>]
EveryWarn == <<[min |-> 1, onWarn |-> TRUE, hard |-> TRUE, material |-> FALSE]>>
MCHookOptions ==
  { Installed(Default), Installed(Lenient), Installed(Typos),
    [Installed(Lenient) EXCEPT !.control = TRUE, !.x402 = TRUE],
    [Installed(Lenient) EXCEPT !.x402 = TRUE, !.receiptSet = TRUE, !.receipt = EveryWarn, !.escalateSet = TRUE],
    [Installed(Default) EXCEPT !.receiptSet = TRUE, !.receipt = EveryWarn],
    [Installed(Lenient) EXCEPT !.control = TRUE, !.x402 = TRUE, !.clearance = <<Buys(TRUE)>>],
    [Installed(Default) EXCEPT !.clearance = <<[Buys(TRUE) EXCEPT !.record = <<RecordFor(Plain, "allow", "ALLOW", 5, None, "issuer", "ik")>>]>>],
    [Installed(Lenient) EXCEPT !.x402 = TRUE, !.clearance = <<Buys(FALSE)>>, !.receiptSet = TRUE, !.receipt = EveryWarn] }

MCRecords ==
  { RecordFor(Plain, "allow", "ALLOW", 5, None, "issuer", "ik"),
    RecordFor(Plain, "allow", "ALLOW", 5, None, "issuer", "other"),
    RecordFor(Plain, "allow", "ALLOW", 1, None, "issuer", "ik"),
    RecordFor(Plain, "block", "INTEL_BLOCK", 5, None, "issuer", "ik"),
    RecordFor(Plain, "unavailable", "INTEL_UNAVAILABLE", 5, None, "issuer", "ik"),
    RecordFor(Plain, "allow", "ALLOW", 5, <<"d">>, "issuer", "ik") }

-----------------------------------------------------------------------------
(* Evaluations of a resource.                                              *)
EvaluationOf(cfg) ==
  [cfg |-> cfg, autoReceipt |-> FALSE, receipt |-> None, escalate |-> None, x402 |-> TRUE,
   logPolicy |-> None, pin |-> <<MCTrusted>>, trustDescriptorKeys |-> FALSE]
StrictLog == [wired |-> TRUE, hard |-> TRUE, onPending |-> "deny", refuseTofu |-> TRUE]

MCEvalOptions ==
  { [EvaluationOf(Default) EXCEPT !.receipt = EveryWarn, !.x402 = FALSE],
    [EvaluationOf(Lenient) EXCEPT !.autoReceipt = TRUE, !.logPolicy = <<StrictLog>>],
    [EvaluationOf(Lenient) EXCEPT !.receipt = EveryWarn, !.logPolicy = <<StrictLog>>,
                                !.pin = None, !.trustDescriptorKeys = TRUE],
    [EvaluationOf(Lenient) EXCEPT !.receipt = EveryWarn, !.escalate = <<[min |-> 3, floor |-> <<60>>]>>],
    [EvaluationOf(Typos) EXCEPT !.autoReceipt = TRUE, !.logPolicy = <<[StrictLog EXCEPT !.wired = FALSE]>>],
    [EvaluationOf(Lenient) EXCEPT !.autoReceipt = TRUE, !.pin = None, !.trustDescriptorKeys = TRUE,
        !.logPolicy = <<[StrictLog EXCEPT !.hard = FALSE, !.onPending = "allow", !.refuseTofu = FALSE]>>] }

MCReceipts == { None, <<[leaf |-> None]>>, <<[leaf |-> <<"r2">>]>>, <<[leaf |-> <<"r4">>]>>, <<[leaf |-> <<"x3">>]>>,
                <<[leaf |-> <<"mine">>]>> }

\* A log that advertises a key of its own, over a tree with one more entry.
OwnDirectory == [log_id |-> "log", sth_pubkey |-> NoName,
  keys |-> << [key_id |-> "k2", public_key |-> "P9", mode |-> "sign", from |-> 0, to |-> None] >>]
OwnTree == <<"mine">>
OwnHead == Signed(Fields("log", "k2", OwnTree, 1, 4), "P9")

Proof(tree, index, size) == [leaf_index |-> index, tree_size |-> size, audit_path |-> InclusionProof(tree, index)]
Answers(descriptor, path, sth) == [descriptor |-> descriptor, proof |-> "answers", path |-> <<path>>, sth |-> sth]
HeadOf(size) == CHOOSE h \in MCGenuine : h.tree_size = size
MCLogAnswers ==
  { [descriptor |-> None, proof |-> "not_merged", path |-> None, sth |-> None],
    [descriptor |-> <<OwnDirectory>>, proof |-> "fails", path |-> None, sth |-> None],
    Answers(<<OwnDirectory>>, Proof(OwnTree, 0, <<1>>), <<OwnHead>>),
    Answers(None, Proof(SubSeq(HistoryA, 1, 5), 3, None), <<HeadOf(5)>>),
    Answers(None, Proof(SubSeq(HistoryA, 1, 5), 1, <<5>>), <<HeadOf(5)>>),
    Answers(None, Proof(HistoryA, 1, <<5>>), <<HeadOf(5)>>),
    Answers(None, Proof(SubSeq(HistoryA, 1, 2), 1, <<2>>), <<HeadOf(2)>>),
    Answers(None, Proof(HistoryB, 2, <<4>>), <<HeadOf(4)>>),
    Answers(None, Proof(HistoryB, 2, <<4>>), None) }

-----------------------------------------------------------------------------
(* MPP challenges and guards.                                              *)
NoSide == [recipient |-> None, currency |-> None, amount |-> None, decimals |-> None,
           cluster |-> None, network |-> None, chainId |-> None, other |-> FALSE]
Charged(method, top, nested) ==
  [method |-> method, intent |-> "charge", top |-> top, nested |-> nested, splits |-> FALSE,
   sponsored |-> FALSE, machineToken |-> FALSE, expires |-> None]
SolanaTop == [NoSide EXCEPT !.recipient = <<W>>, !.currency = <<"usdc_mainnet">>, !.amount = <<2>>]
Details == [NoSide EXCEPT !.decimals = <<6>>, !.network = <<"mainnet">>]
Usdc == Charged("solana", SolanaTop, Details)
TempoTop == [NoSide EXCEPT !.recipient = <<ELower>>, !.currency = <<"usdc_e">>, !.amount = <<2>>, !.chainId = <<"tempo">>]
Tempo == Charged("tempo", TempoTop, NoSide)

MCChallenges ==
  { Usdc, [Usdc EXCEPT !.splits = TRUE], [Usdc EXCEPT !.sponsored = TRUE],
    [Usdc EXCEPT !.top.network = <<"mainnet-beta">>],
    [Usdc EXCEPT !.top.network = <<"mainnet-beta">>, !.nested.network = <<"devnet">>],
    [Usdc EXCEPT !.nested.amount = <<1>>],
    [Usdc EXCEPT !.nested.network = <<"devnet">>, !.top.currency = <<"usdc_devnet">>],
    [Usdc EXCEPT !.nested.network = <<"devnet">>],
    [Usdc EXCEPT !.nested.decimals = <<9>>],
    [Usdc EXCEPT !.nested.network = <<"rpc">>],
    [Usdc EXCEPT !.nested.cluster = <<"mainnet-beta">>],
    [Usdc EXCEPT !.nested.cluster = <<"mainnet">>, !.nested.network = <<"devnet">>],
    [Usdc EXCEPT !.nested.cluster = <<"devnet">>, !.nested.network = <<"devnet">>, !.top.network = <<"mainnet">>],
    [Usdc EXCEPT !.top.currency = <<"usdt_mainnet">>],
    [Usdc EXCEPT !.top.recipient = None, !.nested.recipient = <<W>>],
    [Usdc EXCEPT !.top.amount = <<-1>>],
    [Usdc EXCEPT !.intent = "session"],
    Tempo, [Tempo EXCEPT !.nested.chainId = <<"moderato">>],
    [Tempo EXCEPT !.top.network = <<"tempo">>, !.top.currency = <<"ousd">>, !.expires = <<5>>],
    [Tempo EXCEPT !.expires = <<2>>], [Tempo EXCEPT !.top.chainId = <<"chain1">>],
    [Tempo EXCEPT !.machineToken = TRUE], [Tempo EXCEPT !.top.decimals = <<6>>],
    [Tempo EXCEPT !.method = "card"] }

Guard == [intelligence |-> None, treatWarnAsBlock |-> "unset", allowUnevaluated |-> FALSE, now |-> 2]
MCMppOptions ==
  { Guard, [Guard EXCEPT !.allowUnevaluated = TRUE, !.treatWarnAsBlock = "on"],
    [Guard EXCEPT !.intelligence = <<IntegrationCfg(Written, FALSE)>>],
    [Guard EXCEPT !.intelligence = <<IntegrationCfg([Written EXCEPT !.failOpen = "on"], TRUE)>>] }

-----------------------------------------------------------------------------
(* Vault spends.                                                           *)
SpendOf(amount) ==
  [kind |-> "spend", vault |-> "vault", amount |-> amount, recipient |-> "shop", mint |-> "usdc",
   agent |-> "agent", desk |-> "desk", receipt |-> "r"]
Limit == [kind |-> "limit", units |-> 3]
PriceOf(price) == [kind |-> "price", price |-> price]
MemoOf(bytes) == [kind |-> "memo", bytes |-> bytes, printable |-> TRUE]

Unsigned(version, amount) ==
  [version |-> version, desk |-> "desk", issued |-> 0, expires |-> 2, fresh |-> 0, status |-> "ALLOW",
   reason |-> "APPROVED", agent |-> "agent", recipient |-> "shop", mint |-> "usdc", amount |-> amount,
   vault |-> "vault", instruction |-> SpendOf(amount), maxFee |-> 6, signature |-> "unsigned",
   memo |-> IF version = "2.1.0" THEN <<5>> ELSE "absent",
   maxUnits |-> IF version = "2.1.0" THEN 3 ELSE "absent"]
SignedBy(a, key) == [a EXCEPT !.signature = [by |-> key, over |-> a]]
Expect(amount) ==
  [trusted |-> {"desk"}, skew |-> 0, maxTtl |-> 2, vault |-> "vault", instructions |-> <<>>,
   intent |-> [agent |-> "agent", recipient |-> "shop", mint |-> "usdc", amount |-> amount],
   networkFee |-> 5, receipt |-> <<"r">>]
Item(hash, tx, a, amount) ==
  [hash |-> hash, tx |-> tx, message |-> tx, authorization |-> a, expectation |-> Expect(amount)]

Simple == Item("h1", <<SpendOf(2)>>, SignedBy(Unsigned("2.0.0", 2), "desk"), 2)
Tx(price) == <<Limit, PriceOf(price), MemoOf(5), SpendOf(3)>>
Rich(tx) == Item("h2", tx, SignedBy(Unsigned("2.1.0", 3), "desk"), 3)
MCDeskClears == [h1 |-> 2, h2 |-> 0]

MCDeskItems ==
  { Simple, Rich(Tx(333333)), Rich(Tx(333334)),
    Item("h1", <<SpendOf(2)>>, SignedBy([Unsigned("2.0.0", 2) EXCEPT !.expires = 1], "desk"), 2),
    [Simple EXCEPT !.message = <<SpendOf(3)>>],
    Item("h1", <<SpendOf(2)>>, SignedBy([Unsigned("2.0.0", 2) EXCEPT !.expires = 3], "desk"), 2),
    Item("h1", <<SpendOf(2)>>, SignedBy(Unsigned("2.0.0", 2), "other"), 2),
    Item("h1", <<SpendOf(2), SpendOf(2)>>, SignedBy(Unsigned("2.0.0", 2), "desk"), 2),
    Item("h1", <<SpendOf(3)>>, SignedBy(Unsigned("2.0.0", 3), "desk"), 2),
    Rich(<<Limit, MemoOf(4), SpendOf(3)>>), Rich(<<PriceOf(1), MemoOf(5), SpendOf(3)>>) }

-----------------------------------------------------------------------------
(* Payments a seller is to settle.                                         *)
Wallets == {"clean", "washed"}
PaysFrom(authorization, permit2, transaction, loose) ==
  [authorization |-> authorization, permit2 |-> permit2, transaction |-> transaction, loose |-> loose]
By(w) == << <<w>> >>
Unnamed == <<None>>
Alias(w) == <<None, <<w>>>>

MCPayments ==
  { PaysFrom(By("washed"), None, None, Alias("clean")), PaysFrom(Unnamed, By("washed"), None, Alias("clean")),
    PaysFrom(None, None, By("washed"), Alias("clean")), PaysFrom(Unnamed, None, None, Alias("clean")),
    PaysFrom(None, None, None, Alias("washed")), PaysFrom(None, None, None, <<None>>),
    PaysFrom(By("clean"), None, None, Alias("washed")) }

Injected(decision, flagged) ==
  [kind |-> "screen", lookup |-> None, screen |-> <<[washFlagged |-> flagged, decision |-> decision]>>]
Throwing == [kind |-> "throws", lookup |-> None, screen |-> None]
ScreenAnswersOf ==
  {[kind |-> "lookup", lookup |-> lookup, screen |-> None] : lookup \in MCLookups}
    \cup {Throwing, Injected("block", None), Injected("warn", <<FALSE>>), Injected("allow", <<TRUE>>)}
MCScreens == [Wallets -> ScreenAnswersOf]

GuardOf(failOpen) ==
  [failOpen |-> failOpen, onWash |-> TRUE, onBlock |-> TRUE, onWarn |-> FALSE, peer |-> TRUE, budget |-> TRUE]
MCSettleOptions ==
  { GuardOf("unset"), GuardOf("off"), GuardOf("typo"), [GuardOf("off") EXCEPT !.peer = FALSE],
    [GuardOf("on") EXCEPT !.peer = FALSE, !.onWarn = TRUE],
    [GuardOf("off") EXCEPT !.onWash = FALSE, !.budget = FALSE] }

-----------------------------------------------------------------------------
(* Probes before a payment.                                                *)
Answered402(accepts, json, keys) ==
  [kind |-> "402", accepts |-> accepts, advertised |-> [json |-> json, keys |-> keys]]
Unread(kind) == [Answered402(<<>>, FALSE, {}) EXCEPT !.kind = kind]

MCProbeAnswers ==
  { Unread("throws"), Unread("not_402"), Unread("malformed"), Unread("402") }
    \cup {Answered402(<<req>>, TRUE, {}) : req \in MCReqs}
    \cup { Answered402(<<Entry(2, ELower, "polygon", <<"other_token">>), Plain>>, FALSE, {"a", "b"}),
           Answered402(<<[Plain EXCEPT !.network = "devnet"], Plain>>, FALSE, {}),
           Answered402(<<Plain, [Plain EXCEPT !.amount = <<4>>, !.feePayer = <<"twzrd">>]>>, FALSE, {}) }
MCReoffered == {Plain, [Plain EXCEPT !.amount = <<4>>, !.payTo = <<EMixed>>]}
MCDeliveries ==
  { [kind |-> "empty", keys |-> {}, tx |-> None], [kind |-> "array", keys |-> {}, tx |-> None],
    [kind |-> "object", keys |-> {"a"}, tx |-> <<"t">>], [kind |-> "object", keys |-> {"a", "b"}, tx |-> None] }
MCSafeOptions == [cfg : {Default, Lenient}, dryRun : BOOLEAN, capture : BOOLEAN, prefer : {None, <<"twzrd">>}]

Site(host, forbidden, kind, header, body) ==
  [host |-> host, forbidden |-> forbidden, kind |-> kind, header |-> header, body |-> body]
Shop(host, req) == Site(host, "no", "402", None, << <<req>> >>)
Fixture == [evm |-> FALSE, id |-> "fixture", spelling |-> "fixture"]
Second == Entry(2, ELower, "base", <<"usdc_base">>)

MCDiets ==
  { <<Shop("a", Plain), Shop("a", Plain)>>,
    <<Shop("a", Plain), Shop("b", [Plain EXCEPT !.amount = <<4>>])>>,
    <<Site("a", "no", "402", <<[decodes |-> FALSE, accepts |-> <<>>]>>, << <<Plain>> >>),
      Site("b", "no", "402", <<[decodes |-> TRUE, accepts |-> <<Plain>>]>>, << <<Second>> >>)>>,
    <<Site("a", "resolution", "402", None, << <<Plain>> >>), Site("b", "no", "not_402", None, None)>>,
    <<Shop("a", [Plain EXCEPT !.payTo = <<Fixture>>]), Shop("b", [Plain EXCEPT !.maxAmountRequired = <<1>>])>>,
    <<Site("a", "no", "throws", None, None)>>, <<>> }
Listing(site, payTo) == [site |-> site, payTo |-> payTo]
MCDirectories ==
  { <<>>,
    <<Listing(Shop("a", Second), None), Listing(Shop("c", Plain), None), Listing(Shop("d", Second), None)>>,
    <<Listing(Shop("c", Plain), <<W>>), Listing(Shop("d", [Second EXCEPT !.payTo = None]), None), Listing(Shop("e", Second), None)>>,
    <<Listing(Site("c", "url", "402", None, None), None), Listing(Site("d", "no", "throws", None, None), None)>> }
MCColdAnswers ==
  { [preflight |-> None, lookup |-> Wash(<<FALSE>>, "full")],
    [preflight |-> <<Card0>>, lookup |-> Wash(<<FALSE>>, "full")],
    [preflight |-> <<Card0>>, lookup |-> Wash(<<TRUE>>, "full")],
    [preflight |-> <<[Card0 EXCEPT !.decision = <<"warn">>, !.cap = <<2>>]>>, lookup |-> Lookup([kind |-> "client_error"])] }
MCColdConfigs == {Default, [Lenient EXCEPT !.failOpen = FALSE]}
-----------------------------------------------------------------------------
(* Files of the log verifier's user, and what an RPC may answer.           *)
MCInclusions ==
  { [leaves |-> {"r2"}, proof |-> Proof(SubSeq(HistoryA, 1, n), 1, size)] : n \in {2, 3, 5}, size \in {None, <<3>>} }
    \cup { [leaves |-> {"r2"}, proof |-> [Proof(HistoryA, 1, None) EXCEPT !.leaf_index = i]] : i \in 0 .. Len(HistoryA) }
    \cup { [leaves |-> {"x3"}, proof |-> Proof(HistoryB, 2, None)],
           [leaves |-> {"r2", "x3"}, proof |-> Proof(HistoryB, 2, None)] }

Payload(h, timestamp) == [log_id |-> h.log_id, tree_size |-> h.tree_size, root |-> h.root, timestamp |-> timestamp]
AnchorIx(h, program, authority, ledger) ==
  [kind |-> "anchor_head", program |-> program, authority |-> authority, ledger |-> ledger,
   payload |-> Payload(h, <<h.timestamp_unix>>)]
MemoIx(h) == [AnchorIx(h, "memo", "none", "none") EXCEPT !.kind = "memo", !.payload = Payload(h, None)]
MessageOf(keys, ixs) == [keys |-> keys, required |-> Len(keys), instructions |-> ixs]

MCAuthoritySigned ==
  { MessageOf(<<"authority">>, <<AnchorIx(HeadOf(5), "ledger program", "authority", "L")>>),
    MessageOf(<<"payer", "authority">>, <<MemoIx(HeadOf(2)), AnchorIx(HeadOf(6), "ledger program", "authority", "L")>>),
    MessageOf(<<"authority">>, <<AnchorIx(HeadOf(3), "other program", "authority", "L")>>) }
Signatures(message, by) == [i \in DOMAIN by |-> [by |-> by[i], over |-> message]]
Raw(message, by) == [signatures |-> Signatures(message, by), message |-> message]
Claims == MessageOf(<<"eve", "authority">>, <<MemoIx(HeadOf(3))>>)
MCRpcAnswers ==
  {None}
    \cup {<<[raw |-> Raw(message, message.keys), succeeded |-> ok]>> : message \in MCAuthoritySigned, ok \in BOOLEAN}
    \cup {<<[raw |-> raw, succeeded |-> TRUE]>> : raw \in
            { Raw(Claims, <<"eve">>), Raw(Claims, <<"eve", "eve">>),
              Raw(MessageOf(<<"eve">>, <<AnchorIx(HeadOf(3), "ledger program", "authority", "L")>>), <<"eve">>) }}
MCLedgers == {None, <<"L">>, <<"other">>}

-----------------------------------------------------------------------------
(* Evidence bundles.                                                       *)
SolanaOffer == [payTo |-> "w", network |-> "solana", resource |-> "shop"]
OtherOffer == [SolanaOffer EXCEPT !.payTo = "v"]
OddOffer == [SolanaOffer EXCEPT !.resource = "not_a_url"]
BoundTo1(offer) == <<[strength |-> <<"soft">>, level |-> <<"client_stamped">>, leaf |-> <<OfferHash(offer)>>]>>
ReceiptFor(offer) == <<[resourceBound |-> TRUE, leaf |-> <<OfferHash(offer)>>]>>
DecisionOf(approved, signer) ==
  <<[verdict |-> <<IF approved THEN "allow" ELSE "block">>, approved |-> <<approved>>, signer |-> <<signer>>,
     id |-> <<"dec1">>, provenance |-> None]>>
BlockStep(signer) == [verdict |-> "block", approved |-> FALSE, signer |-> signer, offer |-> SolanaOffer]

Exporting ==
  [integration |-> [internal |-> FALSE], lineage |-> None, transcript |-> None, decision |-> DecisionOf(FALSE, 0),
   bind |-> BoundTo1(SolanaOffer), receipt |-> ReceiptFor(SolanaOffer), requirements |-> <<SolanaOffer>>,
   found |-> At("bind.leaf_hash", {"long_hex"})]
MCEvidenceInputs ==
  { [Exporting EXCEPT !.decision = DecisionOf(TRUE, 1),
                      !.found = @ \cup At("decision.reason", {"base58_pubkey", "jwt"}) \cup At("receipt.note", {"secret_key_name"})],
    [Exporting EXCEPT !.decision = None, !.receipt = None, !.bind = None],
    [Exporting EXCEPT !.decision = None, !.transcript = <<[lineage |-> "dogfood", block |-> None]>>],
    [Exporting EXCEPT !.decision = None, !.requirements = None,
                      !.transcript = <<[lineage |-> "external_candidate", block |-> <<BlockStep(0)>>]>>],
    [Exporting EXCEPT !.integration.internal = TRUE, !.lineage = <<"external_candidate">>,
                      !.found = At("requirements.payTo", {"evm_address"}) \cup At("requirements.resource", {"bearer_token"})] }

MCTokens ==
  { [decision |-> "block", decisionId |-> "dec1", intent |-> <<[form |-> "tiv1", hash |-> "i1"]>>],
    [decision |-> "allow", decisionId |-> "dec1", intent |-> None] }
SettledFields ==
  [decisionId |-> <<"dec1">>, counterparty |-> "shop", verdict |-> "allow", outcome |-> "settled", timestamp |-> 1,
   intent |-> <<[form |-> "0x", hash |-> "i1"]>>, payer |-> <<"buyer">>, tx |-> <<[head |-> "s1", anchor |-> "t"]>>,
   preflight |-> None]
MCOutcomes ==
  { SettledFields, [SettledFields EXCEPT !.verdict = "block"], [SettledFields EXCEPT !.tx = None],
    [SettledFields EXCEPT !.outcome = "expired_unused"], [SettledFields EXCEPT !.outcome = "expired_unused", !.tx = None],
    [SettledFields EXCEPT !.decisionId = <<"dec2">>], [SettledFields EXCEPT !.intent = <<[form |-> "malformed", hash |-> "i1"]>>],
    [SettledFields EXCEPT !.outcome = "blocked_never_signed", !.tx = None] }

Edit(field, value) == [field |-> field, value |-> value]
Counterfeit == Attested([SettledFields EXCEPT !.counterparty = "house"], "publisher")
MCEvidenceEdits ==
  { Edit("decision", DecisionOf(FALSE, 1)), Edit("decision", None), Edit("decision", DecisionOf(TRUE, 0)),
    Edit("decision", <<[verdict |-> None, approved |-> <<FALSE>>, signer |-> <<0>>, id |-> <<"dec2">>, provenance |-> <<"guess">>]>>),
    Edit("lineage", "external_candidate"), Edit("integration", [internal |-> TRUE]), Edit("claimsExternalRun", TRUE),
    Edit("receipt", ReceiptFor(OtherOffer)), Edit("bind", BoundTo1(OtherOffer)), Edit("requirements", <<OddOffer>>),
    Edit("bind", <<[strength |-> <<"hard">>, level |-> <<"client_stamped">>, leaf |-> <<NotHex>>]>>),
    Edit("attestation", <<Counterfeit>>), Edit("attestation", <<[Counterfeit EXCEPT !.outcome = "blocked_never_signed"]>>),
    Edit("attestation", <<[Attested(SettledFields, OperatorKey) EXCEPT !.preimage = <<[SettledFields EXCEPT !.tx[1].head = "s2"]>>]>>),
    Edit("attestation", <<[Attested(SettledFields, OperatorKey) EXCEPT !.preimage = <<[SettledFields EXCEPT !.payer = <<"other">>]>>]>>),
    Edit("attestation", <<[Attested(SettledFields, "publisher") EXCEPT !.signing_pubkey = <<OperatorKey>>, !.outcome = "settled"]>>),
    Edit("attestation", <<[Attested(SettledFields, OperatorKey) EXCEPT !.outcome = "blocked_never_signed"]>>),
    Edit("attestation", <<[Attested(SettledFields, OperatorKey) EXCEPT !.signature = None, !.preimage = None]>>),
    Edit("derived", FALSE), Edit("malformed", {"packageVersion"}), Edit("found", At("decision.reason", {"home_path"})) }
MCPeers == {[base58 |-> TRUE, keccak |-> TRUE], [base58 |-> FALSE, keccak |-> TRUE], [base58 |-> TRUE, keccak |-> FALSE]}
-----------------------------------------------------------------------------
(* Offers to bind a payment to, and what an agent may compose.             *)
Schemed(req, scheme) == req @@ [scheme |-> scheme]
Exact == Schemed(Plain, "exact")
Invoice(version, url, accepts) == [version |-> version, url |-> url, envelope |-> None, accepts |-> accepts]

MCInvoices ==
  { Invoice(1, "shop", <<Exact>>), Invoice(1, "shop", <<[Exact EXCEPT !.amount = <<3>>]>>),
    Invoice(1, "cart", <<[Exact EXCEPT !.amount = None], [Exact EXCEPT !.resource = <<"cart">>], Exact>>),
    Invoice(2, "shop", <<Schemed([Plain EXCEPT !.network = "mainnet_genesis"], "upto")>>),
    Invoice(1, "lane", <<[Exact EXCEPT !.payTo = <<Fixture>>]>>),
    [Invoice(1, "door", <<[Exact EXCEPT !.resource = None, !.asset = None]>>) EXCEPT !.envelope = <<"shop">>],
    Invoice(1, "shop", <<[Exact EXCEPT !.resource = <<"not_a_url">>, !.scheme = "weekly"]>>),
    Invoice(1, "shop", <<[Exact EXCEPT !.maxAmountRequired = <<3>>]>>) }
MCPreflighting == {None, <<[id |-> "d1", valid |-> TRUE]>>, <<[id |-> "too long", valid |-> FALSE]>>}

AskedMemo == [prefix |-> "asked", leaf |-> None]
Memo(prefix) == [prefix |-> prefix, leaf |-> <<Leaf(Under([Exact EXCEPT !.payTo = <<Fixture>>], <<"shop">>), None)>>]
Transfer(amount) == [mint |-> "usdc_mainnet", owner |-> W, authority |-> "buyer", amount |-> amount]
Composed(memos, transfers) == [decodes |-> TRUE, memos |-> memos, transfers |-> transfers]
MCTransactions ==
  { Composed(<<AskedMemo>>, <<Transfer(2)>>), Composed(<<AskedMemo>>, <<Transfer(1)>>), Composed(<<AskedMemo>>, <<Transfer(3)>>),
    Composed(<<Memo("text"), AskedMemo>>, <<Transfer(2), Transfer(3)>>), Composed(<<Memo("rb2"), AskedMemo>>, <<Transfer(2)>>),
    Composed(<<>>, <<Transfer(2)>>), Composed(<<AskedMemo>>, <<>>),
    Composed(<<AskedMemo>>, <<[Transfer(2) EXCEPT !.owner = Fixture]>>), Composed(<<AskedMemo>>, <<[Transfer(2) EXCEPT !.mint = "usdt"]>>),
    [Composed(<<>>, <<>>) EXCEPT !.decodes = FALSE] }
-----------------------------------------------------------------------------
(* Answers to a paid call.                                                 *)
HexTx(spelling) == [hex |-> TRUE, id |-> "t", spelling |-> spelling]
SolanaTx(id) == [hex |-> FALSE, id |-> id, spelling |-> id]
Gpt == [name |-> "gpt", snapshots |-> <<>>]
CallAnswer(status, success, tx, body, requested) ==
  [status |-> status, settle |-> <<[success |-> success, tx |-> tx]>>, body |-> body, requested |-> requested]

MCPaymentHeaders == {None, <<Plain>>}
MCCallAnswers ==
  { CallAnswer(200, <<TRUE>>, <<HexTx("lower")>>, <<[NoBody EXCEPT !.tx = <<HexTx("mixed")>>, !.ready = <<TRUE>>]>>, None),
    CallAnswer(200, <<TRUE>>, <<SolanaTx("t")>>, <<[NoBody EXCEPT !.tx = <<SolanaTx("u")>>, !.ready = <<TRUE>>]>>, None),
    CallAnswer(502, <<TRUE>>, <<HexTx("lower")>>, None, None),
    CallAnswer(200, <<FALSE>>, None, <<[NoBody EXCEPT !.ready = <<TRUE>>]>>, None),
    CallAnswer(200, None, None, <<[NoBody EXCEPT !.ready = <<FALSE>>, !.status = <<"expired">>]>>, None),
    CallAnswer(200, None, None, <<[NoBody EXCEPT !.ready = <<FALSE>>, !.model = <<Gpt>>]>>, <<Gpt>>),
    CallAnswer(200, <<TRUE>>, None, <<[NoBody EXCEPT !.model = <<[Gpt EXCEPT !.snapshots = <<"2024">>]>>]>>, <<Gpt>>),
    CallAnswer(200, <<TRUE>>, None, <<[NoBody EXCEPT !.model = <<Gpt>>]>>, <<[Gpt EXCEPT !.snapshots = <<"2024">>]>>),
    CallAnswer(200, <<TRUE>>, None, <<[NoBody EXCEPT !.model = <<Gpt>>]>>, <<[Gpt EXCEPT !.name = "auto"]>>),
    [CallAnswer(200, None, None, None, None) EXCEPT !.settle = None] }
-----------------------------------------------------------------------------
(* 402s of several offers.                                                 *)
Elsewhere == [Plain EXCEPT !.payTo = <<Fixture>>]
MCWrappers ==
  { [kind |-> "gate", cfg |-> Default], [kind |-> "paying", cfg |-> [Lenient EXCEPT !.failOpen = FALSE]] }
MCOfferLists ==
  { <<>>, <<Plain, Plain, Elsewhere>>, <<[Plain EXCEPT !.amount = <<3>>]>>,
    <<[Plain EXCEPT !.payTo = None]>>, <<Plain, Elsewhere, Second>> }
-----------------------------------------------------------------------------
(* Decision records: one that counsel allows, with up to two fields changed or
   missing; and agent directories. *)
Supporting ==
  [field \in RecordFields |->
     IF field = "check_scope" THEN "full"
     ELSE IF field \in {"parses_cleanly", "signature_valid", "signer_verified", "signer_pinned", "settlement_visible",
                        "delivery_evidence", "reported_as_full_verification"} THEN "true"
     ELSE "false"]

Contents(field) == IF field = "check_scope" THEN {"full", "schema_only"} ELSE {"true", "false", "odd"}

ChangedOnce(record) ==
  UNION {{[record EXCEPT ![field] = held] : held \in Contents(field)}
           \cup {[other \in DOMAIN record \ {field} |-> record[other]]} : field \in DOMAIN record}

Agents == [n \in DOMAIN ROLE_ORDER |-> [kind |-> "role", name |-> ROLE_ORDER[n], order |-> <<n>>]]
NoRole == [kind |-> "other", name |-> "notes", order |-> None]
AgentDirectories ==
  { Tail(Agents), <<>>, Append(Agents, Agents[7]), Append(Agents, [NoRole EXCEPT !.kind = "unreadable"]),
    [Agents EXCEPT ![4].order = None], [Agents EXCEPT ![2].order = <<3>>, ![3].order = <<2>>], Append(Agents, NoRole) }

CounselCase(record, files) == [record |-> record, files |-> files]
MCCounselCases ==
  {CounselCase(<<record>>, Agents) : record \in UNION {ChangedOnce(record) : record \in ChangedOnce(Supporting)}}
    \cup {CounselCase(<<Supporting>>, files) : files \in AgentDirectories} \cup {CounselCase(None, Agents)}
=============================================================================
