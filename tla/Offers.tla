------------------------------- MODULE Offers -------------------------------
(***************************************************************************)
(* How twzrd-x402-gate reads one entry of a 402's accepts list: payto.ts   *)
(* and network.ts.  An amount stands for its text: a natural number for a  *)
(* base-unit integer, a negative one for any other text (a sign, a point,  *)
(* an exponent).  A recipient is [evm, id, spelling]; only the spelling of *)
(* an EVM address may differ between two writings of one recipient.        *)
(***************************************************************************)
EXTENDS Integers, SequencesExt, Optional

-----------------------------------------------------------------------------
(* One reading of the recipient and the price.                             *)

SameRecipient(a, b) == a.id = b.id /\ (a.evm \/ a.spelling = b.spelling)

\* isBaseUnitAmount
BaseUnits(n) == n >= 0

AmountConflict(req) ==
  /\ req.amount # None /\ req.maxAmountRequired # None
  /\ req.amount # req.maxAmountRequired

PayToConflict(req) ==
  /\ req.payTo # None /\ req.pay_to # None
  /\ ~SameRecipient(req.payTo[1], req.pay_to[1])

\* An amount is a number, as is a negative one that stands for other text.
Numeric(req) ==
  \A amount \in {req.amount, req.maxAmountRequired} : amount # None => amount[1] \in Int

WrittenAmount(req) ==
  IF AmountConflict(req) THEN None ELSE Or(req.amount, req.maxAmountRequired)

AmountMalformed(req) ==
  WrittenAmount(req) # None /\ ~BaseUnits(WrittenAmount(req)[1])

\* resolveRequirementFields
Conflicted(req) == AmountConflict(req) \/ AmountMalformed(req) \/ PayToConflict(req)

PayTo(req) == IF PayToConflict(req) THEN None ELSE Or(req.payTo, req.pay_to)

Amount(req) == IF AmountMalformed(req) THEN None ELSE WrittenAmount(req)

\* mapX402SolanaRequirements, mapWashRequirements: a conflicted entry keeps
\* its raw fields, any other is written in both spellings of each field.
Mapped(req) ==
  IF Conflicted(req) THEN req
  ELSE [req EXCEPT !.amount = Amount(req), !.maxAmountRequired = Amount(req),
                   !.payTo = PayTo(req), !.pay_to = PayTo(req)]

-----------------------------------------------------------------------------
(* Networks, by how they are named: an alias, or a CAIP-2 genesis id.      *)

SolanaNames ==
  [solana |-> "mainnet", mainnet_genesis |-> "mainnet",
   devnet |-> "devnet", devnet_genesis |-> "devnet",
   testnet |-> "testnet", testnet_genesis |-> "testnet"]

KeywordNames == {"devnet", "testnet"}
GenesisNames == {"devnet_genesis", "testnet_genesis"}
BaseNames == {"base", "base_sepolia"}

Networks == DOMAIN SolanaNames \cup BaseNames \cup {"polygon", "other", "missing"}

Evm(payTo) == payTo # None /\ payTo[1].evm

\* solanaCluster: with no network named, a recipient that is not EVM is mainnet.
SolanaCluster(network, payTo) ==
  IF network = "missing"
    THEN IF payTo = None \/ Evm(payTo) THEN None ELSE <<"mainnet">>
  ELSE IF network \in DOMAIN SolanaNames THEN <<SolanaNames[network]>>
  ELSE None

\* classifyNetwork: a test cluster named by its genesis id counts as scored.
ReputationScored(network, payTo) ==
  \/ network = "missing" /\ ~Evm(payTo)
  \/ network \in DOMAIN SolanaNames \ KeywordNames
  \/ network = "base"

\* strictRefusesGenesisCluster
Scored(network, payTo, mode) ==
  /\ ReputationScored(network, payTo)
  /\ ~(mode = "strict" /\ network \in GenesisNames)

-----------------------------------------------------------------------------
(* USDC.                                                                   *)

SolanaUsdc ==
  [mainnet |-> {"usdc_mainnet"}, devnet |-> {"usdc_devnet"}, testnet |-> {}]
EvmUsdc == [base |-> {"usdc_base"}, base_sepolia |-> {"usdc_sepolia"}]

HasUsdcTable(network, payTo) ==
  SolanaCluster(network, payTo) # None \/ network \in BaseNames

\* isUsdcRequirement
IsUsdc(network, payTo, asset) ==
  /\ asset # None
  /\ LET cluster == SolanaCluster(network, payTo)
     IN IF cluster # None THEN asset[1] \in SolanaUsdc[cluster[1]]
        ELSE network \in BaseNames /\ asset[1] \in EvmUsdc[network]

\* recipientOf
RawRecipient(req) == Or(req.payTo, req.pay_to)

\* priceUsdcFromAmountMicro, in millionths of a dollar
PriceUsdc(req) ==
  IF /\ req.asset # None
     /\ HasUsdcTable(req.network, RawRecipient(req))
     /\ ~IsUsdc(req.network, RawRecipient(req), req.asset)
    THEN None
  ELSE Amount(req)

-----------------------------------------------------------------------------
(* Which entry of the list is read: pickRequirements.  prefer is None or a *)
(* fee payer; the entry of an empty list has no field.                     *)

NoOffer ==
  [amount |-> None, maxAmountRequired |-> None, payTo |-> None, pay_to |-> None,
   network |-> "missing", asset |-> None, resource |-> None, feePayer |-> None]

NamesSolana(req) == req.network \in DOMAIN SolanaNames
NamesMainnet(req) == req.network \in {"solana", "mainnet_genesis"}

FirstOf(list, Test(_), otherwise) ==
  LET hits == SelectSeq(list, Test)
  IN IF hits = <<>> THEN otherwise ELSE hits[1]

PickRequirements(accepts, prefer) ==
  LET first == IF accepts = <<>> THEN NoOffer ELSE accepts[1]
      mainnetOrFirst == FirstOf(accepts, NamesMainnet, FirstOf(accepts, NamesSolana, first))
  IN IF prefer = None THEN mainnetOrFirst
     ELSE FirstOf(accepts, LAMBDA r : NamesMainnet(r) /\ r.feePayer = prefer, mainnetOrFirst)

\* paymentRequiredFromResponse: the header wins and must decode; with neither
\* header nor a body that parses there is no offer.
PaymentRequired(header, body) ==
  IF header # None
    THEN [throws |-> ~header[1].decodes, accepts |-> header[1].accepts]
  ELSE [throws |-> FALSE, accepts |-> IF body = None THEN <<>> ELSE body[1]]
=============================================================================
