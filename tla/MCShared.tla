------------------------------ MODULE MCShared ------------------------------
(***************************************************************************)
(* Signing, Wallets, Amounts, Fields, Inputs, Query and Encodings for TLC, *)
(* in one run: they do not interact, and each behaviour is one of one of   *)
(* them.  The last five share variables: task is what the part works on,   *)
(* and a slot a part does not use keeps its value.                         *)
(***************************************************************************)
EXTENDS MCWallets, Signing

CONSTANTS Bad, Blank, OK, Failed, h1, h2, h3, t1, t2, b1, b2, mainnet, protonet

VARIABLES task, s1, s2, s3, s4

\* Of the wallets' variables, those that the other parts do not use.
walletVars == <<vars, case, sent, back, lists, heard>>

partVars == <<task, s1, s2, s3, s4>>

all == <<part, pc, walletVars, signingVars, partVars>>

\* Signing calls are interchangeable.
TaskSymmetry == Permutations({t1, t2})

-----------------------------------------------------------------------------
(* Amounts of up to four digits, of which results keep three *)

Amount(form, m, e) == [form |-> form, dec |-> [m |-> m, e |-> e]]

AmountCalls(amounts, checks, mins, maxs, denominations, sources, shows) ==
  [kind : {"amount"}, amount : amounts, check : checks, allowZero : BOOLEAN, min : mins,
   max : maxs, denomination : denominations, source : sources, show : shows]

Entered(form, ms) == {Amount(form, m, e) : m \in ms, e \in 0..3}

Sums == UNION {[1..n -> {[m |-> m, e |-> 0] : m \in {-5, 0, 1, 99, 994, 999}}] : n \in 1..2}

MCAmounts ==
  UNION {AmountCalls(Entered("text", {-15, 0, 1, 5, 25, 99, 120, 999, 1000, 1234, 9999}),
            {"input", "transaction", "fee", "none"}, {None}, {None}, {1, 10, 25, 100},
            {"denomination", "emptyEntry", "table"}, {"units", "whole", "format"}),
         AmountCalls(Entered("number", {-15, 0, 25, 120}), {"input", "transaction", "fee"},
            {None, 1}, {None, 5}, {10}, {"entry"}, {"units"}),
         AmountCalls({Amount(f, 0, 0) : f \in {"NaN", "Infinity", "malformed", "missing"}},
            {"input", "transaction", "fee", "none"}, {None, 1}, {None, 5}, {10}, {"entry"},
            {"units"}),
         [kind : {"balance"}, ins : Sums, outs : Sums]}

A ==
  INSTANCE Amounts WITH
    Precision <- 3, MaxSafe <- 9, MaxFraction <- 3, Calls <- MCAmounts, Decimals <- {0, 2},
    call <- task, table <- s1, parts <- s2, shown <- s3

-----------------------------------------------------------------------------
(* Fields: each parser with what lies around its limits *)

Number(form, n, e) ==
  [form |-> form, n |-> n, e |-> e, empty |-> FALSE, lead |-> FALSE, blanks |-> FALSE]

Numbers ==
  {Number(f, n, 0) : f \in {"text", "number", "bigint"},
                     n \in {-1, 0, 1, 7, 10, 11, 10000, 10001, 20000, 20001, 40000, 40001,
                            60000, 60001}}
    \union {Number("text", 12, 1), Number("number", 12, 1)}
    \union {[Number("text", 7, 0) EXCEPT !.lead = l, !.blanks = b] : l, b \in BOOLEAN}
    \union {[Number("text", 0, 0) EXCEPT !.empty = TRUE]}

Fractions ==
  {Number(f, n, e) : f \in {"text", "number", "NaN"},
                     n \in {-1, 0, 1, 5, 994, 995, 1005, 1010}, e \in 0..4}

Units == {"plain", "blank", "break", "control", "unnormal", "high", "low"}

\* A validator of which up to two parts are unusual.
Plain1 ==
  [key |-> None, staked |-> FALSE, host |-> "host", clientPort |-> Number("text", 7, 0),
   validatorPort |-> Number("number", 10, 0), benchmark |-> None, timestamp |-> None,
   now |-> [form |-> "date", n |-> -3], lite |-> None, online |-> None, version |-> None,
   lastHeartbeat |-> None, attestation |-> None]

Unusual(v) ==
  UNION {{[v EXCEPT !.key = k] : k \in {"operator", "other", "blank", "malformed"}},
         {[v EXCEPT !.staked = TRUE], [v EXCEPT !.host = "blank"], [v EXCEPT !.now.n = 46]},
         {[v EXCEPT !.clientPort = p] : p \in {Number("text", 0, 0), Number("number", 11, 0)}},
         {[v EXCEPT !.validatorPort = p] : p \in {Number("bigint", 1, 0), Number("text", 1, 1)}},
         {[v EXCEPT !.benchmark = n] : n \in {Number("text", m, 0) : m \in {7, 40000, 40001}}},
         {[v EXCEPT !.lastHeartbeat = n] : n \in {Number("bigint", m, 0) : m \in {0, 40000, 40001}}},
         {[v EXCEPT !.version = n] : n \in {Number("number", m, 0) : m \in {-1, 10000, 10001}}},
         {[v EXCEPT !.timestamp = [form |-> "date", n |-> t]] : t \in {-26, -25, 12, 45}},
         {[v EXCEPT !.lite = x] : x \in {"yes", "no", "malformed"}},
         {[v EXCEPT !.online = x] : x \in {"yes", "malformed"}},
         {[v EXCEPT !.attestation = [version |-> Number("text", n, 0), publicKey |-> l, proof |-> q]] :
            n \in {1, 40001}, l \in {47, 48}, q \in {96, 97}}}

Validators == LET once == Unusual(Plain1) IN {Plain1} \union once \union UNION {Unusual(v) : v \in once}

Parameter == [key : {"k", "blank"}, value : {None, "", "v"}]

Items ==
  [parameters : UNION {[1..n -> Parameter] : n \in 0..2},
   fees : {None} \union [fee : {"", "1"}, burn : {"", "1"}, validator : {"1"},
                        address : {"none", "text", "malformed", "bytes"}, tokens : {<<>>, <<"t">>}]]

MCEntries ==
  UNION {[kind : {"validator"}, value : Validators], [kind : {"item"}, value : Items],
         [kind : {"amount", "uint256"}, value : Numbers, zero : BOOLEAN],
         [kind : {"uint64", "optional", "nonce", "positive", "port", "uint32", "decimal"},
          value : Numbers],
         [kind : {"usd", "quorum", "threshold", "percent", "dollars"}, value : Fractions],
         [kind : {"timestamp"}, value : [form : {"date"}, n : -26..46]],
         [kind : {"text"}, value : UNION {[1..k -> Units] : k \in 0..4}, lines : BOOLEAN],
         [kind : {"hash"}, value : [digits : {63, 64}, hex : BOOLEAN, n : {3}]],
         [kind : {"address"}, value : [empty : BOOLEAN, base58 : BOOLEAN, n : {3}]]}

Contracts(types) ==
  [kind : {"data"}, symbol : {<<1>>, <<1, 2>>}, type : types, maxSupply : {<<>>, <<1>>, <<0, 1>>},
   denomination : {<<>>} \union ({<<1>>, <<1, 1>>} \X {<<0>>, <<1>>, <<0, 1>>, <<1, 2>>, <<2>>}),
   releases : {<<>>, <<[seconds |-> 1, amount |-> <<1>>]>>,
               <<[seconds |-> 1, amount |-> <<0>>], [seconds |-> 2, amount |-> <<1, 2>>]>>}]

Creators ==
  [kind : {"genesis"}, nonce : {1, 2}]
    \union [kind : {"ordinary"}, type : {1}, algorithm : {0, 1}, authorization : {<<1>>, <<1, 1>>},
            nonce : {1, 2}, data : {<<1>>, <<1, 1>>, <<2, 1>>}]

MCIdentities ==
  [kind : {"identity"}, a : Contracts({1}), b : Contracts({1, 2})]
    \union [kind : {"identity"}, a : Creators, b : Creators]

F ==
  INSTANCE Fields WITH
    Max32 <- 10000, MaxSafe <- 20000, Max64 <- 40000, Max256 <- 60000, MaxPort <- 10,
    Earliest <- -25, Latest <- 45, Second <- 10, TextBytes <- 5, Scale <- 3, Whole <- 10000,
    Entries <- MCEntries, Identities <- MCIdentities,
    entry <- task, field <- s1, read <- s2

-----------------------------------------------------------------------------
(* Inputs: texts around the limits of length, and tokens spelled in several ways *)

EnteredText(id, length, base58, trimmed, words) ==
  [form |-> "text", id |-> id, length |-> length, base58 |-> base58, trimmed |-> trimmed,
   words |-> words]

GoodId == EnteredText("canonical", 49, TRUE, TRUE, 1)

Texts ==
  UNION {{EnteredText(i, l, b, t, 1) : i \in {"canonical", "bridged", "none"}, l \in {0, 49, 512, 513},
                                b, t \in BOOLEAN},
         {EnteredText(i, l, b, TRUE, 1) : i \in {"burn address", "none"}, l \in {8, 19, 20, 50, 51},
                                   b \in BOOLEAN},
         {EnteredText("none", 99, FALSE, TRUE, w) : w \in {11, 12, 13, 24}},
         {EnteredText("ed448", 5, FALSE, TRUE, 1)}}

Others ==
  {[form |-> "missing"], [form |-> "other"]}
    \union [form : {"list"},
            items : {<<>>, <<"blake3">>, <<"sha3-256">>, <<"blake3", "sha3_512">>}]

Options ==
  [form |-> "options", id |-> GoodId, symbol |-> 3, name |-> 3, version |-> 1, type |-> "TOKEN",
   premint |-> TRUE, quash |-> FALSE, timeDelay |-> FALSE, governance |-> "staged",
   publicKey |-> "valid", privateKey |-> "key"]

MCChecks ==
  [what : {"contract id", "address", "key", "key type", "hash types", "mnemonic"},
   value : Texts \union Others]
    \union [what : {"create", "update"},
            value : {Options, [Options EXCEPT !.symbol = 2], [Options EXCEPT !.name = 201],
                     [Options EXCEPT !.version = 0], [Options EXCEPT !.type = "NFT"],
                     [Options EXCEPT !.quash = TRUE], [Options EXCEPT !.privateKey = ""],
                     [Options EXCEPT !.governance = "remove"],
                     [Options EXCEPT !.id = EnteredText("none", 3, TRUE, TRUE, 1)]}]

FewChecks ==
  [what : {"contract id", "address"},
   value : {GoodId, EnteredText("none", 8, FALSE, TRUE, 1), [form |-> "missing"]}]

MCBatches ==
  [kind : {"batch"}, checks : {<<>>} \union {<<c>> : c \in MCChecks} \union [1..3 -> FewChecks],
   throws : BOOLEAN]

Tokens ==
  [kind : {"bridged"}, chain : {"sol", "SOL"}, symbol : {"usdc", "USDC"}, suffix : BOOLEAN]
    \union [kind : {"native"}, chain : {""}, symbol : {"usdc", "USDC"}, suffix : {TRUE}]
    \union [kind : {"base58"}, chain : {""}, symbol : {""}, suffix : {FALSE}]

MCLookups ==
  [kind : {"lookup"}, ids : UNION {[1..n -> Tokens] : n \in 1..2},
   answers : {UNION {[1..n -> Tokens] : n \in 0..2}}]

I ==
  INSTANCE Inputs WITH
    MaxBytes <- 512, Batches <- MCBatches, Lookups <- MCLookups,
    next <- s1, results <- s2, errors <- s3, found <- s4

-----------------------------------------------------------------------------
(* Answers of a node; records of a supply are cut anywhere *)

Texts0 == {Blank, Junk, 0, 7}
Balances == [balance : Texts0, denomination : Texts0, rate : {Junk, 3}]

Receipts == [hash : {h1, h2}, status : {None, OK, Failed}, fees : {Blank, 7}]

Blocks ==
  [height : {1}, hash : {h3},
   lists : [coinTxns : {<<>>, <<h1>>, <<h1, h2>>}, mintTxns : {<<>>, <<h2>>},
            contractTxns : {<<>>}],
   version : {None, h3}, receipts : {<<>>} \union [1..2 -> Receipts]]

Selectors ==
  [by : {"height"}, height : {1, 2}] \union [by : {"hash"}, hash : {h3}]

Ledgers ==
  [keys : {<<>>, <<1>>, <<1, 2>>, <<1, 1>>}, values : {<<>>, <<5>>, <<5, 6>>},
   statuses : {<<>>, <<[id |-> 1, pending |-> TRUE, proposal |-> None],
                       [id |-> 2, pending |-> FALSE,
                        proposal |-> [stage |-> 2, phase |-> "PRE"]]>>}]

\* Lengths of one varint digit and of two.
DigitsOf(lengths) == {[k \in 1..n |-> 1 + (k % 3)] : n \in lengths}

Supplies(maxs) == [max : DigitsOf(maxs), current : DigitsOf(0..17)]

MCRequests ==
  UNION {[kind : {"balance"}, answer : Balances \union {None}, denomination : Texts0],
         [kind : {"balances", "tokens"},
          answer : {<<>>, <<[rate |-> 1], [rate |-> Junk]>>} \union {<<b>> : b \in Balances}],
         [kind : {"fee", "baseFee"}, answer : Balances],
         [kind : {"ledger"}, answer : Ledgers],
         [kind : {"supply"}, supply : Supplies(0..17), missing : {0}],
         [kind : {"supply"}, supply : Supplies({2, 5}), missing : 1..26],
         [kind : {"result"}, blocks : {{b} : b \in Blocks}, selector : Selectors, hash : {h1}]}

Q ==
  INSTANCE Query WITH
    Base <- 4, MaxDigits <- 8, Requests <- MCRequests,
    request <- task, result <- s1

-----------------------------------------------------------------------------
(* Bytes of four values, and transfers that differ in one field *)

Integers1 == [kind : {"integer"}, value : {-1, 0, 1, 6, 15, 16, 17, 255, 256, 65535, 65536},
              width : {"u16", "u32", "u64"}, little : BOOLEAN]

Bytes1 == UNION {[1..n -> {0, 1, 3}] : n \in 0..2}

Read1 ==
  UNION {[kind : {"bytes"}, bytes : {[i \in 1..n |-> i % 4] : n \in {0, 3, 4, 5, 7, 8, 9}}, width : {w},
          little : IF w = "u32" THEN {TRUE} ELSE BOOLEAN] : w \in {"u32", "u64"}}

Hexes == [kind : {"hex"}, digits : UNION {[1..n -> {0, 1, Bad}] : n \in 0..4}]

Fixed == [kind : {"fixed"}, bytes : Bytes1, length : 0..3, padStart : BOOLEAN]

\* Keys whose bytes read like the rest of a name.
Keys == {<<"_2022", "x">>, <<"_authority", "mint">>, <<"x", "_authority">>}

Pdas ==
  UNION {[name : {"vault", "rateLimitState", "routerSigner", "routerSigner2022",
                  "extensionWhitelist"}, arguments : {<<>>}],
         [name : {"tokenRegistration", "wrappedMint", "mintAuthority", "releasedTransfer"},
          arguments : {<<k>> : k \in Keys}],
         [name : {"lockedTransfer"}, arguments : Keys \X Keys \X {<<"0">>, <<"x">>}]}

Strings == [optional : {FALSE}, text : Bytes1]
             \union [optional : {TRUE}, text : {<<>>, <<0>>, <<1, 0>>, None}]

Transfer ==
  [action |-> 2, amount |-> 1, recipient |-> 1, mint |-> 1, contract |-> <<1>>, decimals |-> 1,
   name |-> <<1>>, symbol |-> <<1>>, uri |-> <<1>>, price |-> 1, liquidity |-> 0, tier |-> 1,
   usd |-> 1]

Words == {<<>>, <<0>>, <<1>>, <<1, 1>>}

\* The fields an action has.
Transfers ==
  UNION {{[Transfer EXCEPT !.contract = c, !.name = n, !.symbol = s, !.uri = u] :
            c \in {<<>>, <<1>>}, n, s \in Words, u \in {<<>>, <<1>>}},
         {[Transfer EXCEPT !.action = 3, !.contract = c, !.amount = a, !.tier = t] :
            c \in Words, a \in {0, 1, 256}, t \in {0, 1}},
         {[Transfer EXCEPT !.action = a, !.mint = m, !.price = p, !.liquidity = l] :
            a \in {1, 4, 5}, m \in {0, 1}, p, l \in {0, 1, 4}},
         {[Transfer EXCEPT !.action = 0, !.amount = a, !.recipient = r, !.usd = u] :
            a, u \in {0, 1, 16}, r \in {0, 1}}}

Pairs(k, things) == {[kind |-> k, a |-> a, b |-> b] : a, b \in things}

MCEncodings ==
  UNION {Integers1, Read1, Hexes, Fixed, Pairs("seeds", Pdas), Pairs("payload", Transfers),
         Pairs("borsh", UNION {[1..n -> Strings] : n \in 0..1} \union
                        {<<s, t>> : s \in Strings, t \in {[optional |-> TRUE, text |-> <<0>>],
                                                         [optional |-> FALSE, text |-> <<>>]}})}

En ==
  INSTANCE Encodings WITH
    Digit <- 2, Cases <- MCEncodings,
    case <- task, sent <- s1, back <- s2

-----------------------------------------------------------------------------

ASSUME SharedConstants == A!AmountConstants /\ F!FieldConstants /\ En!EncodingConstants

Unused3 == s3 = 0 /\ s4 = 0
Unused2 == s2 = 0 /\ Unused3

IdleWallets ==
  IdleDerivation /\ case = None /\ sent = None /\ back = None /\ lists = None /\ heard = <<>>

IdleSigning ==
  SigningInit /\ awaited /\ kind = "standard" /\ multi = {} /\ chain = mainnet /\ txn.body = b1

IdleParts == task = None /\ s1 = 0 /\ Unused2

InitShared ==
  \/ InitAny /\ IdleSigning /\ IdleParts
  \/ part = "signing" /\ SigningInit /\ IdleWallets /\ pc = 0 /\ IdleParts
  \/ /\ IdleSigning /\ IdleWallets
     /\ \/ part = "amount" /\ A!Init /\ s4 = 0
        \/ part = "field" /\ F!Init /\ Unused3
        \/ part = "input" /\ I!Init
        \/ part = "answer" /\ Q!Init /\ Unused2
        \/ part = "encoding" /\ En!Init /\ Unused3

NextShared ==
  \/ NextAny /\ UNCHANGED <<signingVars, partVars>>
  \/ part = "signing" /\ SigningNext /\ UNCHANGED <<part, pc, walletVars, partVars>>
  \/ /\ UNCHANGED <<part, walletVars, signingVars>>
     /\ \/ part = "amount" /\ A!Next /\ UNCHANGED s4
        \/ part = "field" /\ F!Next /\ UNCHANGED <<s3, s4>>
        \/ part = "input" /\ I!Next
        \/ part = "answer" /\ Q!Next /\ UNCHANGED <<s2, s3, s4>>
        \/ part = "encoding" /\ En!Next /\ UNCHANGED <<s3, s4>>

SpecShared == InitShared /\ [][NextShared]_all

-----------------------------------------------------------------------------
(* Properties, each of its part *)

\* An amount survives its conversions, and a balance is exact (shared/utils).
AmountsSound == part = "amount" => A!AmountsSound

\* What a message holds means what was entered, validators agree, tokens are found however they are
\* spelled, and the bytes for a program are read as they were meant (shared/tx/standard.ts,
\* protocol/contract-id.ts, validation.ts, token-info.ts, byte-utils.ts, bridge/solana/).
EntriesSound ==
  /\ part = "field" => F!FieldsSound
  /\ part = "input" => I!InputsSound
  /\ part = "encoding" => En!EncodingsSound

\* No answer says what the node did not (query/).
AnswersSound == part = "answer" => Q!AnswersSound

=============================================================================
