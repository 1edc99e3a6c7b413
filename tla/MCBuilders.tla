----------------------------- MODULE MCBuilders -----------------------------
(***************************************************************************)
(* Instances of Transactions for TLC: the inputs of createCoinTXN, the     *)
(* calls of the other builders and of the fee calculation with the states  *)
(* of the network they meet, and the bodies that are read.                 *)
(***************************************************************************)
EXTENDS Transactions, TLC

CONSTANTS w1, w2, w3, usd, memo, Alice, Bob

Optional(S) == {{}} \cup {{x} : x \in S}

\* Wallets that sign, with or without an amount, a nonce and half of the fee; grants;
\* a wallet which names a grant as well, and an input of nobody.
MCInput ==
  LET In(key, granter, amount, nonce, percent) ==
        [key : {key}, granter : {granter}, amount : amount, nonce : nonce, percent : percent]
  IN In({w1}, {}, Optional({1}), Optional({7}), Optional({50}))
       \cup In({w2}, {}, {{1}}, {{}}, Optional({50}))
       \cup In({}, {w3}, {{1}}, Optional({7}), Optional({50}))
       \cup In({w1}, {w3}, {{1}}, {{}}, {{}}) \cup In({}, {}, {{1}}, {{}}, {{}})

-----------------------------------------------------------------------------
(* Calls *)

Call(kind, ins, nonceSet, feeSet, interfaces, gases) ==
  [kind : {kind}, in : ins, nonce : nonceSet, fee : feeSet, interface : interfaces,
   gas : gases, payload : {60}]

\* Any input with the defaults, and one good input with any options.
StandardCalls(kind, ins, good) ==
  Call(kind, ins, {None}, {None}, {"none"}, {0})
    \cup Call(kind, {good}, {None, 9}, {None, 0, 250}, {"none", "partial", "native", "other"}, {0})

OwnCalls(kind, ins, good) ==
  Call(kind, ins, {None}, {None}, {"none"}, {0})
    \cup Call(kind, {good}, {None, 9}, {None, 0, 1, 250}, {"none"}, {0})

ContractCalls(kind, ins, good) ==
  Call(kind, ins, {None}, {None}, {"none"}, {0})
    \cup Call(kind, {good}, {None, 9}, {None, 0, 250}, {"none"}, {0, 30})

Mints == [amount : {0, 1, 3}, safeSend : BOOLEAN, bridge : BOOLEAN]

AllowanceInputs ==
  [self : BOOLEAN, amount : {None, 0, 5}, currency : {None, 5}, months : {None, 1},
   seconds : {None, 0, 9}, authorize : BOOLEAN, start : BOOLEAN]

Assignment(to, level, assign, expiry) ==
  [to |-> to, level |-> level, assign |-> assign, expiry |-> expiry]

AssignmentInputs ==
  {<<>>, <<Assignment("a", 1, TRUE, TRUE)>>, <<Assignment("a", 1, FALSE, TRUE)>>,
   <<Assignment("a", 1, TRUE, FALSE), Assignment("a", 2, FALSE, FALSE)>>,
   <<Assignment("a", 1, TRUE, FALSE), Assignment("a", 1, FALSE, FALSE)>>}

DelegatedInput(votes, fees) == [votes |-> votes, fees |-> fees]
VoteFor(to, contracts) == [to |-> to, contracts |-> contracts]
FeeFor(contract, amount) == [contract |-> contract, amount |-> amount]

DelegatedInputs ==
  {DelegatedInput(v, f) :
     v \in {<<>>, <<VoteFor("a", <<1, 2>>)>>, <<VoteFor("self", <<1>>)>>, <<VoteFor("a", <<>>)>>,
            <<VoteFor("a", <<1, 1>>)>>, <<VoteFor("a", <<1>>), VoteFor("a", <<2>>)>>},
     f \in {<<>>, <<FeeFor(1, 4), FeeFor(2, 4)>>, <<FeeFor(1, 4), FeeFor(1, 5)>>,
            <<FeeFor(1, 0)>>}}

Snapshot(adaptive, multi, stages, pre) ==
  [adaptive |-> adaptive, multi |-> multi, stages |-> stages, pre |-> pre]

GovernanceInputs ==
  [governance : {None, Snapshot(TRUE, TRUE, 0, FALSE), Snapshot(FALSE, FALSE, 0, TRUE),
                 Snapshot(FALSE, TRUE, 3, TRUE)},
   options : {<<>>, <<"against", "yes">>, <<"yes">>, <<"against", "against">>,
              <<"against", "forbidden">>, <<"against", "yes", "yes">>},
   transactions : BOOLEAN, indexes : {<<>>, <<1>>, <<2>>, <<1, 1>>},
   from : {None, 2}, to : {None, 1, 4}, native : BOOLEAN]

TextInput(schema, contract, wallet, text, type, observedAt, expiresAt, instruments) ==
  [schema : schema, contract : contract, wallet : wallet, text : text, type : type,
   observedAt : observedAt, expiresAt : expiresAt, instruments : instruments]

TextInputs ==
  TextInput(BOOLEAN, BOOLEAN, BOOLEAN, BOOLEAN, {"staged", "adaptive"}, {0}, {1}, {<<1>>})
    \cup TextInput({TRUE}, {TRUE}, {TRUE}, {TRUE}, {"cycle"}, -3..2, -2..3,
                   {<<>>, <<1>>, <<1, 1>>, <<1, 2, 3>>})

VoteInputs == [support : BOOLEAN, option : {None, "in range", "too large"}]

ItemInputs == [weight : {None, 0, 1}, from : {None, 1, 3}, expiry : {None, 1, 3}]

NftInputs == [feeId : BOOLEAN, parts : {None, 4, 5}]

CreateInputs ==
  [retired : BOOLEAN, vanity : BOOLEAN, id : {None, "derived", "other"},
   type : {"TOKEN", "NFT"}, denomination : BOOLEAN, premint : BOOLEAN, ratio : BOOLEAN,
   fees : BOOLEAN]

GoodCreate ==
  [retired |-> FALSE, vanity |-> TRUE, id |-> "derived", type |-> "TOKEN",
   denomination |-> TRUE, premint |-> TRUE, ratio |-> FALSE, fees |-> TRUE]

UpdateInputs == [retired : BOOLEAN, version : {0, 2}]

DeployInputs ==
  [binary : {None, "empty", "code"}, source : {None, "empty", "code"}, compiled : BOOLEAN]

Grant(contract, amount) == [contract |-> contract, amount |-> amount]

ExecuteInputs ==
  [named : BOOLEAN,
   allowances : {<<>>, <<Grant(1, "parts"), Grant(2, "unlimited")>>, <<Grant(1, "text")>>,
                 <<Grant(1, "parts"), Grant(1, "parts")>>}]

Network == [type |-> "TOKEN", bridge |-> FALSE, released |-> 0, circulation |-> 2,
            authorized |-> FALSE, holder |-> "self", itemFee |-> 0, rate |-> 0,
            price |-> 3, used |-> 4]

Group(calls, ledgers) == [calls |-> calls, ledgers |-> ledgers]

MintLedgers ==
  {[Network EXCEPT !.type = t, !.bridge = b, !.released = r] :
     t \in {"TOKEN", "NFT"}, b \in BOOLEAN, r \in {0, 4}}

ItemLedgers ==
  {[Network EXCEPT !.type = t, !.holder = h, !.itemFee = f, !.rate = r] :
     t \in {"TOKEN", "NFT", "SBT"}, h \in {"self", "other"}, f \in {0, 2}, r \in {1, 40}}

GoodText ==
  [schema |-> TRUE, contract |-> TRUE, wallet |-> TRUE, text |-> TRUE, type |-> "cycle",
   observedAt |-> 0, expiresAt |-> 2, instruments |-> <<1>>]

MCCases ==
  {Group(StandardCalls("mint", Mints, [amount |-> 1, safeSend |-> FALSE, bridge |-> FALSE]),
         MintLedgers),
   Group(UNION {StandardCalls("revoke", [itemId : {"decimal", "text"}], [itemId |-> "decimal"]),
          StandardCalls("allowance", AllowanceInputs,
             [self |-> FALSE, amount |-> 5, currency |-> None, months |-> 1, seconds |-> None,
              authorize |-> TRUE, start |-> TRUE]),
          StandardCalls("compliance", AssignmentInputs, <<Assignment("a", 1, TRUE, TRUE)>>),
          StandardCalls("expenseRatio", {<<>>, <<1, 2>>, <<1, 1>>}, <<1>>),
          StandardCalls("delegated", DelegatedInputs,
             DelegatedInput(<<VoteFor("a", <<1, 2>>)>>, <<>>)),
          StandardCalls("heartbeat", {None}, None),
          StandardCalls("registration", [other : BOOLEAN, ed448 : BOOLEAN],
             [other |-> FALSE, ed448 |-> TRUE])},
         {Network}),
   Group(StandardCalls("governance", GovernanceInputs,
           [governance |-> Snapshot(FALSE, TRUE, 3, TRUE), options |-> <<"against", "yes">>,
            transactions |-> FALSE, indexes |-> <<1>>, from |-> None, to |-> None,
            native |-> FALSE]),
         {[Network EXCEPT !.authorized = a] : a \in BOOLEAN}),
   Group(UNION {OwnCalls("text", TextInputs, GoodText),
          OwnCalls("vote", VoteInputs, [support |-> FALSE, option |-> "in range"]),
          OwnCalls("cancel", [proposalId : BOOLEAN], [proposalId |-> TRUE]),
          OwnCalls("create", CreateInputs, GoodCreate),
          OwnCalls("update", UpdateInputs, [retired |-> FALSE, version |-> 2]),
          ContractCalls("deploy", DeployInputs,
             [binary |-> "code", source |-> None, compiled |-> TRUE]),
          ContractCalls("execute", ExecuteInputs, [named |-> TRUE, allowances |-> <<>>])},
         {Network}),
   Group(UNION {OwnCalls("itemMint", ItemInputs, [weight |-> None, from |-> None, expiry |-> 3]),
          OwnCalls("nft", NftInputs, [feeId |-> TRUE, parts |-> 5]),
          OwnCalls("burnSbt", {None}, None)},
         ItemLedgers)}

-----------------------------------------------------------------------------
(* Calculations of fees *)

NoMap == [known |-> {}, mapGiven |-> FALSE]
Known(ids) == [known |-> ids, mapGiven |-> TRUE]

\* A message of another kind, all fees automatic.
PlainCall ==
  [kind |-> "other", contract |-> None, amount |-> 0, payIn |-> None, feeParts |-> None,
   feeWhole |-> None, interfaceId |-> None, interfaceFee |-> None, interfaceAddress |-> FALSE,
   baseId |-> None, baseParts |-> None, baseWhole |-> None, gas |-> None, over |-> 5,
   needsInitialization |-> None, recipients |-> {}, premints |-> 0, payload |-> 60,
   keys |-> <<"ED25519">>, mapGiven |-> FALSE, known |-> {}]

With(a, b) == [f \in DOMAIN a |-> IF f \in DOMAIN b THEN b[f] ELSE a[f]]

\* Fees of messages of every length, key and base token.
Sized ==
  {With(PlainCall, [payload |-> p, keys |-> k, baseId |-> b, over |-> o, gas |-> g,
                baseParts |-> m]) :
     p \in {0, 14, 60}, k \in {<<"ED25519">>, <<"ED448">>, <<"ED25519", "ED448">>},
     b \in {None, usd, memo}, o \in {0, 1, 2, 5}, g \in {None, 3}, m \in {None, 7}}

\* Transfers, mints and contracts with recipients to pay for.
Paying ==
  {With(PlainCall, [kind |-> k, contract |-> c, recipients |-> r, premints |-> n,
                needsInitialization |-> i, baseId |-> b, over |-> o, baseWhole |-> w]) :
     k \in {"coin", "mint", "contract"}, c \in {None, usd}, r \in SUBSET {Alice, Bob},
     n \in {0, 2}, i \in {None, TRUE, FALSE}, b \in {None, usd}, o \in {0, 5},
     w \in {None, 2}}

\* Transfers with a contract fee and an interface fee.
Charged ==
  {With(With(PlainCall, [kind |-> "coin", contract |-> c, amount |-> a, payIn |-> p, feeParts |-> f,
                feeWhole |-> w, over |-> o, interfaceId |-> i, interfaceFee |-> 1,
                interfaceAddress |-> TRUE]), m) :
     c \in {usd, memo}, a \in {0, 1, 7, 99, 900}, p \in {None, Native, usd}, f \in {None, 25},
     w \in {None, 3}, o \in {0, 5}, i \in {None, usd},
     m \in {NoMap, Known({usd}), Known({Native, usd, memo})}}

Token(rate, decimals, fees) == [rate |-> rate, decimals |-> decimals, fees |-> fees]
Schedule(type, fee, allowed) == [type |-> type, fee |-> fee, allowed |-> allowed]

Ledger(NativeRate, usdToken, memoToken, price) ==
  [token |-> (Native :> Token(NativeRate, 2, None)) @@ (usd :> usdToken) @@ (memo :> memoToken),
   byteFee |-> price, keyFee |-> 8, walletFee |-> 20, holders |-> {Alice}]

Cents == Token(40, 2, None)

\* Any rate and price, for messages of any length.
SizedLedgers ==
  {Ledger(n, Token(u, d, None), Token(None, 1, None), b) :
     n \in {None, 1, 120}, u \in {None, 1, 16, 80000}, d \in {None, 0, 3}, b \in {0, 4, 12}}

PayingLedgers == {Ledger(n, u, Cents, 4) : n \in {None, 120}, u \in {Cents, Token(100, 1, None)}}

Schedules ==
  {None, Schedule("FIXED", 10, {Native, usd}), Schedule("PERCENTAGE", 12, {usd}),
   Schedule("NONE", 0, {usd}), Schedule("CUR_EQUIVALENT", 4, {usd}), Schedule("FIXED", 1, {})}

ChargedLedgers ==
  {Ledger(5, Token(u, d, f), Token(r, 1, f), 4) :
     u \in {None, 6}, d \in {None, 2}, r \in {None, 1}, f \in Schedules}

MCFeeCases ==
  {[calls |-> Sized, ledgers |-> SizedLedgers], [calls |-> Paying, ledgers |-> PayingLedgers],
   [calls |-> Charged, ledgers |-> ChargedLedgers]}

-----------------------------------------------------------------------------
(* Bodies of three chunks and one read more *)

Source(begins, pulls, polite) ==
  [kind : {"source"}, n : {3}, start : {begins}, pull : pulls, overlap : BOOLEAN, polite : polite]

Whole(kind, n, overlap) ==
  [kind |-> kind, n |-> n, start |-> "none", pull |-> FALSE, overlap |-> overlap,
   polite |-> TRUE]

MCSources ==
  UNION {{Whole("bytes", 1, TRUE), Whole("nothing", 1, FALSE),
          Whole("hollow", 0, FALSE)},
         [kind : {"fetch"}, n : {1}, start : {"none"}, pull : {FALSE}, overlap : {FALSE},
          polite : {TRUE}, ok : BOOLEAN, grpcWeb : BOOLEAN, body : BOOLEAN],
         Source("sync", BOOLEAN, BOOLEAN), Source("none", {TRUE}, BOOLEAN),
         Source("async", BOOLEAN, {FALSE})}
=============================================================================
