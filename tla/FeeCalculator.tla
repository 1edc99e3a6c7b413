---------------------------- MODULE FeeCalculator ----------------------------
(***************************************************************************)
(* One call of UniversalFeeCalculator.calculateFee                         *)
(* (shared/fee-calculators/universal-fee-calculator.ts): the contract, the *)
(* interface and the network fee are written into a message that is being  *)
(* built, with requests for token information, for the base fee and for    *)
(* the recipients' balances in between.  The network is external.          *)
(*                                                                         *)
(* Amounts are numbers, a decimal string's length is the number of its     *)
(* digits, and a message is its fee fields and the size of everything else *)
(* in it.  Rates and prices are in units of which Dollar make a dollar.    *)
(***************************************************************************)
EXTENDS Integers, Sequences, FiniteSets

CONSTANTS
  Native,   \* KALVORA_NATIVE_TOKEN
  Dollar,   \* ONE_DOLLAR, 10^18 in the code
  Wide,     \* 2^256 in the code
  None,     \* an option that is not given
  Cases     \* groups of calls, each with the states of the network to meet

FeeConstants == Dollar \in Nat \ {0, 1} /\ Wide \in Nat \ {0} /\ None \notin Nat

VARIABLES
  call,     \* the options, and what the message holds beside its fees
  ledger,   \* what the network would answer
  info,     \* workingTokenInfoMap: the tokens known to the calculation
  msg,      \* the fee fields of protoObject
  pc,       \* where the calculation is
  todo,     \* the recipients whose balance is still to be looked up
  without,  \* addressesWithoutBalance
  asked     \* the requests sent

vars == <<call, ledger, info, msg, pc, todo, without, asked>>

Kinds == {"coin", "mint", "contract", "other"}
FeeTypes == {"FIXED", "CUR_EQUIVALENT", "PERCENTAGE", "NONE"}

-----------------------------------------------------------------------------
(* Numbers *)

\* Tokens have up to MaxDecimals decimals.
MaxDecimals == 8
Pow10 == [n \in 0..MaxDecimals |->
            <<1, 10, 100, 1000, 10000, 100000, 1000000, 10000000, 100000000>>[n + 1]]

\* The length of an amount written in decimal, of nine digits at most.
Digits(n) == 1 + Cardinality({k \in 1..MaxDecimals : n >= Pow10[k]})

\* Calls of a user interface and answers of a node: the tokens a call names exist, amounts,
\* prices and margins are not negative, a rate that is known is not zero, and somebody signs.
CasesConstants ==
  LET Maybe(S) == S \union {None} IN
  \A group \in Cases : \A c \in group.calls, l \in group.ledgers :
    /\ c.over \in Nat /\ c.payload \in Nat /\ c.premints \in Nat /\ c.amount \in Nat
    /\ c.gas \in Maybe(Nat) /\ IsFiniteSet(c.recipients)
    /\ IsFiniteSet(DOMAIN c.keys) /\ DOMAIN c.keys # {}
    /\ c.known \union {Native} \subseteq DOMAIN l.token
    /\ {c.baseId, c.contract, c.payIn} \subseteq Maybe(DOMAIN l.token)
    /\ l.byteFee \in Nat /\ l.keyFee \in Nat /\ l.walletFee \in Nat
    /\ l.token[Native].decimals # None
    /\ \A id \in DOMAIN l.token :
         /\ l.token[id].rate \in Maybe(Nat \ {0})
         /\ l.token[id].decimals \in Maybe(0..MaxDecimals)
         /\ l.token[id].fees # None => l.token[id].fees.fee \in Nat

\* NON_NATIVE_FEE_MULTIPLIER
Multiplier(id) == IF id = Native THEN 1 ELSE 10

Overestimated(n, percent) == (n * (100 + percent)) \div 100

\* Whether the calculation knows how many decimals a token has: from the map,
\* or, for the native token alone, from the table of token-config.ts or of
\* denomination-fallback.ts.
HasDecimals(id) == IF id \in DOMAIN info THEN info[id].decimals # None
                                         ELSE id = Native

NativeDecimals == ledger.token[Native].decimals

DecimalsOf(id) == IF id \in DOMAIN info /\ info[id].decimals # None
                  THEN info[id].decimals ELSE NativeDecimals

\* Contract fees take the fallback also for a token whose entry lacks it.
Convertible(id) == HasDecimals(id) \/ id = Native

\* toSmallestUnits of an amount of whole tokens.
ToSmallestUnits(amount, id) == amount * Pow10[DecimalsOf(id)]

\* resolveUsdRate
UsdRate(rate, id) ==
  IF rate = None \/ rate <= 1 \/ (id = Native /\ rate < Dollar)
  THEN Dollar ELSE rate

-----------------------------------------------------------------------------
(* The message *)

HashOverhead == 34
SignatureOverhead == 2
SignatureSize(key) == IF key = "ED448" THEN 114 ELSE 64

SignaturesSize(keys) ==
  LET Of(key, slots) == Cardinality(slots) * (SignatureSize(key) + SignatureOverhead)
      long == {i \in DOMAIN keys : keys[i] = "ED448"}
  IN Of("ED448", long) + Of("ED25519", DOMAIN keys \ long)

FieldSize(n) == IF n = None THEN 0 ELSE Digits(n)

\* calculateTotalTransactionSize: the encoded message with the signatures and
\* the hash it does not hold yet.  A lone ED448 signature takes a byte more.
Size(m) ==
  call.payload + FieldSize(m.fee) + FieldSize(m.contractFee) + FieldSize(m.interfaceFee)
  + SignaturesSize(call.keys) + HashOverhead
  + IF call.keys = <<"ED448">> THEN 1 ELSE 0

-----------------------------------------------------------------------------
(* The contract fee of a coin transfer *)

\* A manual fee needs the token to pay it in.
ManualContractFee == call.payIn # None /\ (call.feeParts # None \/ call.feeWhole # None)

Schedule == info[call.contract].fees
PayIn == IF call.payIn = None THEN call.contract ELSE call.payIn

NoContractFee ==
  ~ManualContractFee /\ (Schedule.allowed = {} \/ Schedule.type = "NONE")

SameTokenPercentage == Schedule.type = "PERCENTAGE" /\ PayIn = call.contract

RateOf(id) == IF id \in DOMAIN info THEN info[id].rate ELSE None

\* The conversion of a contract fee into another token, by the rates as they
\* are in the map: resolveUsdRate is not applied here.
UsdInto(usd, id) == (usd * Pow10[DecimalsOf(id)]) \div RateOf(id)

FixedInto(id) ==
  IF id = call.contract THEN Schedule.fee
  ELSE (Schedule.fee * RateOf(call.contract) * Pow10[DecimalsOf(id)])
         \div (Pow10[DecimalsOf(call.contract)] * RateOf(id))

\* The fraction Schedule.fee / Dollar of what the transfer moves, in the token
\* it is paid in, and at least one unit of it.
PercentageInto(id) ==
  LET fee == IF id = call.contract THEN (call.amount * Schedule.fee) \div Dollar
             ELSE (call.amount * Schedule.fee * RateOf(call.contract) * Pow10[DecimalsOf(id)])
                    \div (Dollar * Pow10[DecimalsOf(call.contract)] * RateOf(id))
  IN IF fee = 0 /\ call.amount > 0 /\ Schedule.fee > 0 THEN 1 ELSE fee

ScheduledFee ==
  CASE Schedule.type = "FIXED"          -> FixedInto(PayIn)
    [] Schedule.type = "CUR_EQUIVALENT" -> UsdInto(Schedule.fee, PayIn)
    [] Schedule.type = "PERCENTAGE"     -> PercentageInto(PayIn)

\* A foreign token to pay in, or a fee set in dollars, needs that token's rate.
NeedsPayRate == Schedule.type = "CUR_EQUIVALENT" \/ PayIn # call.contract

\* The schedule names a fee whose tokens have the rates and decimals it takes.
Priced ==
  /\ RateOf(call.contract) # None \/ SameTokenPercentage
  /\ Convertible(call.contract)
  /\ Schedule.type # "NONE" /\ NeedsPayRate => RateOf(PayIn) # None /\ Convertible(PayIn)

TooWide ==
  /\ Schedule.type = "PERCENTAGE"
  /\ call.amount >= Wide \/ Overestimated(PercentageInto(PayIn), call.over) >= Wide

ContractFeeFails ==
  IF ManualContractFee THEN call.feeParts = None /\ ~HasDecimals(call.payIn)
  ELSE Schedule.allowed # {} /\ (Priced => TooWide)

WithContractFee(m) ==
  IF call.payIn # None /\ call.feeParts # None
  THEN [m EXCEPT !.contractFeeId = call.payIn, !.contractFee = call.feeParts]
  ELSE IF ManualContractFee
  THEN [m EXCEPT !.contractFeeId = call.payIn,
                 !.contractFee = ToSmallestUnits(call.feeWhole, call.payIn)]
  ELSE IF NoContractFee THEN m
  ELSE [m EXCEPT !.contractFeeId = PayIn,
                 !.contractFee = Overestimated(ScheduledFee, call.over)]

\* Only a transfer of a token whose schedule the map of the caller holds.
ChargesContractFee ==
  /\ call.kind = "coin" /\ call.mapGiven
  /\ call.contract \in DOMAIN info /\ info[call.contract].fees # None

-----------------------------------------------------------------------------
(* The interface fee *)

ChargesInterfaceFee == call.interfaceId # None /\ call.interfaceFee # None

\* Without an address the fee is left out.  The conversion uses the map of the
\* caller, not the one the calculation fetched.
InterfaceFeeFails ==
  /\ ChargesInterfaceFee /\ call.interfaceAddress
  /\ IF call.mapGiven THEN ~HasDecimals(call.interfaceId) ELSE call.interfaceId # Native

WithInterfaceFee(m) ==
  IF ChargesInterfaceFee /\ call.interfaceAddress
  THEN [m EXCEPT !.interfaceFee = ToSmallestUnits(call.interfaceFee, call.interfaceId)]
  ELSE m

-----------------------------------------------------------------------------
(* The network fee *)

Base == IF call.baseId = None THEN Native ELSE call.baseId
ManualBase == call.baseParts # None \/ call.baseWhole # None

\* The price of a message of a given size, in parts of the base token.
PartsOf(usd) == (usd * Multiplier(Base) * Pow10[DecimalsOf(Base)])
                \div UsdRate(RateOf(Base), Base)

NodePrice(size) == PartsOf(size * ledger.byteFee + ledger.keyFee)

AtLeastOnePart(parts, usd) == IF parts = 0 /\ usd > 0 THEN 1 ELSE parts

\* Mutant: the fee is the one of a message with a fee of one digit.
UncorrectedParts(size) == AtLeastOnePart(NodePrice(size), size * ledger.byteFee + ledger.keyFee)

\* The fee of the message with a fee of one digit, and once more of the message
\* with a fee of that length.
SizedParts(size) ==
  LET first == AtLeastOnePart(NodePrice(size), size * ledger.byteFee + ledger.keyFee)
  IN IF Digits(first) = 1 THEN first ELSE NodePrice(size + Digits(first) - 1)

\* calculateGasFee: the rate as it is in the map, 1 when it has none.
GasRate == IF RateOf(Base) = None THEN 1 ELSE RateOf(Base)
GasParts ==
  IF call.gas = None \/ call.gas = 0 THEN 0
  ELSE AtLeastOnePart((call.gas * Multiplier(Base) * Pow10[DecimalsOf(Base)]) \div GasRate,
                      call.gas)

GasFails == /\ call.gas # None /\ call.gas > 0
            /\ (Base \notin DOMAIN info \/ ~HasDecimals(Base))

ManualFails == (call.baseParts = None /\ ~HasDecimals(Base)) \/ GasFails

ManualParts ==
  GasParts + IF call.baseParts # None THEN call.baseParts
                                      ELSE ToSmallestUnits(call.baseWhole, Base)

WithBaseFee(m, fee) == [m EXCEPT !.fee = fee, !.feeId = Base]

-----------------------------------------------------------------------------
(* The surcharge for recipients that do not hold the token *)

\* initializationTargets
Recipients == IF call.kind \in {"coin", "mint"} THEN call.recipients ELSE {}
Unconditional == IF call.kind = "contract" THEN call.premints ELSE 0

ChargesNewBalances ==
  /\ call.kind \in {"coin", "mint", "contract"} /\ ~ManualBase
  /\ call.contract # None \/ call.kind = "contract"
  /\ Recipients # {} \/ Unconditional > 0

LookUps == IF call.needsInitialization = TRUE THEN {} ELSE Recipients

Surcharge(count) == PartsOf(ledger.walletFee * count)

-----------------------------------------------------------------------------
(* The calculation *)

NoFees == [fee |-> 1, feeId |-> None, contractFee |-> None, contractFeeId |-> None,
           interfaceFee |-> None]

Init ==
  /\ \E case \in Cases : call \in case.calls /\ ledger \in case.ledgers
  /\ info = [id \in (IF call.mapGiven THEN call.known ELSE {}) |-> ledger.token[id]]
  /\ msg = NoFees
  /\ pc = "start"
  /\ todo = {}
  /\ without = 0
  /\ asked = {}

Reject == pc' = "rejected" /\ UNCHANGED <<call, ledger, info, msg, todo, without, asked>>

\* The base token's information is requested unless it is known; a failure is
\* not one of the calculation.
FetchTokenInfo ==
  /\ pc = "start"
  /\ IF Base \in DOMAIN info THEN UNCHANGED <<info, asked>>
     ELSE /\ asked' = asked \union {"tokenInfo"}
          /\ \/ info' = [id \in DOMAIN info \union {Base} |->
                           IF id = Base THEN ledger.token[Base] ELSE info[id]]
             \/ UNCHANGED info
  /\ pc' = "fees"
  /\ UNCHANGED <<call, ledger, msg, todo, without>>

\* The contract and the interface fee, then a manual base fee at once.
CalculateFees ==
  /\ pc = "fees"
  /\ \/ /\ ChargesContractFee /\ ContractFeeFails
        /\ Reject
     \/ /\ ~(ChargesContractFee /\ ContractFeeFails)
        /\ LET charged == IF ChargesContractFee THEN WithContractFee(msg) ELSE msg IN
           \/ /\ InterfaceFeeFails
              /\ msg' = charged
              /\ pc' = "rejected"
           \/ /\ ~InterfaceFeeFails /\ ~ManualBase
              /\ msg' = WithInterfaceFee(charged)
              /\ pc' = "baseFee"
           \/ /\ ~InterfaceFeeFails /\ ManualBase /\ ManualFails
              /\ msg' = WithInterfaceFee(charged)
              /\ pc' = "rejected"
           \/ /\ ~InterfaceFeeFails /\ ManualBase /\ ~ManualFails
              /\ msg' = WithBaseFee(WithInterfaceFee(charged), ManualParts)
              /\ pc' = "done"
        /\ asked' = IF pc' = "baseFee" THEN asked \union {"baseFee"} ELSE asked
        /\ UNCHANGED <<call, ledger, info, todo, without>>

\* The base fee is answered: the fee is written, and the balances are looked
\* up unless the caller says whether the recipients hold the token.
ReceiveBaseFee ==
  /\ pc = "baseFee"
  /\ IF HasDecimals(Base) /\ Base \in DOMAIN info
     THEN /\ msg' = WithBaseFee(msg, Overestimated(SizedParts(Size(msg)), call.over) + GasParts)
          /\ \/ /\ ~ChargesNewBalances \/ call.needsInitialization = FALSE
                /\ pc' = "done"
                /\ UNCHANGED <<todo, without>>
             \/ /\ ChargesNewBalances /\ call.needsInitialization # FALSE
                /\ pc' = "balances"
                /\ todo' = LookUps
                /\ without' = Unconditional
                     + IF call.needsInitialization = TRUE THEN Cardinality(Recipients) ELSE 0
          /\ UNCHANGED <<call, ledger, info, asked>>
     ELSE Reject

BaseFeeFails ==
  /\ pc = "baseFee"
  /\ Reject

\* Mutant: a failed look-up counts as a recipient with the token.
LookUpOptimistic(a) ==
  /\ pc = "balances" /\ a \in todo
  /\ \/ without' = IF a \in ledger.holders THEN without ELSE without + 1
     \/ without' = without
  /\ todo' = todo \ {a}
  /\ asked' = asked \union {"balance"}
  /\ UNCHANGED <<call, ledger, info, msg, pc>>

\* One balance, and a failed look-up counts as a recipient without the token.
LookUpBalance(a) ==
  /\ pc = "balances" /\ a \in todo
  /\ \/ without' = IF a \in ledger.holders THEN without ELSE without + 1
     \/ without' = without + 1
  /\ todo' = todo \ {a}
  /\ asked' = asked \union {"balance"}
  /\ UNCHANGED <<call, ledger, info, msg, pc>>

AddSurcharge ==
  /\ pc = "balances" /\ todo = {}
  /\ msg' = [msg EXCEPT !.fee = @ + Surcharge(without)]
  /\ pc' = "done"
  /\ UNCHANGED <<call, ledger, info, todo, without, asked>>

Next ==
  \/ FetchTokenInfo \/ CalculateFees \/ ReceiveBaseFee \/ BaseFeeFails
  \/ \E a \in Recipients : LookUpBalance(a)
  \/ AddSurcharge

Spec == Init /\ [][Next]_vars

-----------------------------------------------------------------------------
(* Properties *)

Calculated == pc = "done" /\ ~ManualBase

\* The message is charged for the length it ends up with, although it is sized
\* before its own fee is known: the correction of calculateNetworkFee counts
\* the digits once, so that with a margin below two percent a fee is at most one
\* byte short, and with a larger one, as the default is, it is not short.
FeeCoversSize ==
  Calculated => msg.fee + (IF call.over < 2 THEN PartsOf(ledger.byteFee) + 1 ELSE 0)
                  >= NodePrice(Size(msg))

\* Every distinct recipient without the token is paid for, whatever requests
\* for balances failed, unless the caller said that all of them hold it
\* (calculateNewTokenBalanceFee).
NewBalancesPaid ==
  Calculated /\ ChargesNewBalances /\ call.needsInitialization # FALSE =>
    LET empty == Cardinality(Recipients \ ledger.holders) + Unconditional
    IN msg.fee >= NodePrice(Size(NoFees)) + Surcharge(empty)

\* A percentage is never rounded up by more than the margin, nor down by a
\* unit of the token it is paid in, nor to nothing (calculateContractFee).
PercentageSound ==
  pc = "done" /\ ChargesContractFee /\ ~ManualContractFee /\ ~NoContractFee
     /\ Schedule.type = "PERCENTAGE" =>
    LET foreign == PayIn # call.contract
        worth == call.amount * Schedule.fee
                   * IF foreign THEN RateOf(call.contract) * Pow10[DecimalsOf(PayIn)] ELSE 1
        unit == Dollar
                   * IF foreign THEN Pow10[DecimalsOf(call.contract)] * RateOf(PayIn) ELSE 1
    IN /\ (msg.contractFee + 1) * unit > worth
       /\ worth > 0 => msg.contractFee >= 1
       /\ msg.contractFee * 100 * unit <= (100 + call.over) * (IF worth < unit /\ worth > 0
                                                               THEN unit ELSE worth)

\* No charge is left out: each new balance and each part of a percentage is paid for
\* (calculateNewTokenBalanceFee, calculateContractFee).
ChargesSound == NewBalancesPaid /\ PercentageSound

=============================================================================
