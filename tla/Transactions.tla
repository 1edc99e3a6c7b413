----------------------------- MODULE Transactions ---------------------------
(***************************************************************************)
(* What an application and its transports do for one transaction, one of   *)
(* four things at a time: createCoinTXN (CoinBuild), one of the other      *)
(* builders (Builders), a calculation of fees by itself (FeeCalculator),   *)
(* or the body of an answer that is read (Streams).  They share nothing    *)
(* but the library; the parts that are not called stay in a state in which *)
(* they may start.                                                         *)
(***************************************************************************)
EXTENDS Builders

CONSTANTS
  Wallet, Input, MaxInput, Total, MaxUsed,  \* of CoinBuild
  Native, Wide, FeeCases,                   \* of FeeCalculator
  Sources, MaxReads                         \* of Streams

VARIABLES
  part,  \* what is done: "builder", "coin", "fee" or "body"
  inputs, total, used, coinStart, pc, nonces, txn,
  feeCall, feeLedger, info, feeMsg, feePc, todo, without, feeAsked,
  source, bodyPc, starting, chunks, closed, sent, got, reads, cancelled

coinVars == <<inputs, total, used, coinStart, pc, nonces, txn>>
feeVars == <<feeCall, feeLedger, info, feeMsg, feePc, todo, without, feeAsked>>
bodyVars == <<source, bodyPc, starting, chunks, closed, sent, got, reads, cancelled>>

Coin == INSTANCE CoinBuild WITH start <- coinStart

Fee ==
  INSTANCE FeeCalculator WITH
    Cases <- FeeCases, call <- feeCall, ledger <- feeLedger, msg <- feeMsg, pc <- feePc,
    asked <- feeAsked

Body == INSTANCE Streams WITH pc <- bodyPc

ASSUME CoinAssumption == Coin!CoinConstants

ASSUME FeeAssumption == Fee!FeeConstants /\ Fee!CasesConstants

ASSUME BodyAssumption == Body!StreamConstants

-----------------------------------------------------------------------------
An(S) == CHOOSE x \in S : TRUE

Some(groups) == CHOOSE group \in groups : group.calls # {} /\ group.ledgers # {}

IdleBuilder == call = An(Some(Cases).calls) /\ ledger = An(Some(Cases).ledgers) /\ Init

IdleCoin ==
  inputs = <<An(Input)>> /\ total = An(Total) /\ used = [w \in Wallet |-> 0] /\ Coin!Init

IdleFee ==
  feeCall = An(Some(FeeCases).calls) /\ feeLedger = An(Some(FeeCases).ledgers) /\ Fee!Init

IdleBody == source = An(Sources) /\ Body!Init

InitAny ==
  \/ part = "builder" /\ IdleCoin /\ IdleFee /\ IdleBody /\ Init
  \/ part = "coin" /\ IdleBuilder /\ IdleFee /\ IdleBody /\ Coin!Init
  \/ part = "fee" /\ IdleBuilder /\ IdleCoin /\ IdleBody /\ Fee!Init
  \/ part = "body" /\ IdleBuilder /\ IdleCoin /\ IdleFee /\ Body!Init

NextAny ==
  /\ UNCHANGED part
  /\ \/ part = "builder" /\ Next /\ UNCHANGED <<coinVars, feeVars, bodyVars>>
     \/ part = "coin" /\ Coin!Next /\ UNCHANGED <<vars, feeVars, bodyVars>>
     \/ part = "fee" /\ Fee!Next /\ UNCHANGED <<vars, coinVars, bodyVars>>
     \/ part = "body" /\ Body!Next /\ UNCHANGED <<vars, coinVars, feeVars>>

SpecAny == InitAny /\ [][NextAny]_<<part, vars, coinVars, feeVars, bodyVars>>

-----------------------------------------------------------------------------
(* Properties of the parts *)

\* What createCoinTXN signs moves exactly what the outputs receive, and every slot has its
\* key, its signature and its nonce (coin-txn/transaction.ts:185, 380).
CoinSound == Coin!Conserved /\ Coin!SlotsAligned

\* A message is charged for the length it ends up with (calculateNetworkFee).
FeeCoversSize == Fee!FeeCoversSize

\* New balances are paid for, and percentages are not rounded away
\* (calculateNewTokenBalanceFee, calculateContractFee).
ChargesSound == Fee!ChargesSound

\* Chunks are read in order, each once, and a reader is told of the end only after the last
\* (grpc-web-fetch-wrapper.ts).
NothingLost == Body!NothingLost
=============================================================================
