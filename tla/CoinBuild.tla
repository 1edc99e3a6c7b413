----------------------------- MODULE CoinBuild ------------------------------
(***************************************************************************)
(* createCoinTXN (coin-txn/transaction.ts): the inputs an application      *)
(* gives are turned into the authorization slots and transfers of one      *)
(* CoinTXN.  The nonces are read from the validator one wallet after the   *)
(* other, while the chain goes on; fees are asked for after that, and the  *)
(* keys sign last.                                                         *)
(*                                                                         *)
(* A wallet stands for its key and its address, an optional field is a set *)
(* of at most one element, an amount is in smallest units and the outputs  *)
(* are their sum.  The signatures are those of module Signing: here a slot *)
(* counts as signed by the wallet whose key signed it.                     *)
(***************************************************************************)
EXTENDS Integers, Sequences, SequencesExt, FiniteSets

CONSTANTS
  Wallet,   \* wallets
  Input,    \* inputs an application may give: [key, granter, amount, nonce, percent]
  MaxInput, \* bound: inputs of a transaction
  Total,    \* what the outputs may sum up to
  MaxUsed   \* bound: nonces a wallet uses

CoinConstants ==
  /\ MaxInput \in Nat \ {0} /\ MaxUsed \in Nat /\ Total \subseteq Nat
  /\ Input \subseteq [key : SUBSET Wallet, granter : SUBSET Wallet, amount : SUBSET Nat,
                      nonce : SUBSET Nat, percent : SUBSET Nat]

VARIABLES
  inputs, \* the inputs of the call
  total,  \* the sum of its outputs
  used,   \* the last nonce the chain has of each wallet
  start,  \* the same when the call was made
  pc,     \* where the call is
  nonces, \* nonceDecimals
  txn     \* the transaction built

vars == <<inputs, total, used, start, pc, nonces, txn>>

The(S) == CHOOSE x \in S : TRUE
Indices == DOMAIN inputs
Sum(seq) == FoldLeft(+, 0, seq)

\* The wallet whose nonce an input takes.
Address(input) == The(IF input.key # {} THEN input.key ELSE input.granter)

IsAllowance == \E i \in Indices : inputs[i].granter # {}
AllInputsHaveNonces == \A i \in Indices : inputs[i].nonce # {}

\* The inputs with an index in a set, in order: the j-th is the one that j - 1 come before.
InOrder(S) ==
  [j \in 1..Cardinality(S) |-> CHOOSE i \in S : Cardinality({k \in S : k < i}) = j - 1]

\* The inputs that transfer: in an allowance transaction those without a key.
Transferring == InOrder({i \in Indices : ~(IsAllowance /\ inputs[i].key # {})})

KeyInputs == InOrder({i \in Indices : inputs[i].key # {}})

\* feePercent ?? '100'
Percent(input) == IF input.percent = {} THEN 100 ELSE The(input.percent)

\* The authorizer of an allowance transaction is left out of the balance.
BalanceInputs == IF IsAllowance /\ Len(inputs) > 1 THEN Tail(inputs) ELSE inputs

\* Mutant: the inputs may exceed the outputs.
CoversOutputs ==
  /\ \A i \in DOMAIN BalanceInputs : BalanceInputs[i].amount \notin {{}, {0}}
  /\ Sum([i \in DOMAIN BalanceInputs |-> The(BalanceInputs[i].amount)]) >= total

\* validateTransactionBalance
Balanced ==
  /\ \A i \in DOMAIN BalanceInputs : BalanceInputs[i].amount \notin {{}, {0}}
  /\ Sum([i \in DOMAIN BalanceInputs |-> The(BalanceInputs[i].amount)]) = total

\* validateFeePercentages
FeesShared == Sum([j \in DOMAIN Transferring |-> Percent(inputs[Transferring[j]])]) = 100

Transfer(i) ==
  [index |-> i - 1, amount |-> The(inputs[i].amount), percent |-> Percent(inputs[i])]

\* The unsigned message.
Assembled ==
  LET addresses == [i \in Indices |-> Address(inputs[i])]
  IN [keys |-> [j \in DOMAIN KeyInputs |-> The(inputs[KeyInputs[j]].key)],
      nonces |-> IF IsAllowance THEN <<Head(nonces)>> ELSE nonces,
      granters |-> IF IsAllowance THEN Tail(addresses) ELSE <<>>,
      granterNonces |-> IF IsAllowance THEN Tail(nonces) ELSE <<>>,
      transfers |-> [j \in DOMAIN Transferring |-> Transfer(Transferring[j])],
      signers |-> <<>>]

Blank == [keys |-> <<>>, nonces |-> <<>>, granters |-> <<>>, granterNonces |-> <<>>,
          transfers |-> <<>>, signers |-> <<>>]

Init ==
  /\ inputs \in UNION {[1..n -> Input] : n \in 1..MaxInput}
  /\ total \in Total
  /\ used \in [Wallet -> 0..MaxUsed] /\ start = used
  /\ pc = "check" /\ nonces = <<>> /\ txn = Blank

-----------------------------------------------------------------------------
Goto(label) == pc' = label
Fail == Goto("failed") /\ UNCHANGED <<inputs, total, used, start, nonces, txn>>

\* Every input names a wallet; nonces are asked for unless all are given.
Check ==
  /\ pc = "check"
  /\ IF \E i \in Indices : inputs[i].key = {} /\ inputs[i].granter = {} THEN Fail
     ELSE
       /\ IF AllInputsHaveNonces
            THEN /\ nonces' = [i \in Indices |-> The(inputs[i].nonce)]
                 /\ Goto("assemble")
            ELSE Goto("nonces") /\ UNCHANGED nonces
       /\ UNCHANGED <<inputs, total, used, start, txn>>

\* The validator's last nonce plus one; a wallet it does not know starts at one.
NextNonce(w) == used[w] + 1

\* getNonces: one request after the other, in the order of the inputs.
FetchNonce ==
  /\ pc = "nonces"
  /\ \/ /\ nonces' = Append(nonces, NextNonce(Address(inputs[Len(nonces) + 1])))
        /\ Goto(IF Len(nonces') = Len(inputs) THEN "assemble" ELSE "nonces")
        /\ UNCHANGED <<inputs, total, used, start, txn>>
     \/ Fail

\* The slots and transfers, and the checks on their sums.
Assemble ==
  /\ pc = "assemble"
  /\ IF Balanced /\ FeesShared /\ \A j \in DOMAIN Transferring :
                                     inputs[Transferring[j]].amount \notin {{}, {0}}
       THEN /\ txn' = Assembled /\ Goto("fees")
            /\ UNCHANGED <<inputs, total, used, start, nonces>>
       ELSE Fail

\* The fee calculation asks the validator and may fail.
CalculateFees ==
  /\ pc = "fees"
  /\ \/ Goto("sign") /\ UNCHANGED <<inputs, total, used, start, nonces, txn>>
     \/ Fail

\* What getTransactionSigningBytes demands of the slots.
SlotsFilled == txn.keys # <<>> /\ Len(txn.nonces) = Len(txn.keys)

SignerKeys ==
  LET own == InOrder({i \in Indices : inputs[i].granter = {}})
  IN [j \in DOMAIN own |-> The(inputs[own[j]].key)]

\* The inputs' own keys sign in their order; without any only the hash is added.
Sign ==
  /\ pc = "sign"
  /\ IF SignerKeys = <<>> \/ (SlotsFilled /\ Len(SignerKeys) <= Len(txn.keys))
       THEN /\ txn' = [txn EXCEPT !.signers = SignerKeys] /\ Goto("signed")
            /\ UNCHANGED <<inputs, total, used, start, nonces>>
       ELSE Fail

\* The chain includes another transaction of a wallet.
Include ==
  /\ pc \notin {"signed", "failed"}
  /\ \E w \in Wallet : used[w] < MaxUsed /\ used' = [used EXCEPT ![w] = @ + 1]
  /\ UNCHANGED <<inputs, total, start, pc, nonces, txn>>

Next == Check \/ FetchNonce \/ Assemble \/ CalculateFees \/ Sign \/ Include

Spec == Init /\ [][Next]_vars

-----------------------------------------------------------------------------
\* Inputs in the order the guides give: wallets that sign for themselves, or one
\* authorizer before the grants it spends.
Ordered ==
  \/ \A i \in Indices : inputs[i].granter = {}
  \/ inputs[1].granter = {} /\ \A i \in Indices \ {1} : inputs[i].granter # {}

\* What is signed moves exactly what the outputs receive, and its transfers share the fee
\* to one hundred percent.
Conserved ==
  pc = "signed" /\ Ordered =>
    /\ Sum([j \in DOMAIN txn.transfers |-> txn.transfers[j].amount]) = total
    /\ Sum([j \in DOMAIN txn.transfers |-> txn.transfers[j].percent]) = 100

\* The slots line up: every key of a signed transaction has signed in its slot, and the
\* nonces beside the keys, and then beside the grants, are those the inputs give, in their
\* order, when all of them give one; otherwise one that was asked for because its input gives
\* none is one its own wallet came to in the course of the call (coin-txn/transaction.ts:187).
\* An input that gives one beside others that do not is left out: the documents say its nonce
\* is used, and the code asks for another.
SlotsAligned ==
  LET Current(w, n) == n \in start[w] + 1 .. used[w] + 1 IN
  pc = "signed" /\ Ordered =>
    /\ txn.signers = txn.keys
    /\ Len(txn.nonces) = Len(txn.keys) /\ Len(txn.granterNonces) = Len(txn.granters)
    /\ IF AllInputsHaveNonces
         THEN txn.nonces \o txn.granterNonces = [i \in Indices |-> The(inputs[i].nonce)]
         ELSE /\ \A i \in DOMAIN txn.keys :
                   inputs[i].nonce = {} => Current(txn.keys[i], txn.nonces[i])
              /\ \A i \in DOMAIN txn.granters :
                   inputs[Len(txn.keys) + i].nonce = {} =>
                     Current(txn.granters[i], txn.granterNonces[i])
=============================================================================
