-------------------------------- MODULE Query --------------------------------
(***************************************************************************)
(* The answers of a node as KalvoraQueryClient hands them on               *)
(* (query/api-client.ts, query/decoders.ts): balances and fees, blocks     *)
(* with the results of their transactions, the proposal ledger and the     *)
(* record of a contract's supply, which arrives as protobuf in a text.     *)
(*                                                                         *)
(* A hash is given in one of several spellings.  A varint has digits of    *)
(* base Base; one that another follows is written Base higher.             *)
(***************************************************************************)
EXTENDS Integers, Sequences, SequencesExt, FiniteSetsExt

CONSTANTS
  None,     \* refused, or absent
  Junk,     \* a text that is no number
  Blank,    \* an empty one
  OK,       \* TXN_STATUS.OK
  Base,     \* 128
  MaxDigits,\* digits of the longest varint: 8
  Requests  \* what is asked, with the answers a node may give

VARIABLES
  request, \* what is asked
  pc,      \* "asked", "denomination", "answered" or "failed"
  result   \* what the application gets

vars == <<request, pc, result>>

-----------------------------------------------------------------------------
(* Numbers *)

\* parseUintString: an absent number is zero.
ParseUintString(text) == IF text = Blank THEN 0 ELSE IF text = Junk THEN None ELSE text

\* One unreadable number refuses the answer.
Numbers(texts) ==
  LET read == [f \in DOMAIN texts |-> ParseUintString(texts[f])]
  IN IF \E f \in DOMAIN read : read[f] = None THEN None ELSE read

GetBalance(answer) == Numbers(answer)

GetAllBalances(answer) ==
  LET read == [i \in DOMAIN answer |-> Numbers(answer[i])]
  IN IF \E i \in DOMAIN read : read[i] = None THEN None ELSE read

GetDenomination(answer) == Numbers([denomination |-> answer])

GetContractFee(answer) == Numbers(answer)

GetBaseFee(answer) == Numbers(answer)

\* None of them is asked for: refused.
GetTokenFeeInfo(answer) == IF answer = <<>> THEN None ELSE GetAllBalances(answer)

-----------------------------------------------------------------------------
(* Blocks *)

\* A block's transactions by list, and the receipts with the stages before them.
TxnsListTypes == {"coinTxns", "mintTxns", "contractTxns"}

\* Every list, and the one transaction that is in none.
ListBlockTransactions(block) ==
  FlattenSeq([i \in 1..Len(SetToSeq(TxnsListTypes)) |->
                LET list == SetToSeq(TxnsListTypes)[i]
                IN [k \in DOMAIN block.lists[list] |-> [type |-> list, hash |-> block.lists[list][k]]]])
    \o (IF block.version = None THEN <<>> ELSE <<[type |-> "requiredVersion", hash |-> block.version]>>)

ToTransactionResult(raw) ==
  [hash |-> raw.hash, status |-> raw.status, success |-> raw.status = OK,
   fees |-> ParseUintString(raw.fees)]

\* Mutant: a stage of the transaction is taken for its receipt.
AnyRecord(block, hash) ==
  LET of == {i \in DOMAIN block.receipts : block.receipts[i].hash = hash}
  IN IF of = {} THEN None ELSE ToTransactionResult(block.receipts[Min(of)])

\* The first record with a status; the hash may be spelled with 0x and in capitals.
FindTransactionResult(block, hash) ==
  LET of == {i \in DOMAIN block.receipts :
               block.receipts[i].hash = hash /\ block.receipts[i].status # None}
  IN IF of = {} THEN None ELSE ToTransactionResult(block.receipts[Min(of)])

Receipts(block) == SelectSeq(block.receipts, LAMBDA r : r.status # None)

SummarizeBlock(block) ==
  LET all == ListBlockTransactions(block)
      types == {all[i].type : i \in DOMAIN all}
  IN [count |-> Len(all),
      byType |-> [t \in types |-> Cardinality({i \in DOMAIN all : all[i].type = t})],
      results |-> [i \in DOMAIN Receipts(block) |-> ToTransactionResult(Receipts(block)[i])]]

\* A block by its height, or by its hash in any spelling.
GetBlock(selector, blocks) ==
  LET like == {b \in blocks : IF selector.by = "hash" THEN b.hash = selector.hash
                                                      ELSE b.height = selector.height}
  IN IF like = {} THEN None ELSE CHOOSE b \in like : TRUE

-----------------------------------------------------------------------------
(* The proposal ledger *)

\* Keys and values come as two lists.
ZipMap(keys, values) ==
  IF Len(keys) # Len(values) THEN None
  ELSE [k \in ToSet(keys) |-> values[Max({i \in DOMAIN keys : keys[i] = k})]]

\* A status without its proposal counts as one of regular governance.
ToProposalStatusView(status) ==
  IF status.proposal = None
  THEN [id |-> status.id, stage |-> 0, phase |-> "REGULAR_GOVERNANCE", pending |-> status.pending]
  ELSE [id |-> status.id, stage |-> status.proposal.stage, phase |-> status.proposal.phase,
        pending |-> status.pending]

GetProposalLedger(answer) ==
  LET map == ZipMap(answer.keys, answer.values)
  IN IF map = None THEN None
     ELSE [map |-> map, statuses |-> [i \in DOMAIN answer.statuses |->
                                        ToProposalStatusView(answer.statuses[i])]]

-----------------------------------------------------------------------------
(* The supply of a contract *)

\* What the node writes.
Varint[n \in Nat] == IF n < Base THEN <<n>> ELSE <<Base + (n % Base)>> \o Varint[n \div Base]

FieldBytes(number, text) ==
  IF text = <<>> THEN <<>> ELSE Varint[number * 8 + 2] \o Varint[Len(text)] \o text

SupplyRecord(s) == FieldBytes(1, s.max) \o FieldBytes(2, s.current)

\* What arrives of it.
Arrived(r) == LET all == SupplyRecord(r.supply) IN SubSeq(all, 1, Len(all) - r.missing)

Power[n \in Nat] == IF n = 0 THEN 1 ELSE Base * Power[n - 1]

\* The number that begins at a place, and the place behind it.
ReadVarint(bytes, at) ==
  LET ends == {i \in at..Len(bytes) : bytes[i] < Base} IN
  IF ends = {} \/ Min(ends) - at >= MaxDigits THEN None
  ELSE [value |-> FoldLeft(LAMBDA sum, i : sum + (bytes[i] % Base) * Power[i - at], 0,
                           [k \in 1..Min(ends) - at + 1 |-> at + k - 1]),
        next |-> Min(ends) + 1]

\* The fields from a place on, over those read before; the last of a number counts.
DecodeContractSupply(bytes) ==
  LET Fields[at \in 1..Len(bytes) + 1, read \in [{1, 2} -> Seq(Nat)]] ==
        IF at = Len(bytes) + 1 THEN read
        ELSE LET tag == ReadVarint(bytes, at) IN
             IF tag = None \/ tag.value % 8 # 2 THEN None
             ELSE LET length == ReadVarint(bytes, tag.next) IN
                  IF length = None THEN None
                  ELSE LET end == length.next + length.value
                           field == tag.value \div 8
                       IN IF end > Len(bytes) + 1 THEN None
                          ELSE Fields[end, IF field \in {1, 2}
                                           THEN [read EXCEPT ![field] = SubSeq(bytes, length.next, end - 1)]
                                           ELSE read]
      read == Fields[1, [f \in {1, 2} |-> <<>>]]
  IN IF read = None THEN None
     ELSE [max |-> read[1], current |-> read[2], circulation |-> read[2]]

-----------------------------------------------------------------------------

Init == request \in Requests /\ pc = "asked" /\ result = None

Answer(x) ==
  /\ result' = x /\ pc' = IF x = None THEN "failed" ELSE "answered"
  /\ UNCHANGED request

Fail == pc = "asked" /\ pc' = "failed" /\ UNCHANGED <<request, result>>

\* A wallet without the token is not found; any other error is handed on.
AskBalanceOrZero ==
  /\ pc = "asked" /\ request.kind = "balance"
  /\ IF request.answer = None THEN pc' = "denomination" /\ UNCHANGED <<request, result>>
                              ELSE Answer(GetBalance(request.answer))

AskDenomination ==
  /\ pc = "denomination"
  /\ LET known == GetDenomination(request.denomination)
     IN Answer(IF known = None THEN None
               ELSE [balance |-> 0, denomination |-> known.denomination, rate |-> 0])

Ask ==
  /\ pc = "asked"
  /\ \/ request.kind = "balances" /\ Answer(GetAllBalances(request.answer))
     \/ request.kind = "fee" /\ Answer(GetContractFee(request.answer))
     \/ request.kind = "baseFee" /\ Answer(GetBaseFee(request.answer))
     \/ request.kind = "tokens" /\ Answer(GetTokenFeeInfo(request.answer))
     \/ request.kind = "ledger" /\ Answer(GetProposalLedger(request.answer))
     \/ request.kind = "supply" /\ Answer(DecodeContractSupply(Arrived(request)))

\* getTransactionResult, beside the summary of the block.
AskResult ==
  /\ pc = "asked" /\ request.kind = "result"
  /\ LET block == GetBlock(request.selector, request.blocks)
     IN Answer(IF block = None THEN None
               ELSE [block |-> block, of |-> FindTransactionResult(block, request.hash),
                     summary |-> SummarizeBlock(block)])

Next == AskBalanceOrZero \/ AskDenomination \/ Ask \/ AskResult \/ Fail

Spec == Init /\ [][Next]_vars

-----------------------------------------------------------------------------
(* Properties *)

Answered(kind) == pc = "answered" /\ request.kind = kind

Sum(f) == FoldSet(LAMBDA t, sum : f[t] + sum, 0, DOMAIN f)

\* A transaction has a result just when its block holds a receipt of it, and it is the one the
\* summary shows (findTransactionResult, summarizeBlock); every transaction of the block is
\* counted once, under its type (listBlockTransactions).
BlockAccounted ==
  Answered("result") =>
    LET block == result.block
        mine == {i \in DOMAIN block.receipts :
                   block.receipts[i].hash = request.hash /\ block.receipts[i].status # None}
    IN /\ (result.of = None) <=> mine = {}
       /\ result.of # None => /\ result.of \in ToSet(result.summary.results)
                              /\ result.of.success <=> result.of.status = OK
       /\ result.summary.count = Sum(result.summary.byType)
       /\ result.summary.count = (IF block.version = None THEN 0 ELSE 1)
                                   + Sum([l \in TxnsListTypes |-> Len(block.lists[l])])

\* The supply read is the supply written, and of a record that is cut only whole fields are read
\* (decodeContractSupply).
SupplyRead ==
  Answered("supply") =>
    \/ result.max = request.supply.max /\ result.current = request.supply.current
    \/ request.missing > 0 /\ result.current = <<>> /\ result.max \in {<<>>, request.supply.max}

\* A balance of zero is one the node has sent or a token the wallet does not hold, and has the
\* denomination of the token; no number that cannot be read counts as zero (getBalanceOrZero).
BalanceKnown ==
  Answered("balance") =>
    IF request.answer = None
    THEN result.balance = 0 /\ result.denomination = ParseUintString(request.denomination)
    ELSE \A f \in DOMAIN result : result[f] = ParseUintString(request.answer[f]) /\ result[f] \in Nat

\* No answer says what the node did not: of a block, a supply or a balance
\* (query/api-client.ts, query/decoders.ts).
AnswersSound == BlockAccounted /\ SupplyRead /\ BalanceKnown

=============================================================================
