------------------------------- MODULE Inputs -------------------------------
(***************************************************************************)
(* What an application hands in besides amounts: identifiers, addresses,   *)
(* keys and phrases, which shared/utils/validation.ts checks alone or      *)
(* several at once and other modules check again in their own way; and the *)
(* tokens it asks for, whose ids shared/utils/token-info.ts spells in one  *)
(* way before it asks the node and when it looks for the answer.           *)
(*                                                                         *)
(* A text is given by what the checks look at.                             *)
(***************************************************************************)
EXTENDS Integers, Sequences, SequencesExt, FiniteSetsExt

CONSTANTS
  None,     \* no answer
  MaxBytes, \* KALVORA_MINT_ID_MAX_BYTES
  Batches,  \* validations handed to validateMultiple
  Lookups   \* tokens asked for, with the ids the node may answer with

VARIABLES
  task,     \* a batch or a lookup
  pc,       \* "running", "done" or "thrown"
  next,     \* the validation to run
  results,  \* values of those that passed
  errors,   \* indexes of those that did not
  found     \* the map of getTokenInfo, with the answer of getTokenInfoForSingle

vars == <<task, pc, next, results, errors, found>>

-----------------------------------------------------------------------------
(* Validators *)

IsText(v) == v.form = "text"

\* isKalvoraMintId: a contract id with its checksum, or $chain-SYMBOL.
IsKalvoraMintId(v) ==
  IsText(v) /\ v.trimmed /\ v.length \in 1..MaxBytes /\ v.id \in {"canonical", "bridged"}

ValidateContractId(v) == IsText(v) /\ v.length > 0 /\ IsKalvoraMintId(v)

IsValidContractId(v) == IsKalvoraMintId(v)

AddressLength == 20..50

ValidateBase58Address(v) == IsText(v) /\ v.base58 /\ v.length \in AddressLength

\* The burn address is shorter.
IsValidAddress(v) == IsText(v) /\ v.base58 /\ (v.length \in AddressLength \/ v.id = "burn address")

ValidateBase58Key(v) == IsText(v) /\ v.base58 /\ v.length > 0

\* Letters of any case.
ValidateKeyType(v) == IsText(v) /\ v.id \in {"ed25519", "ed448"}

\* As this file spells them, which is not as the wallets do.
ValidateHashTypes(v) ==
  /\ v.form = "list" /\ v.items # <<>>
  /\ \A i \in DOMAIN v.items : v.items[i] \in {"sha3_256", "sha3_512", "blake3"}

ValidateMnemonic(v) == IsText(v) /\ v.words \in {12, 15, 18, 21, 24}

-----------------------------------------------------------------------------
(* Checks of other modules *)

\* standard.ts
RequireContractId(v) == IsText(v) /\ IsValidContractId(v)

\* items/transaction.ts, with an item's id beside it.
ValidateItemIdentifiers(v) == IsText(v) /\ v.length > 0 /\ IsValidContractId(v)

\* proposal/transaction.ts
ProposalContractId(v) == IsText(v) /\ v.trimmed /\ IsKalvoraMintId(v)

\* Lengths of symbol and name, of the characters each may have.
ValidateCreateContractOptions(c) ==
  /\ IsValidContractId(c.id)
  /\ c.symbol \in 3..20 /\ c.name \in 3..200 /\ c.version >= 0 /\ c.type # None

ValidateUpdateContractOptions(c) == IsValidContractId(c.id) /\ c.version >= 1

\* Fields the network has retired.
ValidateCurrentContractFields(c) == ~c.quash /\ ~c.timeDelay /\ c.governance # "remove"

ValidatePremintWallets(c) == c.premint => c.type = "TOKEN"

\* The key of the public one alone is looked at.
ValidateKeyPair(c) == c.publicKey = "valid" /\ c.privateKey # ""

\* A validation of a batch; those of a contract throw.
Valid(check) ==
  CASE check.what = "contract id" -> ValidateContractId(check.value)
    [] check.what = "address"     -> ValidateBase58Address(check.value)
    [] check.what = "key"         -> ValidateBase58Key(check.value)
    [] check.what = "key type"    -> ValidateKeyType(check.value)
    [] check.what = "hash types"  -> ValidateHashTypes(check.value)
    [] check.what = "mnemonic"    -> ValidateMnemonic(check.value)
    [] check.what = "create"      -> /\ ValidateCurrentContractFields(check.value)
                                     /\ ValidateCreateContractOptions(check.value)
                                     /\ ValidateKeyPair(check.value)
                                     /\ ValidatePremintWallets(check.value)
    [] check.what = "update"      -> /\ ValidateCurrentContractFields(check.value)
                                     /\ ValidateUpdateContractOptions(check.value)

-----------------------------------------------------------------------------
(* Tokens *)

\* An id is <<kind, chain, symbol, suffix>>.
Lower == [c \in {"sol", "SOL", ""} |-> IF c = "SOL" THEN "sol" ELSE c]
Upper == [c \in {"usdc", "USDC", ""} |-> IF c = "usdc" THEN "USDC" ELSE c]

\* $chain-SYMBOL+n and $SYMBOL+n are spelled in one way; the suffix must be there.
NormalizeContractId(id) ==
  IF id.suffix /\ id.kind = "bridged"
  THEN [id EXCEPT !.chain = Lower[@], !.symbol = Upper[@]]
  ELSE IF id.suffix /\ id.kind = "native" THEN [id EXCEPT !.symbol = Upper[@]]
  ELSE id

\* getTokenInfo: each token under its own id, and under the id as it is spelled here; what comes
\* later replaces what came before.
TokenInfoMap(answer) ==
  LET Put(map, id) == [k \in DOMAIN map \cup {id[1]} |-> IF k = id[1] THEN id[2] ELSE map[k]]
      Step(map, id) == Put(Put(map, <<id, id>>), <<NormalizeContractId(id), id>>)
  IN FoldLeft(Step, [k \in {} |-> None], answer)

\* getTokenInfoForSingle: the first that is spelled alike.
Single(id, answer) ==
  LET like == {i \in DOMAIN answer : NormalizeContractId(answer[i]) = NormalizeContractId(id)}
  IN IF like = {} THEN None ELSE answer[Min(like)]

-----------------------------------------------------------------------------

Init ==
  /\ task \in Batches \cup Lookups
  /\ pc = "running" /\ next = 1 /\ results = <<>> /\ errors = {}
  /\ found = [map |-> [k \in {} |-> None], single |-> None]

Validates == pc = "running" /\ task.kind = "batch"

\* An error that a validator throws counts as one that it returns.
Validate ==
  /\ Validates /\ next <= Len(task.checks)
  /\ next' = next + 1
  /\ IF Valid(task.checks[next])
     THEN results' = Append(results, task.checks[next].value) /\ UNCHANGED errors
     ELSE errors' = errors \cup {next} /\ UNCHANGED results
  /\ UNCHANGED <<task, pc, found>>

Finish ==
  /\ Validates /\ next > Len(task.checks)
  /\ pc' = IF errors # {} /\ task.throws THEN "thrown" ELSE "done"
  /\ UNCHANGED <<task, next, results, errors, found>>

\* The node answers with some of the tokens, in any order and spelling, or fails.
GetTokenInfo ==
  /\ pc = "running" /\ task.kind = "lookup"
  /\ \/ pc' = "thrown" /\ UNCHANGED found
     \/ \E answer \in task.answers :
          /\ pc' = "done"
          /\ found' = [map |-> TokenInfoMap(answer), single |-> Single(task.ids[1], answer),
                       answer |-> answer]
  /\ UNCHANGED <<task, next, results, errors>>

Next == Validate \/ Finish \/ GetTokenInfo

Spec == Init /\ [][Next]_vars

-----------------------------------------------------------------------------
(* Properties *)

\* The validators of the library agree on every value: a contract id is one for all of them
\* (validation.ts, standard.ts, items, proposal), an address for both but for the genesis
\* wallet's; and validateMultiple passes just what passes one by one, in that order.
ValidatorsAgree ==
  task.kind = "batch" =>
    /\ \A i \in DOMAIN task.checks :
         LET v == task.checks[i].value IN
         IsText(v) =>
           /\ \A C \in {RequireContractId(v), ValidateItemIdentifiers(v), ProposalContractId(v),
                        IsValidContractId(v)} : C = ValidateContractId(v)
           /\ v.id # "burn address" => (IsValidAddress(v) <=> ValidateBase58Address(v))
           /\ IsValidAddress(v) => ValidateBase58Key(v)
    /\ pc \in {"done", "thrown"} =>
         /\ (errors = {}) <=> \A i \in DOMAIN task.checks : Valid(task.checks[i])
         /\ errors = {} => results = [i \in DOMAIN task.checks |-> task.checks[i].value]
         /\ pc = "thrown" => task.throws

\* A token the node answers with is found under the id it is asked for, however either is
\* spelled, and no other token is (getTokenInfo, getTokenInfoForSingle).
TokensFound ==
  task.kind = "lookup" /\ pc = "done" =>
    LET Like(a, b) == NormalizeContractId(a) = NormalizeContractId(b) IN
    /\ \A i \in DOMAIN task.ids :
         LET id == NormalizeContractId(task.ids[i]) IN
         /\ NormalizeContractId(id) = id
         /\ (id \in DOMAIN found.map) <=> \E a \in ToSet(found.answer) : Like(a, id)
         /\ id \in DOMAIN found.map => Like(found.map[id], id)
    /\ (found.single # None) <=> NormalizeContractId(task.ids[1]) \in DOMAIN found.map

\* One thing is judged in one way wherever it is judged: by the validators, and by the table of
\* tokens (shared/utils/validation.ts, shared/utils/token-info.ts).
InputsSound == ValidatorsAgree /\ TokensFound

=============================================================================
