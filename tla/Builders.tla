------------------------------ MODULE Builders ------------------------------
(***************************************************************************)
(* One call of one of the transaction builders beside createCoinTXN: the   *)
(* builders over shared/tx/standard.ts, those with a pipeline of their own *)
(* (items, vote, proposal and proposal cancel, contract create and update) *)
(* and those over smart-contracts/shared/base.ts; and what an application  *)
(* does with the message: sign it, change it, attach the second signature  *)
(* of a registration, send it.                                             *)
(*                                                                         *)
(* A builder is a recipe: what it demands of its input, and the steps it   *)
(* takes in order, which are requests, the nonce, the fee and checks made  *)
(* again at the end.  The clock, the nonces, the holder of the item and    *)
(* the supply change whenever a request is awaited.  What calculateFee     *)
(* does is module FeeCalculator; here it is what FeeCoversSize promises.   *)
(*                                                                         *)
(* Fields that no check and no property tells apart are left out, an       *)
(* identifier or an address that is checked for its form alone too, and    *)
(* which network is asked.                                                 *)
(***************************************************************************)
EXTENDS Integers, Sequences, FiniteSets, Functions

CONSTANTS
  None,      \* an option that is not given
  Life,      \* MAXIMUM_CONTEXT_VALIDITY_MILLISECONDS
  Skew,      \* CONTEXT_CLOCK_SKEW_MILLISECONDS
  Listed,    \* MAXIMUM_CONSTRUCTION_INSTRUMENTS
  Parts,     \* parts of a whole token
  Dollar,    \* ONE_DOLLAR, 10^18 in the code
  Powers,    \* the powers of ten, from 10, that an amount may reach
  Cases,     \* groups of calls, each with the states of the network to meet
  MaxTime,   \* bound: the clock
  MaxEvents  \* bound: what others do on the chain, and edits of the message

ASSUME BuilderConstants ==
  /\ Life \in Nat /\ Skew \in Nat /\ Listed \in Nat \ {0}
  /\ Parts \in Nat \ {0} /\ Dollar \in Nat \ {0} /\ MaxTime \in Nat /\ MaxEvents \in Nat
  /\ IsFiniteSet(Powers) /\ \A p \in Powers : p \in Nat /\ p >= 10
  /\ \A p, q \in Powers : p < q => 10 * p <= q

Kinds == {"mint", "revoke", "allowance", "compliance", "expenseRatio", "delegated", "heartbeat",
          "registration", "governance", "text", "vote", "cancel", "itemMint", "nft", "burnSbt",
          "create", "update", "deploy", "execute"}

ASSUME CasesAssumption ==
  /\ None \notin Nat /\ None \notin [body : Nat, sig : Nat]
  /\ \A group \in Cases :
       /\ \A c \in group.calls :
            /\ c.kind \in Kinds /\ c.payload \in Nat /\ c.gas \in Nat
            /\ c.kind = "text" => c.in.observedAt \in Int /\ c.in.expiresAt \in Int
            /\ c.kind = "governance" /\ c.in.governance # None => c.in.governance.stages \in Nat
       /\ \A l \in group.ledgers :
            /\ {"used", "price"} \subseteq DOMAIN l
            /\ l.used \in Nat /\ l.price \in Nat

VARIABLES
  call,    \* the kind of builder, its input and its options
  ledger,  \* what the network would answer
  start,   \* the same when the call was made
  clock,   \* Date.now()
  status,  \* where the message is
  steps,   \* the steps the builder has still to take
  asked,   \* the requests sent
  msg      \* the message

vars == <<call, ledger, start, clock, status, steps, asked, msg>>

Given(x) == x # None

\* isOffline: neither the nonce nor the fee is to be looked up.
Offline == Given(call.nonce) /\ Given(call.fee)

-----------------------------------------------------------------------------
(* Recipes *)

\* A builder with nothing to demand and nothing to ask.
Plain == [valid |-> TRUE, before |-> <<>>, checks |-> <<>>, after |-> <<>>, always |-> FALSE,
          finish |-> <<>>]

\* buildStandardTransaction demands a positive fee, and all of an interface fee
\* or nothing of it.
Standard(valid, before, finish) ==
  [Plain EXCEPT !.valid = valid /\ call.fee # 0 /\ call.interface # "partial",
                !.before = before, !.finish = finish]

\* The item builders, and those of contracts, always calculate: a fee that is
\* given is taken over there.
Always(valid, before) ==
  [Plain EXCEPT !.valid = valid, !.before = before, !.always = TRUE]

\* A bridge's token is minted by the bridge; the supply is looked up as well.
Mint(in) == Standard(in.amount > 0 /\ ~in.safeSend, <<"mintable", "supply">>, <<>>)

\* parseItemId
Revoke(in) == Standard(in.itemId = "decimal", <<>>, <<>>)

Positive(x) == x # 0

\* buildAllowanceFields: one limit, one period, a start, another wallet.
AllowanceFields(in) ==
  /\ ~in.self
  /\ ~(Given(in.amount) /\ Given(in.currency))
  /\ in.authorize => (Given(in.amount) \/ Given(in.currency)) /\ in.start
  /\ ~(Given(in.months) /\ Given(in.seconds))
  /\ \A x \in {in.amount, in.currency, in.months, in.seconds} : Positive(x)

Allowance(in) == Standard(AllowanceFields(in), <<>>, <<>>)

\* parseAssignments: no level twice for one address, and no end to a revocation.
Assignments(in) ==
  /\ in # <<>>
  /\ IsInjective([i \in DOMAIN in |-> <<in[i].to, in[i].level>>])
  /\ \A i \in DOMAIN in : in[i].expiry => in[i].assign

Compliance(in) == Standard(Assignments(in), <<>>, <<>>)

ExpenseRatio(in) == Standard(in # <<>> /\ IsInjective(in), <<>>, <<>>)

\* buildDelegatedFields
DelegatedFields(in) ==
  /\ in.votes # <<>>
  /\ IsInjective([i \in DOMAIN in.votes |-> in.votes[i].to])
  /\ \A i \in DOMAIN in.votes :
       /\ in.votes[i].to # "self"
       /\ in.votes[i].contracts # <<>> /\ IsInjective(in.votes[i].contracts)
  /\ IsInjective([i \in DOMAIN in.fees |-> in.fees[i].contract])
  /\ \A i \in DOMAIN in.fees : in.fees[i].amount > 0

Delegated(in) == Standard(DelegatedFields(in), <<>>, <<>>)

Heartbeat == Standard(TRUE, <<>>, <<>>)

\* createValidatorRegistrationTXN refuses a key beside that of the pair.
Registration(in) == Standard(~in.other, <<>>, <<"empty">>)

\* assertAdaptiveWindow
Window(in) ==
  IF Given(in.governance) /\ in.governance.adaptive
  THEN Given(in.from) /\ Given(in.to) /\ in.from <= in.to
  ELSE Given(in.governance) => ~Given(in.from) /\ ~Given(in.to)

Forbidden == {"against", "forbidden"}

\* assertGovernanceProposalShape: options count from zero.
Shape(in) ==
  /\ ~(in.options # <<>> /\ in.transactions)
  /\ Given(in.governance) /\ ~in.governance.multi => in.options = <<>>
  /\ in.options = <<>> => in.indexes = <<>>
  /\ in.options # <<>> =>
       /\ in.options[1] = "against"
       /\ IsInjective(in.options)
       /\ \A i \in DOMAIN in.options \ {1} : in.options[i] \notin Forbidden
       /\ \A i \in DOMAIN in.indexes : in.indexes[i] \in 1..Len(in.options) - 1
       /\ IsInjective(in.indexes)

Governance(in) ==
  Standard(Shape(in) /\ Window(in) /\ (Given(call.fee) \/ Given(in.governance)),
           <<"fee tokens">>,
           IF Given(in.governance) /\ ~Given(call.fee) THEN <<"stage">> ELSE <<>>)

\* validateConstructionContext at a moment.
ContextValid(in, at) ==
  /\ in.schema /\ in.contract /\ in.wallet
  /\ in.type \in {"staged", "cycle", "staggered"}
  /\ in.observedAt < in.expiresAt /\ in.expiresAt - in.observedAt <= Life
  /\ in.observedAt <= at + Skew /\ in.expiresAt >= at - Skew
  /\ Len(in.instruments) \in 1..Listed /\ IsInjective(in.instruments)

\* buildTextGovernanceProposalTXN
TextProposal(in) ==
  [Plain EXCEPT !.valid = in.text /\ ContextValid(in, clock), !.finish = <<"context">>]

\* Exactly one of support and supportOption.
Vote(in) ==
  [Plain EXCEPT !.valid = /\ in.support # Given(in.option)
                          /\ in.option # "too large"]

Cancel(in) == [Plain EXCEPT !.valid = in.proposalId]

\* The dates of an item are checked against the time of its base, and the
\* collection looked up after that.
ItemMint(in) ==
  [Always(in.weight # 0, <<>>) EXCEPT !.checks = <<"dates">>, !.after = <<"item collection">>]

Nft(in) == Always(TRUE, <<"NFT collection", "holder", "item fee">>)

BurnSbt == Always(TRUE, <<"SBT collection", "holder">>)

\* resolveContractId: with a vanity nonce the id is derived, and a given one is
\* that one.
ContractIdKnown(in) == IF in.vanity THEN in.id # "other" ELSE Given(in.id)

\* An item collection has no amounts; a token has a denomination.
ContractFields(in) ==
  IF in.type = "TOKEN" THEN in.denomination
  ELSE ~in.denomination /\ ~in.premint /\ ~in.ratio /\ ~in.fees

Create(in) ==
  [Always(~in.retired /\ ContractIdKnown(in) /\ ContractFields(in), <<>>)
     EXCEPT !.finish = <<"schedule">>]

Update(in) == Always(~in.retired /\ in.version >= 1, <<>>)

\* validateDeployOptions
Deploy(in) ==
  [Plain EXCEPT !.valid = /\ "empty" \notin {in.binary, in.source}
                          /\ Given(in.binary) \/ (Given(in.source) /\ ~in.compiled)]

\* buildSmartContractAllowances
Allowances(in) ==
  /\ IsInjective([i \in DOMAIN in |-> in[i].contract])
  /\ \A i \in DOMAIN in : in[i].amount # "text"

\* Of a smart contract's function, and of its instantiation.
Execute(in) == [Plain EXCEPT !.valid = in.named /\ Allowances(in.allowances)]

Builder ==
  CASE call.kind = "mint"         -> Mint(call.in)
    [] call.kind = "revoke"       -> Revoke(call.in)
    [] call.kind = "allowance"    -> Allowance(call.in)
    [] call.kind = "compliance"   -> Compliance(call.in)
    [] call.kind = "expenseRatio" -> ExpenseRatio(call.in)
    [] call.kind = "delegated"    -> Delegated(call.in)
    [] call.kind = "heartbeat"    -> Heartbeat
    [] call.kind = "registration" -> Registration(call.in)
    [] call.kind = "governance"   -> Governance(call.in)
    [] call.kind = "text"         -> TextProposal(call.in)
    [] call.kind = "vote"         -> Vote(call.in)
    [] call.kind = "cancel"       -> Cancel(call.in)
    [] call.kind = "itemMint"     -> ItemMint(call.in)
    [] call.kind = "nft"          -> Nft(call.in)
    [] call.kind = "burnSbt"      -> BurnSbt
    [] call.kind = "create"       -> Create(call.in)
    [] call.kind = "update"       -> Update(call.in)
    [] call.kind = "deploy"       -> Deploy(call.in)
    [] call.kind = "execute"      -> Execute(call.in)

-----------------------------------------------------------------------------
(* Steps *)

\* The body stands for every field but these: a counter of its changes.
Blank == [body |-> 0, nonce |-> 0, time |-> 0, fee |-> 0, pair |-> 0, hash |-> None,
          of |-> None]

Init ==
  /\ \E group \in Cases : call \in group.calls /\ ledger \in group.ledgers
  /\ start = ledger /\ clock = 0
  /\ status = "called" /\ steps = <<>> /\ asked = {} /\ msg = Blank

\* calculateFee is left out when nothing is to be calculated.
NeedsFee ==
  Builder.always \/ ~Given(call.fee) \/ call.interface # "none" \/ call.gas > 0

\* What a builder does after its checks; the reads are those of an online call.
Steps ==
  (IF Offline THEN <<>> ELSE Builder.before)
    \o <<"nonce">>
    \o Builder.checks
    \o (IF Offline THEN <<>> ELSE Builder.after)
    \o (IF NeedsFee THEN <<"fee">> ELSE <<>>)
    \o Builder.finish

Reads == {"mintable", "supply", "fee tokens", "NFT collection", "SBT collection",
          "item collection", "holder", "item fee"}

At(step) == status = "building" /\ steps # <<>> /\ Head(steps) = step

Advance ==
  /\ steps' = Tail(steps)
  /\ status' = IF Tail(steps) = <<>> THEN "built" ELSE "building"

Fail == status' = "failed" /\ UNCHANGED <<steps, msg>>

\* The checks on the input, before anything is asked.
Check ==
  /\ status = "called"
  /\ IF Builder.valid THEN status' = "building" /\ steps' = Steps
                      ELSE status' = "failed" /\ UNCHANGED steps
  /\ UNCHANGED <<call, ledger, start, clock, asked, msg>>

\* itemFeeParts: a missing rate, and the node's substitute 1, is one dollar.
ItemFeeParts ==
  (Parts * ledger.itemFee) \div (IF ledger.rate \in {0, 1} THEN Dollar ELSE ledger.rate)

\* assertItemFeeAuthorized
ItemFeeAuthorized ==
  ledger.itemFee > 0 =>
    call.in.feeId /\ Given(call.in.parts) /\ call.in.parts >= ItemFeeParts

\* A token is minted by its key holders, within the supply released so far.
Mintable == ledger.type = "TOKEN" /\ (ledger.bridge => call.in.bridge)
Supplied == ledger.released > 0 => ledger.circulation + call.in.amount <= ledger.released

\* What an answer must say for the builder to go on.
Accepts(read) ==
  CASE read = "mintable"        -> Mintable
    [] read = "supply"          -> Supplied
    [] read = "fee tokens"      -> call.in.native \/ ledger.authorized
    [] read = "NFT collection"  -> ledger.type = "NFT"
    [] read = "SBT collection"  -> ledger.type = "SBT"
    [] read = "item collection" -> ledger.type \in {"NFT", "SBT"}
    [] read = "holder"          -> ledger.holder = "self"
    [] read = "item fee"        -> ItemFeeAuthorized

\* The rate is asked for when the item has a fee and the call names a token.
Asks(read) == read = "item fee" => ledger.itemFee > 0 /\ call.in.feeId

\* A request fails or is answered; a mint goes on without the supply.
Read ==
  \E read \in Reads :
    /\ At(read)
    /\ asked' = IF Asks(read) THEN asked \cup {read} ELSE asked
    /\ \/ (read # "supply" => Accepts(read)) /\ Advance /\ UNCHANGED msg
       \/ (Accepts(read) => read # "supply" /\ Asks(read)) /\ Fail
    /\ UNCHANGED <<call, ledger, start, clock>>

\* Mutant: the nonce of the last transaction.
LastNonce == ledger.used

\* fetchNonce: the validator's last nonce plus one.
NextNonce == ledger.used + 1

\* signatureLength of the key that registers beside the operator's.
SignatureLength == IF call.in.ed448 THEN 114 ELSE 64

\* Mutant: the message is sized without its second signature.
NoPlaceholder == 0

\* Bytes take the place of that signature while the fee is calculated.
Placeholder == IF call.kind = "registration" THEN SignatureLength ELSE 0

\* A nonce is given, or asked for, and the base made with it: its fee may not be
\* zero, and its time is now.
TakeNonce ==
  /\ At("nonce")
  /\ asked' = IF Given(call.nonce) THEN asked ELSE asked \cup {"nonce"}
  /\ \/ /\ call.fee # 0
        /\ msg' = [Blank EXCEPT !.nonce = IF Given(call.nonce) THEN call.nonce ELSE NextNonce,
                                !.fee = IF Given(call.fee) THEN call.fee ELSE 1,
                                !.time = clock, !.pair = Placeholder]
        /\ Advance
     \/ (Given(call.nonce) => call.fee = 0) /\ Fail
  /\ UNCHANGED <<call, ledger, start, clock>>

\* An item is valid before it expires, and expires after its mint.
Dates ==
  /\ Given(call.in.from) /\ Given(call.in.expiry) => call.in.from < call.in.expiry
  /\ Given(call.in.expiry) => call.in.expiry > msg.time

CheckDates ==
  /\ At("dates")
  /\ IF Dates THEN Advance /\ UNCHANGED msg ELSE Fail
  /\ UNCHANGED <<call, ledger, start, clock, asked>>

-----------------------------------------------------------------------------
(* The fee *)

\* The length of an amount written in decimal.
Digits(n) == 1 + Cardinality({p \in Powers : p <= n})

\* A message, with its keys and hashes, is longer than any amount it names, and
\* twenty times as long as a gas fee: the five percent that are added to its
\* price are to make up for the digits of its fee.
ASSUME SizeAssumption ==
  \A group \in Cases : \A c \in group.calls :
    /\ c.payload > Cardinality(Powers)
    /\ c.payload >= 20 * Digits(c.gas)

Size(m) == call.payload + m.pair + Digits(m.fee)

Price(size) == ledger.price * size

\* calculateBaseFee: the price of the message with the digits of its own fee,
\* and five percent.
Estimated(m) ==
  LET first == Price(Size(m)) IN (Price(Size([m EXCEPT !.fee = first])) * 105) \div 100

\* A fee given in parts is taken as it is; contract update passes it on as whole
\* tokens.
Manual == IF call.kind = "update" THEN call.fee * Parts ELSE call.fee

\* calculateFee, or nothing but the fee that is given: an interface fee in
\* another token than the base fee's finds no denomination.
CalculateFee ==
  /\ At("fee")
  /\ asked' = asked \cup {"token info"} \cup IF Given(call.fee) THEN {} ELSE {"base fee"}
  /\ \/ /\ call.interface # "other"
        /\ msg' = [msg EXCEPT !.fee = call.gas + IF Given(call.fee) THEN Manual
                                                                  ELSE Estimated(msg)]
        /\ Advance
     \/ (Given(call.fee) => call.interface = "other") /\ Fail
  /\ UNCHANGED <<call, ledger, start, clock>>

\* proposalAdditionalStageDivisor
Divisor == IF call.in.governance.stages > 0 THEN call.in.governance.stages + 1 ELSE 2

\* applyProposalStageFee
StageFee(fee) ==
  IF call.in.governance.pre THEN fee + (fee + Divisor - 1) \div Divisor ELSE fee

ApplyStageFee ==
  /\ At("stage")
  /\ msg' = [msg EXCEPT !.fee = StageFee(@)]
  /\ Advance
  /\ UNCHANGED <<call, ledger, start, clock, asked>>

-----------------------------------------------------------------------------
(* The end of a call *)

\* Mutant: what was checked at first is not checked again.
ContextOnce == TRUE

\* The reviewed context must still be valid when everything was answered.
ContextStillValid == ContextValid(call.in, clock)

CheckContext ==
  /\ At("context")
  /\ IF ContextStillValid THEN Advance /\ UNCHANGED msg ELSE Fail
  /\ UNCHANGED <<call, ledger, start, clock, asked>>

\* The bytes that held the place of the second signature are taken out.
EmptySignature ==
  /\ At("empty")
  /\ msg' = [msg EXCEPT !.pair = 0]
  /\ Advance
  /\ UNCHANGED <<call, ledger, start, clock, asked>>

\* A contract's fee of 1 is what stands when no schedule was loaded.
CheckSchedule ==
  /\ At("schedule")
  /\ IF msg.fee # 1 THEN Advance /\ UNCHANGED msg ELSE Fail
  /\ UNCHANGED <<call, ledger, start, clock, asked>>

-----------------------------------------------------------------------------
(* The message in the hands of the application *)

Held == status \in {"built", "signed"}

\* Mutant: signing leaves the second signature in place.
KeepPair(m) == m

\* prepareBaseForSigning: what an earlier signing left behind is removed.
Cleared(m) ==
  IF call.kind = "registration" THEN [m EXCEPT !.pair = 0, !.of = None] ELSE m

\* A hash is of the body and of base.signature, which is over the body that was signed.
HashOf(body, sig) == [body |-> body, sig |-> sig]

\* base.signature: only signing changes it, and hashes the message with it.
Signature == IF Given(msg.hash) THEN msg.hash.sig ELSE None

Sign ==
  /\ Held
  /\ msg' = [Cleared(msg) EXCEPT !.hash = HashOf(msg.body, msg.body)]
  /\ status' = "signed"
  /\ UNCHANGED <<call, ledger, start, clock, steps, asked>>

\* The application changes a field, of the same length.
Edit ==
  /\ Held /\ msg.body < MaxEvents
  /\ msg' = [msg EXCEPT !.body = @ + 1]
  /\ UNCHANGED <<call, ledger, start, clock, status, steps, asked>>

\* finalizeTransactionHash: the hash of the message as it stands; a second signature that is
\* there is left out of the hash and stays.
Finalize ==
  /\ Held
  /\ msg' = [msg EXCEPT !.hash = HashOf(msg.body, Signature)]
  /\ UNCHANGED <<call, ledger, start, clock, status, steps, asked>>

\* attachGeneratedSignature signs the hash, if it is that of the message.
Attach ==
  /\ status = "signed" /\ call.kind = "registration"
  /\ msg.hash = HashOf(msg.body, Signature)
  /\ msg' = [msg EXCEPT !.pair = SignatureLength, !.of = msg.hash]
  /\ UNCHANGED <<call, ledger, start, clock, status, steps, asked>>

\* A message goes out once it is signed, a registration with both signatures, whatever they
\* are over.
Send ==
  /\ status = "signed"
  /\ call.kind = "registration" => msg.pair > 0
  /\ status' = "sent"
  /\ UNCHANGED <<call, ledger, start, clock, steps, asked, msg>>

-----------------------------------------------------------------------------
(* What happens while an answer is awaited *)

Awaiting ==
  /\ status = "building" /\ steps # <<>>
  /\ \/ Head(steps) \in Reads \cup {"fee"}
     \/ Head(steps) = "nonce" /\ ~Given(call.nonce)

Tick ==
  /\ Awaiting /\ clock < MaxTime
  /\ clock' = clock + 1
  /\ UNCHANGED <<call, ledger, start, status, steps, asked, msg>>

\* The chain includes another transaction of the wallet.
Include ==
  /\ Awaiting /\ ledger.used - start.used < MaxEvents
  /\ ledger' = [ledger EXCEPT !.used = @ + 1]
  /\ UNCHANGED <<call, start, clock, status, steps, asked, msg>>

Next ==
  \/ Check \/ Read \/ TakeNonce \/ CheckDates \/ CalculateFee \/ ApplyStageFee
  \/ CheckContext \/ EmptySignature \/ CheckSchedule
  \/ Sign \/ Edit \/ Finalize \/ Attach \/ Send
  \/ Tick \/ Include

Spec == Init /\ [][Next]_vars

-----------------------------------------------------------------------------
(* Properties *)

Built == status \in {"built", "signed", "sent"}

\* What a message costs the sender: a proposal is paid for every stage.
Cost(m) == IF call.kind = "governance" THEN StageFee(Price(Size(m))) ELSE Price(Size(m))

\* An automatic fee covers the message that is sent, with the second signature of a
\* registration, which is not in it when the fee is calculated, and with the stages of a
\* proposal, which are added when its size is known (validator-ops/transaction.ts:343,
\* proposal/governance.ts:141).
FeeCoversFinal ==
  status = "sent" /\ ~Given(call.fee) => msg.fee >= call.gas + Cost(msg)

\* A text proposal comes back with its context still valid, however long the answers took:
\* observed no longer ago than a context may live (proposal/transaction.ts:239).
ContextFresh ==
  call.kind = "text" /\ Built =>
    /\ clock <= call.in.expiresAt + Skew
    /\ clock - call.in.observedAt <= Life + Skew

\* With a nonce and a fee given a builder asks nothing about its subject, and nothing at all
\* but what an interface fee, or a fee that is always calculated, needs to know of the
\* token (mint/transaction.ts:112, items/transaction.ts:155).
OfflineSilent ==
  Given(call.nonce) /\ Given(call.fee) =>
    asked \subseteq IF Builder.always \/ call.interface # "none" \/ call.gas > 0
                    THEN {"token info"} ELSE {}

\* The nonce of a message is the one given, or one the wallet came to during the call.
NonceOfCall ==
  Built => IF Given(call.nonce) THEN msg.nonce = call.nonce
           ELSE msg.nonce \in start.used + 1 .. ledger.used + 1

\* A builder looks up what it was not given, during the call, and nothing else
\* (shared/tx/base.ts:79).
LookupsOfCall == OfflineSilent /\ NonceOfCall

\* The second signature of a registration goes with the operator's: it was collected over a hash
\* that covers the operator's signature the message has, never an earlier one, and when what is
\* hashed is what the operator signed it is over that hash, whatever was changed, signed and
\* hashed again in between (sign/finalize.ts:71, validator-ops/transaction.ts:403).
RegistrationPaired ==
  call.kind = "registration" =>
    /\ Given(msg.of) =>
         /\ msg.of.sig = msg.hash.sig
         /\ msg.hash.body = msg.hash.sig => msg.of = msg.hash
    /\ status = "sent" => Given(msg.of)

\* After an edit and a new hash the second signature must be collected again
\* (sign/README.md:44): what goes out has it over the hash that goes out.  The code only asks
\* for one to be there.
CosignsSentHash ==
  call.kind = "registration" /\ status = "sent" => msg.of = msg.hash

\* A fee given in parts is the fee of the message.
ExactFeeParts ==
  Built /\ Given(call.fee) /\ call.gas = 0 => msg.fee = call.fee
=============================================================================
