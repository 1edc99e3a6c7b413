# kalvora.js in TLA+

TLA+ models of the kalvora.js SDK (`src/`), the TLC configurations that check
them on small instances, and theorems that TLAPS proves for every instance. File
names below are relative to `src/src/` unless they begin with `docs/` or `publishing/`.

The SDK is a TypeScript library that runs in one JavaScript thread (several browser
tabs for the adapter). Its concurrency is that of promises: code between two
awaits is atomic, and everything else (other calls on the same object, events, timers, the
chain, the wallet, other tabs) happens in between.

## 1. The system

| Part | State it keeps | Operations | Hard behaviour |
|---|---|---|---|
| Wallet adapter (`adapter/wallet-adapter.ts`, `wallet-signer.ts`) | connection fields, shared `localStorage` record, per-tab `sessionStorage` records of pending requests, `BroadcastChannel` | connect, connectManual, disconnect, sign, callbacks at page load, provider events | replayed, forwarded and late callbacks; several tabs; overlapping calls; reload |
| Client (`client/kalvora-client.ts`) over queries (`query/api-client.ts`) | the height hint | submitAndWait, getLatestBlockHeight, waitForTransaction | the chain grows between probes; lost answers; deadline |
| Guardian fetch (`smart-contracts/use-cases/bridge/guardian/vaa.ts`) | locals of a retry loop | fetchSolanaVAA, fetchKalvoraVAA | retries, backoff and elapsed time; repeated signatures |
| Rates (`api/handler/token-info`, `api/handler/fee-info`) | two caches behind each other | getTokenFeeInfo, getExchangeRate, processRate, clearCache | stale and reordered answers, ages that add up |
| Signing (`sign/finalize.ts`, `sign/context.ts`) | the transaction object of the application, the chain pin | signAndFinalize, coin signing, addFeePayer, sponsor, multisig collection, finalize, co-signing | overlapping calls mutate one object around awaits; partial failure; signing again |
| CoinTXN builder (`coin-txn/transaction.ts`) | locals of one build | createCoinTXN | parallel arrays of keys, grants, nonces, transfers; nonces read while the chain advances |
| Wallet creation (`wallet-creation/`) | the options object of the application, node key material | createWallet, deriveMultipleWallets, secureClear | shared array and seed across overlapping calls |
| Fee calculator (`shared/fee-calculators`) | locals | contract, interface and network fee from size, keys, rates and balances | the fee is part of the message it is charged for; tolerated failures |
| Builders (`shared/tx`, `mint`, `allowance`, `items`, `proposal`, `contract`, `smart-contracts`, ...) | one message | look-ups, checks, fee, signature, submission | time passes and the wallet is used while answers are awaited; a second signature; a context that expires |
| Bridge (`guardian/vaa.ts`, `bridge/solana`, `bridge/kalvora`) | external accounts | lock or burn, fetch, verify, then release or mint | two transactions; a crash or no confirmation between them; others submit the same VAA |
| Transport (`grpc/`) | client per call | request, fallback from HTTPS to HTTP, streams without platform support | the same request is sent twice; the end of a stream overtakes its chunks |
| Amounts, fields and validators (`shared/utils`, `shared/tx/standard.ts`, `protocol/contract-id.ts`) | none | conversion, validation, display | widths, safe integers, rounding, several validators of one thing |
| Answers (`query/decoders.ts`, `query/api-client.ts`) | the fee-token cache | decoding of blocks, balances, supplies | partial records, transactions named several times |
| Exchange with wallets and programs (`adapter/serialization.ts`, `shared/crypto/address-utils.ts`, `shared/utils/byte-utils.ts`, `bridge/solana/utils.ts`) | listeners | identifiers to bytes and back, envelopes, payloads, events | bytes that read like a prefix; fields side by side; listeners that leave during an event |
| Monitoring (`shared/monitoring`, `shared/utils/performance-benchmark.ts`) | checks, series | health checks, metrics, benchmarks, redaction | checks change while they run; cyclic values |
| Release tooling (`publishing`, `scripts/build.ts`, `proto/build.ts`) | version files of a working copy, the registry | deploy, unpublish, deprecate, delete, build | several working copies, failing writes, lost answers, kills |

How they interact: a builder reads nonces and fees (queries, rate caches), assembles
a message, signing fills its slots and hashes it, the client submits it and waits
for the block that carries its status; the adapter supplies the signer that signing
awaits; the bridge fetch supplies the payload of an execute message. What makes each
correct is listed per model in section 3 and per line under `hazards` in
`PROJECT.json`; `components` there lists every part, with the reason for what is not
modelled.

## 2. How the project is built

`WalletAdapter`, `SubmitAndWait`, `Singletons`, `Signing`, `Wallets`, `Bridge` and `Release`
stand for one component each, with a `...Proofs` module. Some of them, and the others, are composed or joined:

- `Bridge` extends `VaaFetch`: the guardian fetch is a phase of the transfer it belongs to.
- `FeeTokenCache` extends `RateCaches`: a process has the handlers' caches or a query client's. `Singletons`
  is these and `Monitoring`, what a process keeps once for all its callers; one is used at a time, and the
  whole refines both (`Refinement`).
- `SubmitAndWait` implements `SubmitOnce`, what a submission promises, by a refinement
  mapping (`Promise`); the run checks it and the proofs prove it.
- `Transactions` is what is done for one transaction: built by `Builders` or by `CoinBuild`, its fee
  calculated (`FeeCalculator`), an answer's body read (`Streams`). One of the four moves, the others
  stay where they may start; so it refines each of them (`Refinement`), and what is proved of a part
  holds of the whole. `MCBuilders` instantiates it.
- `Wallets` is the wallets the library derives (`WalletDerivation`) and what an application exchanges with
  one it is connected to (`Exchange`); a behaviour is of one of them, and the other is idle.
- `MCShared` joins parts that do not interact: `Signing`, `Wallets`, and `Amounts`, `Fields`, `Inputs`,
  `Query` and `Encodings`. A behaviour is one of one of them, and the last five share variables, so that the
  sequential parts of the library, each with a few thousand inputs, need one run. `Signing` calls its formulas
  `SigningInit`, `SigningNext` and `SigningSpec` for that. Assumptions of a part that is instantiated are a definition (`AmountConstants`,
  `FeeConstants`, ...) that `MCShared`, `Transactions`, `Singletons` or `Wallets` assumes.
- `Release` stands alone.

A property of a run is often a conjunction of named parts that belong to one question
(`EmbeddedSound`, `AwaitedSound`, `CoinSound`, `ReleasesSound`, `RegistryAgrees`, `ChargesSound`,
`EntriesSound`, `ExchangeSound`, ...); each part has its comment in its module. A definition called *Mutant* is a
plausible bug, named in `PROJECT.json`; no specification uses it.

What is left to do, in order:

1. The frame parser of the transport and the endpoint in the key of the rate caches.
2. The WalletConnect session, if its handler comes to hold state.

## 3. Modules, runs and bounds

Conventions. A step of a model is the code between two awaits. History variables
(`claims`, `startTip`, `awaited`, `last`, `atCall`, ...) are marked as such where they are
declared. Symmetry sets are used in runs without liveness only,
over model values that no definition orders.

### WalletAdapter (`MCWalletAdapter`)

State: one record per tab with the fields of the adapter object; the page's provider and
listeners; calls in flight; the shared `store`; the two session records; the inbox of each
tab; and `issued`, the requests handed to the wallet. One action per public method and per
callback or event: `ConnectViaProvider`/`AccountsResolved`/`AccountsRejected` are the two sides
of the await of requestAccounts, `OwnConnectCallback`/`ForwardConnectCallback` (and the `Sign`
pair) the constructor's redirect handling in the tab that waits and in another one,
`ReceiveConnect`/`ReceiveSign` the broadcast handler. The wallet is external and may answer any
request it was handed, well or badly, any number of times.

Run `wallet_deep_link`: two tabs, two requests, callbacks opened, replayed, forwarded,
expired and overwritten in every order; answers are used once (`SingleUse`), by the tab that
asked and in time (`ClaimedByOwner`), and a signature is handed out under the request it
signs (`SignatureOfRequest`). Run `wallet_embedded`: one tab with a provider and autoConnect,
overlapping connect and disconnect calls, provider events and reloads; the connection fields
stay in step and agree with what a reload restores (`EmbeddedSound`).

Bounds. Two requests are the least in which one overwrites or is mistaken for another; two
tabs the least with forwarding; one key with deep links because answers are told apart by
request, two with a provider. The time to live is 0 and the clock has one tick, so that an
answer is either in time or late, and a clock set back makes it too young: the skew is 0 (the proof has any; with a provider it is 1). `MaxCalls` 2 overlaps two
calls, `MaxInbox` 2 keeps an old message behind a new one. Signing a message is the same as signing
a transaction here; events to listeners of the application and encodings are in
`Exchange`, duplicated tabs are left out; they copy `sessionStorage`. With several tabs nothing keeps an
adapter in step with the shared record, so its second part is for one tab.

### SubmitAndWait and SubmitOnce (`MCSubmitAndWait`)

State: the chain (tip, mempool, where each transaction is, whether it has a receipt), the
shared `hint`, the transport's configuration, and per call the locals of the search and of the
wait. An action is one RPC or one timer. A submission may reach the node and fail all the same; with
`fallbackToHttp` and a local host the client then sends it again (`resubmit`), perhaps after
its inclusion: the node keeps one. `NewBlock` includes any of the pending transactions with or
without a status, or none. `SubmitOnce` has two variables, the status of a transaction and the reply of
its call; `Promise` reads them off the chain and the program counter.

Run `submit_and_wait`: one caller, called again and again, nine blocks. The search returns a
block no older than the tip at its start, and the hint names one that exists
(`LatestIsCurrent`); neither the wait nor the second request passes the block with the result
(`WindowHoldsBlock`), a call resolves with that block only (`ResolvedIsIncluded`), every call settles
(`EveryCallSettles`), and the whole is a `SubmitOnce` (`KeepsPromise`). Nine blocks give the
exponential search three doublings and the bisection two levels while the chain may grow at any of
them; a timeout of two polls lets the deadline pass before, between and after them. Calls that
overlap on one client multiply the states beyond use; the safety properties and the refinement are
proved for any set of callers instead (section 4).

Fairness: weak fairness of `Tick` and of the steps of a call, since timers fire and RPCs
return or fail (a call that hangs for ever in the transport is outside of the code).
`NewBlock`, `Fail`, `Start` and `Again` have none. `MaxHeight` stops the chain: with an endless
supply of blocks the wait may scan past its deadline for as long as they last, which
`EveryCallSettles` therefore does not exclude.

### Bridge and VaaFetch (`MCBridge`)

`VaaFetch` is `fetchWithRetry` with its clock: `AttemptFails` covers RPC errors, wrong payloads and
failed sanity checks, `Succeed` any accepted payload, `Wake` a timer that may be late. `Bridge`
goes on: the transaction that locks or burns, the fetch, the two transactions a builder returns (`built`:
which program, mint, token account, vault and body each names, per kind of token), and
`submitVAAToSolana` with and without confirmations and preflight, or the one execute call of
`submitVAAToKalvora`. The process may end at any point (`Crashes`) and the caller calls again.
External: the chains execute or drop what is in `pool`, the bridge's program refuses what does not
agree with the verification, somebody else may submit the same VAA, and verifying a second time may succeed
or fail (both are allowed).

Run `bridge`: nineteen transfers (ten to Solana, nine to Kalvora), payloads of up to three entries over two signatures and
keys, attempts of no time or one millisecond, timers late by up to one, a maximum of 4 and a first delay of 1 (several
retries with a doubled and with a cut delay), one crash.

The loop ends by refusing a delay that is more than what is left of the maximum, and cuts the delay to what is left. So
a fetch whose attempts fail at once (`createClient` throws, `vaa.ts:249`) comes to a delay of zero and less that is
never refused, which setTimeout runs as one millisecond, and goes on as long as its attempts fail so:
`vaa_budget` shows it (section 6). The history variable `spins` marks such a call. What the other properties say is
that nothing else goes wrong: no attempt begins after the maximum and one lateness
(`AttemptsInBudget`), and every call ends (`CallEnds`), but for those. A result holds every signature once, paired and in
order (`ResultSound`); a call that waited and returned released what was attested (`ResolvedReleased`); with
confirmations a release follows its verification, and none is refused for what it says (`ReleasesSound`).

Weak fairness of the client's own steps: requests answer or fail and timers fire. The chain has no fairness: a
confirmation that does not come ends as a failure. `Horizon`, beyond the maximum and every lateness, cuts off the
endless fetch, which has nothing new to show by then, and the mutants. A lock of SOL goes into the wrapped
SOL account of the router's signer (`lock.ts:326`), a release of SOL is paid from a vault of lamports (`release.ts:576`); what
moves it from one to the other is the program's, outside of this code, so the model demands a filled vault of
releases of tokens only. A Kalvora call is done when it is accepted, not when it is executed.

### Singletons: RateCaches, FeeTokenCache and Monitoring (`MCSingletons`)

`RateCaches` and `FeeTokenCache`: one entry per cache, each call's place and rate; a rate is the network and
the moment it was read at. The list of fee tokens is one more entry, of a query client, stamped with the time its
request began. Run `singletons`: two calls, two networks, times to live 1 and 2, latency 1,
clock up to 4, enough for a rate to live through both caches and expire. `TokenAge`,
`RateAge` and `FeeTokensAge` bound how old a rate or a list is when it is used, whatever overtakes what.
`Tick` does not pass while a rate is between two caches within one task. Ages are bounded by the
*sum* of both times to live and a request: each cache stamps a rate with the time it stores it.
The endpoint and the network are not part of the key of the token cache, and not of this model: a
rate of one network answers a question to another (`api/handler/token-info/service.ts:212`).

`Monitoring`: the Map of health checks as a list of entries, gone or not, with the place the iteration has come
to (an entry that is removed and added again lies ahead once more); the points of a series beside all
that was observed; a benchmark's times and the statistics made of them one by one; and the walk of `redactValue`
through a logged value, a graph of nodes, as a stack of the nodes it is in (`RedactEntry`, `LeaveNode`), which is
what its recursion keeps. The same run has two checks that are added and removed while they run, series and benchmarks
past their bounds (two points, a timeout of 4), and two cyclic values with keys that are secret in one place and
not in another, against a depth of 2, three nodes and three entries. What is reported is so
(`MonitoringSound`: `ReportSound`, `SeriesTrue`, `SecretsKept`), and a run of all checks and a redaction end
(`RunEnds`). Fairness: weak fairness of the checks, each raced by a timer, and of the logger, which does not
wait; a benchmark may wait for its function for ever. `MaxChanges` bounds the adding, without which the
iteration need not end.

### Signing (in run `shared`)

State: the shared object (body, signature sets per slot, fee payer, approvals, co-signature,
hash), the chain and its pin, the calls in flight. Calls of an external signer are two actions
(`SignStart`/`SignSettles`, coin, sponsor and collect alike), those with a key in hand are one.
Slot 0 is `base.signature` and the slots above are the authorizations of a coin
transaction; a multisig package collapses to one signature per slot. `awaited` says
whether this application awaits each call, as the guides do, or lets them overlap.

Two bodies, two tasks, two slots. Nothing is signed over bytes with older signing
material (`SignaturesClean`); a finished transaction of an application that awaits has
the slots up to its last signer signed over its body, and its canonical hash, and no approval of an older
body survives a new signature (`AwaitedSound`); a failed call leaves no hash behind
(`FailureLeavesNoHash`). Two bodies tell an edit from none, two slots let one fail after the other is signed, two tasks
overlap, and with two chains the pin moves between the building of a transaction and its
signing. The application collects multisig signatures before it
attaches a fee payer, as the guides do.

### Transactions: Builders, CoinBuild, FeeCalculator and Streams (`MCBuilders`)

`Builders` is one call of any builder but createCoinTXN: a *recipe* per kind says what it demands of its input and
the steps it takes in order (look-ups, the nonce, the fee, checks made again at the end). The
clock, the nonce, the holder of an item and the supply may change whenever an answer is awaited. Then
the application may sign the message, edit it, hash it anew (finalizeTransactionHash), sign it again, attach the second
signature of a registration, and send it, in any order. `FeeCalculator` is represented by an estimate of
the same form (`Estimated`); the length of an amount is a constant set of powers of ten (`Powers`; three of them
in the runs, so that a fee may gain a digit).

Run `builders`: every kind with every input of its menu and the default options, and every
combination of options for one good input; the clock up to 4 against a context of 3 and a skew
of 1, so that a context expires before, during and after the look-ups; two events. An automatic fee covers what
is sent with the second signature and the stages that come later (`FeeCoversFinal`); a text
proposal comes back with its context still valid (`ContextFresh`); a builder asks for what it was not
given, during the call, and for nothing else (`LookupsOfCall`); the second signature of a registration never goes with
another operator signature than it was collected for, and is over the hash that goes out whenever that is of what the
operator signed (`RegistrationPaired`). That it is over the hash that goes out in any case
(`CosignsSentHash`) does not hold: `registration_pair` edits and hashes a message that has it. The same run has createCoinTXN (`CoinBuild`): every list of up to three inputs
from a menu of own keys, grants and both, with and without amounts, nonces and fee
shares, while the chain uses a nonce of each wallet at any moment: what is signed moves what the
outputs receive, and every key and grant is that of its own input (`CoinSound`). So is every nonce, when all inputs
give one; otherwise a nonce that its input does not give is one that its wallet came to during the call. A nonce that
is given beside others that are not is replaced in the code, against its documents, and left out (section 6). Three inputs are
the authorizer and two grants; stated for the order the guides give (authorizer first,
`allowance/README.md:41`, `coin-txn/README.md:152`), other orders are accepted and build misaligned
slots.

`FeeCalculator` by itself, in the same run, is one `calculateFee` with its requests: messages of all lengths around
a change of digits, keys of both types, any rates and prices from small sets, margins of 0, 1, 2 and 5 percent, failed
look-ups. A message is charged for the length it ends up with (`FeeCoversSize`). The code corrects the length
of the fee once, so a second new digit has to be paid from the margin: two percent always do, and below that the
property allows a shortfall of one byte, which TLC does find. No new balance and no percentage is left out
(`ChargesSound`). `Streams` has bodies of three chunks from every kind of source (bytes and nothing at all are one chunk, the
latter empty; an object without start and pull is none), read, closed and
cancelled in any order; chunks come in order, each once, and the end after the last
(`NothingLost`).

`contract_update` and `registration_pair` show findings (section 6). A build, a calculation and a body end, so these runs do not check
for deadlock.

### Wallets: WalletDerivation and Exchange (`MCWallets`, in run `shared`)

State: the hash type array and the seed of the one options object an application uses, the
continuations of calls after their await, and the wallets returned. A key is the seed and
account it derives from; a hash is the list of functions applied. Identifiers are sequences of
letters because the property is about reading them back; only the first letters of a key matter.
Run `shared` has four calls, two accounts, no hashes, one, two in either order and one
twice. A wallet has the key of the seed that was there at its call though others are cleared
meanwhile (`KeysOfSeed`); createWallet and deriveMultipleWallets agree, and the identifier leads
back to the address for sorted lists and keys that do not begin like a hash type
(`AddressesAgree`). The second account's key does begin like one. `wallet_same_address` shows
a finding.

`Exchange`: a case is an identifier that becomes bytes and is read back, a connection and the signature
after it, a message in an envelope, or an event and its listeners; a behaviour is one case. An identifier is a
prefix up to its last underscore and a key, whose bytes (`raw`) and base58 letters (`text`) are given apart.
The same run has prefixes of every key type with no, one and two hash types, restricted or not, and keys of up to
three bytes that may look like a prefix; answers of every form, right and wrong; messages of registered,
unregistered and renamed types; and up to three subscriptions whose listeners subscribe, leave or come back while the event
is emitted (`ExchangeSound`; `MaxHeard` bounds listeners that subscribe themselves for ever).

### Release (`MCRelease`)

State: per working copy its branch and the version in each of the three files; per deployment where it is
and what it remembers; the registry; one maintainer's tool. Any write and any command may fail, a
process may be killed between two steps, an answer of the registry may be lost, and the
developer changes branches and copies files between working copies. The name of a branch is the
sequence of its parts between dots, because the numbers of a branch are looked for in every version that begins
with its name and a dot (`publishing/deploy.ts:232`): `NumbersAfter` are those of the branch itself and what `parseInt`
reads in longer names. Run `release`: two working
copies, four branches (one main, one whose name no version may hold, `alpha`, and `alpha.7x`, which is taken for a
number of `alpha`), two version types; the number of
deployments, tools and checkouts to come (`calls`) is bounded by four budgets. What is published is
whole and names itself as it was published, and a tool's report holds (`RegistryAgrees`); the pre-releases of a
branch have no gap but at the numbers read in longer names (`NumbersGapless`; section 6); a deployment that takes its version back
restores all three files (`FailureReverts`).

### The joined run (`MCShared`, run `shared`)

Over a million states, with those of `Signing` and `Wallets`; the slots `s1` to `s4` are the other parts' own
variables. Most parts end, so the run does not check for deadlock.

- `Amounts`: an amount through a validator, a conversion with one of three sources of decimals, and
  back to a display; sums of inputs and outputs. Decimal keeps three digits here and `Number` is safe up to
  9, so that both limits are met (`AmountsSound`).
- `Fields`: each parser with values around its limits, scaled down; the records of a validator and an item;
  and the preimages of `protocol/contract-id.ts`. `Inputs`: texts around the limits of length through all
  validators of the same thing, batches of checks, tokens spelled in several ways. What is sent
  means what was entered (`EntriesSound`). A text may end within a surrogate pair, which comes out replaced
  (`CutShort`, section 6).
- `Encodings`: integers over a byte of four values, hexadecimal texts, seeds of derived addresses, Borsh
  values and the payloads the guardians sign, in pairs: two transfers never have the same bytes
  (`EntriesSound` again).
- `Query`: what the decoders make of an answer, also of records cut anywhere (`AnswersSound`).

## 4. What is proved

Every theorem is proved by TLAPS from the named assumptions on the constants in the module it
is about (natural numbers, `NoKey` is no key, the default network is a network, ...), for all
values of the constants and without the bounds' values playing a role. A property is proved as
the runs state it.

| Module | Theorems | Argument |
|---|---|---|
| `WalletAdapterProofs` | `TypeCorrect`, `Ownership` (`RequestsOwned`), `AnsweredOnce` (`SingleUse`), `OwnerClaims` (`ClaimedByOwner`), `SignaturesLabelled` (`SignatureOfRequest`), `AdaptersAgree` (`EmbeddedSound`) | A pending record names a request of its tab and kind that has no claim yet; a claim removes it; new ids are fresh. Ownership is needed because `SingleUse` alone does not say that no second record waits for an answered request. That only the owner claims is an action property under the same invariant; that a label is right needs in addition that results and messages carry a request that was issued. For `EmbeddedSound` the invariant (`OneMind`) says what the fields of every adapter have in common after each kind of step, and, for a single tab, that its key is the one the shared record restores. |
| `SubmitAndWaitProofs` | `SearchBounded`, `LatestFound`, `HintValid`, `WindowSound`, `ResolvedCorrect`, `RequestedOnce`, `ImplementsPromise` | Inductive invariant `TypeOK`, `SearchBounds`, `HintExists`, submitted at most once, the wait stays at or below the tip plus one, `WindowHoldsBlock`, `ResolvedIsIncluded`. The window argument needs that a transaction that is not yet submitted is in no block, and that blocks appear above the tip only. For any set of callers. `ImplementsPromise` is the refinement: each action is a step of `SubmitOnce` or leaves status and reply alone, under the same invariant; `RequestedOnce` that a submission is delivered twice only where the fallback applies. |
| `BridgeProofs` | `HalfUsed` (`UsesHalf`), `InBudget` and `EveryFetchInBudget` (`AttemptsInBudget`), `FirstOccurrences` and `EveryResult` (`ResultSound`), `Resolved` (`ResolvedReleased`), `Releases` (`ReleasesSound`) | The fetch: the delay in use never exceeds the time that passed plus the first delay, and a cut delay ends at the maximum; a transfer runs the fetch again from its start, so the bound carries over to `EveryFetchInBudget`. Attempts may take no time at all: a retry after the maximum then needs an attempt that failed within its millisecond with nothing left (`RetryInTime`), which is what `spins` records. What a fetch returns is a fold over the signatures of the answer; that it keeps first occurrences for a list of any length is proved of the fold's intermediate results, by taking the least position at which they would differ (a set has a least element, `WFMin`, where the induction theorems do not apply). The transfer: every transaction in the pool, sent by this call, an earlier one or somebody else, says what the guardians attest (`Rightful`), so does what was verified and released, and the client goes on only after what it waited for (`Confirmed`). What depends on the code is `BuildersRight`: each of the six payload cases builds a verification and a token call that agree, and for tokens a vault that is the one the lock filled; of the vault of lamports nothing is claimed. |
| `SingletonsProofs` | `TokenInfoAge`, `UsedRateAge` (`RateAge`), `FeeTokenListAge` (`FeeTokensAge`) of the caches; `Refinement`, `EveryAge` (the three of them) and `EveryReport` (`MonitoringSound`) of the process | Ages of entries, of answers under way and of rates in hand, strengthened together. The stamp of a list of fee tokens is no later than the list it holds, and a call began before its answer was read; so an older answer that overwrites a newer one brings its older stamp along. A run of all checks (`NoneMissed`): a check that was there all the time has its result, is being run or lies ahead of the iteration, and the status so far is as bad as any result (`WorstKnown`); the place it goes on to is the least one ahead, which exists by `WFMin`. A series (`Charted`) is the end of what was observed. The statistics (`Counted`) are true of the times seen so far: extremes that occur among them, and a sum between as many times the one and the other, as one more time keeps it (`Average`). Redaction (`Redacted`) is inside of nodes that are reached from the root without a secret key, so what it prints next is reached so too (`Reached`, for any graph, cyclic or not). |
| `SigningProofs` | `TypeCorrect`, `SignedClean` (`SignaturesClean`), `AwaitedReturns` (`AwaitedSound`), `FailuresLeaveNoHash` (`FailureLeavesNoHash`) | Signatures sit in the slots of the message type and are clean; the bytes a waiting call will sign were clean when it took them. For an application that awaits, there is one call at a time and nobody else edits meanwhile (`Orderly`), so that what a call has signed so far is over the body it returns. |
| `WalletsProofs` | `KeysSound` (`KeysOfSeed`) and `OneAddress` (`AddressesAgree`) of derivation; `EveryWallet` (the two of them) and `EveryExchange` (`ExchangeSound`) of the composition | Every continuation holds keys of the seed at its call; clearing changes the seed and no continuation. While the shared array reads the same both ways, reversing it changes nothing, and every wallet of an account has one address (`WaysInv`). An identifier is the same for a list and the list turned round, as sorting only counts (`SortedTurned`, by a bijection of places). Reading it back: the recursive function of the parser exists because it can be extended towards the front from the end of the text (`TypesEquation`); it finds the types of the list place by place from the last one (`TypesRead`); the underscore before the key is the last one (`AddressRead`). Both inductions are over places of one text, done with a least place, which exists by `WFMin`. An exchange: what was sent and what came back are functions of the case (`Answered`), so the rest is what those functions compute. The bytes of an identifier are read up to the greatest underscore of a run, which begins with the prefix that was written and, if the key holds no underscore there, ends with it (`KeyedRead`); a valid prefix holds letter, underscore, hash types and underscores (`ValidRead`), read together with the key behind it as `LettersRead` says (`AddressOfValid`). For events (`Emission`) the array an emission began with only grows, the calls are its beginning, and if nobody subscribed meanwhile, nobody who was taken off is in the adapter's array; that a filter returns what it should is an induction over its intermediate results (`WithoutRead`). |
| `TransactionsProofs` | `ContextStays` (`ContextFresh`), `LookupsStay` (`LookupsOfCall`), `PairsMatch` (`RegistrationPaired`), `FeeSuffices` (`FeeCoversFinal`) of `Builders`; `Refinement`, and with it `EveryTransaction` (the four of them), `SlotsLineUp` (`CoinSound`), `FinalLengthPaid` (`FeeCoversSize`), `ChargesComplete` (`ChargesSound`), `ChunksComplete` (`NothingLost`) of `Transactions` | A builder is a list of steps, so the invariant says which steps may be left, which one is the last, and that the nonce is among them until it is in the message; that of a registration (`Paired`), that its second signature was made over the present operator signature and a body from the signed one to the hashed one, kept by signing, editing, hashing, attaching and sending in any order; that of the fee (`FeeInv`), that it is calculated with the placeholders in place and what may still be added then. The fee is the price of the message with the digits of its first estimate, and five percent: the lemmas bound the digits by which the final fee and the stages of a proposal may be longer by a twentieth of the message. Coin transactions (`CoinInv`): what was checked when the slots were made what was checked when the slots were made stays true of them, and the nonces are all the given ones or each lies between the chain's at the call and now; sums need no induction, as what the checks sum up is what the message holds. Fees (`FeesInv`): the recipients still to be looked up and those found without the token are together all that are without it, whatever look-ups fail; the price that was written is of the message with the digits of the first estimate, a second new digit is one byte, and a byte is less than a hundredth of the price of a signed message, which has more than a hundred. Bodies (`BodyInv`): chunks are numbered, and those read, queued and still to come are consecutive. |
| `ReleaseProofs` | `Agreement` (`RegistryAgrees`), `Gapless` (`NumbersGapless`), `GaplessAlone`, `Reverts` (`FailureReverts`) | What each deployment remembers is what it found, until it takes it back or publishes; a tool's list of versions shrinks as the registry does. For `AnySpec`, which begins with any finite registry whose numbers have no gap, instead of the empty one, with any branches and budgets. The next number is the largest read in the listing plus one, proved of the set the listing returns; more versions are more numbers, so what a number followed on stays there. `GaplessAlone` adds that a branch whose name begins no other's has no gap at all. |

`FeeSuffices` rests on `SizeAssumption`: a message is longer than the number of digits of any amount, and at
least twenty times as long as the digits of its gas fee. A message holds keys, a hash and signatures, hundreds
of bytes; an amount of 128 bits has 39 digits, a gas fee a handful. Without it the margin of five percent may be less
than a byte, and the property fail. `Digits` counts the `Powers` of ten an amount reaches, any finite set
of numbers each ten times the one below it. `OneAddress` rests on `TextAssumption`: the base58 of a key is not empty and has
no underscore. `EveryExchange` rests on `ExchangeAssumption`: the types of a case; an identifier with a key type has
a prefix of characters the parser takes for one, up to its last underscore; messages have the package of this version; and
`None` is nothing that is exchanged. `FirstOccurrences` rests on `PayloadAssumption` (an answer holds lists); `EveryReport` on
`MonitoringAssumption` (finitely many checks, limits and times that are numbers, and a value whose children are its own); the theorems about fees, coin
transactions and bodies on `FeeAssumption`, `CoinAssumption` and `BodyAssumption`, which give the types of a call, of the
network's answers and of a source; a fee has a key to sign with and the native token has decimals. `Resolved` and `Releases` rest on `TransferAssumption`, which says what the
guardians sign for each kind of token: the body comes from the lock, not from the SDK.

Only model-checked:

- Liveness (`EveryCallSettles`, `CallEnds`, `RunEnds`) needs ENABLED.
- `AmountsSound`, `EntriesSound` and `AnswersSound` are about digits, bytes and texts, folded,
  sorted and parsed; what those functions compute for every input takes induction over data.

## 5. What is not modelled, and why

- `shared/fee-calculators/exchange-rate-service.ts` and `contract-fee-service.ts`: fixed tables.
- The use cases `dex`, `staking`, `bootstrapping` and `smart-swap`: each fills the parameters of one
  execute call.
- Handler services of one request and one conversion; examples.
- Generated code, and protobuf and base58 themselves: models carry decoded values. Cryptography is
  symbolic, a hash its preimage.
- The frame parser of gRPC-Web, headers and the creation of clients; URLs of deep links.
- Create and update options that only fill a message; time and timestamp options.
- `scripts/sync-protos.ts` and `check-base-fee.ts`.
- Another tab that overwrites the shared record of a connected tab (`wallet-adapter.ts:611`) is a step
  of `WalletAdapter`, but nothing in the code keeps the two in step, so no property is stated. Likewise a
  rejected request that resets the state of an adapter connected otherwise meanwhile (`:416`).

## 6. Findings

- `SameSettingsSameAddress` (`wallet-creation/hash-utils.ts:158`): `hashTypes.reverse()` turns the
  caller's array round, so the next wallet with the same options has another address, against
  `wallet-creation/README.md:127`.
- `ExactFeeParts` (`contract/update/transaction.ts:98`): a contract update passes its fee, given in parts, on
  as whole tokens, against `contract/shared/types.ts:123`.
- `StopsInTime` (`vaa.ts:218`): a fetch whose attempts fail at once goes on without end when its maximum has passed, against
  `vaa.ts:188`.
- `CosignsSentHash` (`validator-ops/transaction.ts:502`): sending asks for a co-signature to be there, and
  finalizeTransactionHash keeps the one that is: a registration goes out with that of an earlier hash, against
  `sign/README.md:44`.

Noted while modelling, without a run of their own. Where a property excludes such a case, its
comment says so.

Adapter and wallets:

- A connect() call that is rejected after another path connected the adapter sets the state to disconnected and
  keeps key, signer and stored record (`adapter/wallet-adapter.ts:416`), against the comments at `:205` and `:214`.
- A base58 key that begins with a, b or c is read as if it had hash types (`shared/crypto/address-utils.ts:306`,
  against `docs/guides/hd-derivation.md:129`): a wallet that supplies its true address is then refused, one that supplies none gets
  a wrong one.
- getPublicKeyIdentifierFromBytes is called the inverse of getPublicKeyBytes (`address-utils.ts:152`), which it is not for a key whose
  bytes begin like a prefix.
- WalletConnectSigner takes signatures of any length and badly encoded ones (`adapter/walletconnect.ts`).
- An empty message serializes and does not deserialize (`adapter/serialization.ts:189`); so does an
  unregistered one with a schema of its own.
- A listener that subscribes itself again during an event keeps it going (`MaxHeard` bounds it).
- The identifier lists hash types sorted while the address applies them as given
  (`wallet-creation/shared.ts:91`).
- secureClear zeroes the seed array of the application (`crypto-core.ts:406`); a later
  createWallet with the same options derives from zeros.
- The depth of one path is four in createWallet and five in deriveMultipleWallets
  (`crypto-core.ts:211`, `:264`), so serialized extended keys differ.

Transactions and fees:

- A nonce given for some but not all inputs of createCoinTXN is ignored: every nonce is asked for
  (`coin-txn/transaction.ts:158`), against `types/index.ts:280` ("When provided, skips network nonce fetch for this
  input") and the comment at `coin-txn/transaction.ts:79`; `docs/audit-2026-09-30.md:67` lists it.
- Gas is priced by the raw rate (`universal-fee-calculator.ts:674`), against the comment at 104.
- Vote and contract update ignore `grpcConfig` in the fee look-up; item builders always ask for token
  information; "fully offline" (`shared/tx/standard.ts:32`) does not hold with an interface fee.
- Overlapping signAndFinalize calls on one object may hash a hash field the other has stored.
- waitForTransaction looks at its deadline only where a block is missing (`query/api-client.ts:689`). While the bisection
  runs, the block at its upper end may have come into being.
- fetchWithRetry cuts the delay to the time left and then refuses it if the attempt in between
  took any time (`vaa.ts:218`, `:228`), so it gives up before its maximum, as `UsesHalf` bounds.

Amounts and fields:

- A proposal's text may end in a high surrogate: `isWellFormedUnicode` compares what charCodeAt returns past the
  end, which is NaN (`proposal/transaction.ts:404`). It is encoded with a replacement character, against "canonical
  UTF-8 text" (`:393`). `EntriesSound` allows that change and no other.
- formatAmount with no decimals strips zeros of the integer (`transaction-utils.ts:201`).
- validateAmount accepts NaN, and Infinity where there is no maximum, given as numbers.
- Sums beyond 50 digits lose digits, and such parts are written with an exponent and refused.
- getDecimalPlacesFromDenomination floors a denomination that is no power of ten, by which partsToWhole divides.
- `validation.ts:555` spells `sha3_256` where HashType is `sha3-256`; isValidAddress refuses the addresses of Ed448 wallets and
  of sha3-512; the example of isValidContractId (about `:738`) is refused by it; isPositiveAmount(0) is true;
  floorAmount and ceilAmount do not round.
- The quorum takes NaN for zero (`contract/shared/utils.ts:176`), the threshold does not. Percentages and dollars are
  rounded to hundredths. An empty text is zero in the optional uint64 fields of items.

Answers, streams, monitoring:

- decodeContractSupply reads a record cut at a field boundary as a supply of zero.
- A stream from a source with an asynchronous start and no pull is cut short; overlapping reads may be
  told the end while chunks remain; a cancelled stream still gives queued chunks.
- The value of a histogram stays 0; a key keeps the kind of its first observation; labels with `,` or `=`
  collide. Failed iterations count in `iterations` and not in the average. A check that is removed and added again
  may run twice. wrapOperation turns every error into the general class.

Bridge payloads:

- Lengths of name and symbol are one byte (`transactions/mint.ts:165`): 256 characters wrap. setBigUint64 wraps
  amounts out of range; hexToBytes turns bad digits into 0 and drops an odd last one; a registration cuts
  its transaction id to 32 bytes and a mint does not; encodeBorshOption is exported and unused.

Release tooling:

- The versions of a branch are those that begin with its name and a dot (`publishing/deploy.ts:232`), although the comment
  before says "for this branch": after `0.0.1-alpha.7x.1` the branch `alpha` goes on from 7, with no version before. `NumbersGapless`
  allows such numbers and no others; `GaplessAlone` proves that a branch whose name begins no other has no gap.
- `process.exit` when nobody is logged in comes after the version was written and before the handler that would take it back
  (`publishing/deploy.ts:93`), so the files stay changed.
- On a side branch a deployment without a type changes the version and never takes it back (`:497`, `:551`, `:611`).
- On main without a type a pre-release is published as `latest`, although `publishing/README.md` keeps that tag for
  stable versions.
- A branch with a slash writes a version its own pattern no longer finds (`:155`).
- The build deletes generated code first (`proto/build.ts:20`), so its tolerance of a failed generation (`scripts/build.ts:454`)
  applies to an incomplete one only.
