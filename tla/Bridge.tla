------------------------------- MODULE Bridge -------------------------------
(***************************************************************************)
(* A bridge transfer from the client's side: the transaction that locks or *)
(* burns on one chain, the VAA fetched from the guardians (VaaFetch), and  *)
(* submitVAAToSolana or submitVAAToKalvora (guardian/vaa.ts) with the      *)
(* transaction builders of bridge/solana and bridge/kalvora.  The process  *)
(* may end at any time and the caller calls again.                         *)
(*                                                                         *)
(* The chains, the guardians and whoever else submits the same VAA are     *)
(* external.  Solana executes a transaction or drops it; a verification    *)
(* stays on chain under the hash the guardians signed, and what it names   *)
(* is released once.  Whether verifying again succeeds is up to the chain: *)
(* either is allowed here.                                                 *)
(***************************************************************************)
EXTENDS VaaFetch, FiniteSets

CONSTANTS
  Transfer,  \* the transfers considered
  Crashes    \* bound: how often the process ends

VARIABLES
  transfer,  \* what is transferred, as the guardians attest it
  options,   \* skipConfirmation, skipPreflight, feeAmountParts
  step,      \* where the client is
  built,     \* the two transactions a builder returned
  watch,     \* what the client was told of the transaction it waits for
  pool,      \* transactions sent, neither executed nor dropped
  verified,  \* Solana: the verification on chain
  released,  \* Solana: what was released or minted
  vaults,    \* Solana: the accounts tokens are locked in
  executed,  \* Kalvora: calls of the bridge contract
  refused,   \* Solana: token calls that met what they do not agree with
  crashes    \* how often the process ended

clientVars == <<options, step, built, watch, crashes>>
chainVars == <<pool, verified, released, vaults, executed, refused>>
allVars == <<vars, transfer, clientVars, chainVars>>

NoneBuilt == [verify |-> <<>>, token |-> <<>>]

-----------------------------------------------------------------------------
(* Builders: bridge/solana *)

\* getATA and getATAWithProgramId: an account of one owner, mint and program.
Ata(owner, mint, program) == [owner |-> owner, mint |-> mint, program |-> program]

\* The guardians' signatures as fetchSolanaVAA returns them: one Ed25519
\* instruction for each.
SignatureChecks == result

\* The timestamp of the payload, or the time of the call if it has none.
Timestamp == IF transfer.stamped THEN "signed" ELSE "now"

\* The verification: compute budget and signature checks, if there are any,
\* then the core instruction post_verified_transfer.
Verification(action, body) ==
  [kind |-> "verify", action |-> action, time |-> Timestamp, body |-> body,
   checks |-> SignatureChecks, budget |-> SignatureChecks # <<>>]

TokenCall(name, body, program, vault) ==
  [kind |-> "token", action |-> name, body |-> body, program |-> program, vault |-> vault]

Priced(t) ==
  [amount |-> t.amount, to |-> t.to, mint |-> t.mint, price |-> t.price,
   liquidity |-> t.liquidity, tier |-> t.tier]

ReleaseSplVerify(t) == Verification("RELEASE_SPL", Priced(t))

\* buildReleaseSplTransaction
ReleaseSpl(t) ==
  [verify |-> ReleaseSplVerify(t),
   token |-> TokenCall("RELEASE_SPL", Priced(t), "spl", Ata("router_signer", t.mint, "spl"))]

Release2022Verify(t) == Verification("RELEASE_2022", Priced(t))

\* buildReleaseToken2022Transaction
Release2022(t) ==
  [verify |-> Release2022Verify(t),
   token |-> TokenCall("RELEASE_2022", Priced(t), "token2022",
                       Ata("router_signer_2022", t.mint, "token2022"))]

ReleaseSolVerify(t) ==
  Verification("RELEASE_SOL", [amount |-> t.amount, to |-> t.to, price |-> t.price])

\* buildReleaseSolTransaction: from the vault of the program, which takes no
\* liquidity and no tier.
ReleaseSol(t) ==
  [verify |-> ReleaseSolVerify(t),
   token |-> TokenCall("RELEASE_SOL", [amount |-> t.amount, to |-> t.to, price |-> t.price],
                       "system", "vault")]

WrappedMint(t) == <<"mint", t.contract>>
Minted(t) ==
  [amount |-> t.amount, to |-> t.to, contract |-> t.contract, price |-> t.price,
   liquidity |-> t.liquidity, tier |-> t.tier]
MintedNew(t) ==
  [amount |-> t.amount, to |-> t.to, contract |-> t.contract, price |-> t.price,
   liquidity |-> t.liquidity, tier |-> t.tier, decimals |-> t.decimals, name |-> t.name]

MintNewVerify(t) == Verification("MINT_WRAPPED", MintedNew(t))

\* buildMintWrappedTransaction: the first time a contract is minted.
MintNew(t) ==
  [verify |-> MintNewVerify(t),
   token |-> TokenCall("MINT_WRAPPED", MintedNew(t), "spl", WrappedMint(t))]

MintExistingVerify(t) == Verification("MINT_WRAPPED_EXISTING", Minted(t))

\* buildMintWrappedExistingTransaction: decimals, name, symbol and URI are
\* left out of the call.
MintExisting(t) ==
  [verify |-> MintExistingVerify(t),
   token |-> TokenCall("MINT_WRAPPED_EXISTING", Minted(t), "spl", WrappedMint(t))]

RegisterVerify(t) ==
  Verification("REGISTER_TOKEN", [mint |-> t.mint, price |-> t.price,
                                  liquidity |-> t.liquidity, tier |-> t.tier])

\* buildRegisterTokenTransaction: no tokens move.
Register(t) ==
  [verify |-> RegisterVerify(t),
   token |-> TokenCall("REGISTER_TOKEN", RegisterVerify(t).body, t.program, "registration")]

\* The vaults of buildLockSplTransaction, buildLockToken2022Transaction and
\* buildLockSolTransaction.  Lamports are wrapped into the signer's account for
\* wrapped SOL, which is not the vault that a release of lamports pays from.
LockSpl(t) == Ata("router_signer", t.mint, "spl")
Lock2022(t) == Ata("router_signer_2022", t.mint, "token2022")
LockSol(t) == Ata("router_signer", "wsol", "spl")

\* Where a transfer from Solana puts the tokens; a burn takes them from the
\* wrapped mint.
LockVault(t) ==
  CASE t.wrapped                                  -> WrappedMint(t)
    [] ~t.wrapped /\ t.program = "system"         -> LockSol(t)
    [] ~t.wrapped /\ t.program = "token2022"      -> Lock2022(t)
    [] ~t.wrapped /\ t.program \in {"spl", "other"} -> LockSpl(t)

\* What the guardians attest of a transfer to Solana is what its payload case
\* carries, under the action the bridge program knows it by; native lamports
\* are released by the system program, wrapped tokens are SPL tokens.
ASSUME TransferAssumption ==
  \A t \in Transfer : t.toSolana =>
    /\ t.kind = "release" /\ t.mint = "native" =>
         /\ t.action = "RELEASE_SOL" /\ t.program = "system" /\ ~t.wrapped
         /\ t.signed = [amount |-> t.amount, to |-> t.to, price |-> t.price]
    /\ t.kind = "release" /\ t.mint # "native" =>
         /\ t.program \in {"spl", "token2022", "other"} /\ ~t.wrapped
         /\ t.action = IF t.program = "token2022" THEN "RELEASE_2022" ELSE "RELEASE_SPL"
         /\ t.signed = [amount |-> t.amount, to |-> t.to, mint |-> t.mint, price |-> t.price,
                        liquidity |-> t.liquidity, tier |-> t.tier]
    /\ t.kind = "mint" =>
         /\ t.action = "MINT_WRAPPED_EXISTING" /\ t.program = "spl"
         /\ t.signed = [amount |-> t.amount, to |-> t.to, contract |-> t.contract,
                        price |-> t.price, liquidity |-> t.liquidity, tier |-> t.tier]
    /\ t.kind = "contract" =>
         /\ t.action = "MINT_WRAPPED" /\ t.program = "spl"
         /\ t.signed = [amount |-> t.amount, to |-> t.to, contract |-> t.contract,
                        price |-> t.price, liquidity |-> t.liquidity, tier |-> t.tier,
                        decimals |-> t.decimals, name |-> t.name]
    /\ t.kind = "register" =>
         /\ t.action = "REGISTER_TOKEN"
         /\ t.signed = [mint |-> t.mint, price |-> t.price,
                        liquidity |-> t.liquidity, tier |-> t.tier]

-----------------------------------------------------------------------------
(* Builders: bridge/kalvora *)

Signatures == [i \in DOMAIN result |-> result[i].sig]
Keys == [i \in DOMAIN result |-> result[i].key]

\* A call of the bridge contract: the fields in the order of the function, and
\* the signatures and keys as two lists.
ContractCall(function, fields) ==
  [function |-> function, fields |-> fields, signatures |-> Signatures, keys |-> Keys]

\* releaseKalvora, mintSol and createSol
ReleaseKalvora(t) == ContractCall("release", [amount |-> t.amount, to |-> t.to])
MintSol(t) == ContractCall("mint", [amount |-> t.amount, to |-> t.to, price |-> t.price])
CreateSol(t) ==
  ContractCall("create", [amount |-> t.amount, to |-> t.to, price |-> t.price,
                          name |-> t.name, decimals |-> t.decimals])

\* resolveFeeAmountParts: a manual fee is a number of parts.
FeeAccepted == options.feeParts \in {"none", "integer"}

-----------------------------------------------------------------------------
(* The chains *)

\* The guardians attest one body, under one action and time.
Attested(tx) == tx.time = "signed" /\ tx.body = transfer.signed /\ tx.action = transfer.action

\* What the token program holds a call against: the verification, the program
\* of the mint and, for a release of tokens, the vault.  How what is locked as
\* wrapped SOL comes into the vault of lamports is the bridge program's, and
\* not in this code: a release of lamports is paid.
Agrees(tx) ==
  /\ verified = {[action |-> tx.action, body |-> tx.body]}
  /\ tx.program = transfer.program
  /\ transfer.kind = "release" /\ transfer.mint # "native" => tx.vault \in vaults

Executable(tx) ==
  CASE tx.kind = "verify"  -> Attested(tx)
    [] tx.kind = "token"   -> verified # {} /\ released = {} /\ Agrees(tx)
    [] tx.kind = "kalvora" -> executed = {}

Effect(tx) ==
  /\ verified' = IF tx.kind = "verify" THEN {[action |-> tx.action, body |-> tx.body]}
                                       ELSE verified
  /\ released' = IF tx.kind = "token" THEN released \union {tx.body} ELSE released
  /\ executed' = IF tx.kind = "kalvora" THEN executed \union {tx} ELSE executed

\* The transaction whose confirmation the client waits for.
Awaited == IF step = "verifying" THEN built.verify ELSE built.token

Told(tx, outcome) ==
  watch' = IF watch = "pending" /\ tx = Awaited THEN outcome ELSE watch

\* A transaction is executed.  A second verification may be refused.
ExecuteTransaction(tx) ==
  /\ Executable(tx)
  /\ pool' = pool \ {tx}
  /\ Effect(tx)
  /\ Told(tx, "ok")
  /\ UNCHANGED <<vars, transfer, options, step, built, crashes, vaults, refused>>

RefuseTransaction(tx) ==
  /\ ~Executable(tx) \/ (tx.kind = "verify" /\ verified # {})
  /\ pool' = pool \ {tx}
  /\ refused' = IF tx.kind = "token" /\ verified # {} /\ ~Agrees(tx)
                THEN refused \union {tx} ELSE refused
  /\ Told(tx, "failed")
  /\ UNCHANGED <<vars, transfer, options, step, built, crashes, verified, released, vaults,
                 executed>>

\* Its blockhash expires before it is executed.
Drop(tx) ==
  /\ pool' = pool \ {tx}
  /\ Told(tx, "failed")
  /\ UNCHANGED <<vars, transfer, options, step, built, crashes, verified, released, vaults,
                 executed, refused>>

\* Someone else submits the VAA.
Relay ==
  /\ step \notin {"lock", "fetch"} /\ transfer.toSolana
  /\ \/ /\ verified = {}
        /\ verified' = {[action |-> transfer.action, body |-> transfer.signed]}
        /\ UNCHANGED released
     \/ /\ verified # {} /\ released = {}
        /\ released' = {transfer.signed}
        /\ UNCHANGED verified
  /\ UNCHANGED <<vars, transfer, clientVars, pool, vaults, executed, refused>>

Chain == \/ \E tx \in pool : ExecuteTransaction(tx) \/ RefuseTransaction(tx) \/ Drop(tx)
         \/ Relay

-----------------------------------------------------------------------------
(* The client *)

\* A release on Solana follows a lock by the same builders.
BridgeInit ==
  /\ Init
  /\ transfer \in Transfer
  /\ options \in [skip : BOOLEAN, skipPreflight : BOOLEAN,
                  feeParts : {"none", "integer", "decimal"}]
  /\ step = "lock"
  /\ built = NoneBuilt
  /\ watch = "none"
  /\ pool = {} /\ verified = {} /\ released = {} /\ executed = {} /\ refused = {}
  /\ vaults = IF transfer.toSolana THEN {LockVault(transfer)} ELSE {}
  /\ crashes = 0

Go(label) == step' = label
KeepClient == UNCHANGED <<transfer, options, crashes>>

\* What starts a transfer to Solana: buildRequestTokenRegistrationTransaction
\* starts a registration, a call of the bridge contract everything else.
RequestRegistration ==
  /\ step = "lock" /\ transfer.kind = "register"
  /\ (transfer.program # "other" /\ Go("fetch")) \/ Go("failed")
  /\ KeepClient
  /\ UNCHANGED <<vars, built, watch, chainVars>>

\* The caller locks on Solana; for a mint of Token-2022 the owner is looked up.
LockOnSolana ==
  /\ step = "lock" /\ ~transfer.toSolana
  /\ \/ vaults' = vaults \union {LockVault(transfer)} /\ Go("fetch")
     \/ UNCHANGED vaults /\ Go("failed")
  /\ KeepClient
  /\ UNCHANGED <<vars, built, watch, pool, verified, released, executed, refused>>

\* lockKalvora, burnSol: token information, unless the denomination is given,
\* and a call of the contract whose fee is checked first.
LockOnKalvora ==
  /\ step = "lock" /\ transfer.toSolana /\ transfer.kind # "register"
  /\ (FeeAccepted /\ Go("fetch")) \/ Go("failed")
  /\ KeepClient
  /\ UNCHANGED <<vars, built, watch, chainVars>>

\* fetchSolanaVAA or fetchKalvoraVAA.
Fetch ==
  /\ step = "fetch"
  /\ Next
  /\ step' = CASE pc' = "resolved" -> "build"
               [] pc' = "rejected" -> "failed"
               [] pc' \in {"fetch", "sleep"} -> "fetch"
  /\ KeepClient
  /\ UNCHANGED <<built, watch, chainVars>>

Fail == Go("failed") /\ watch' = "none" /\ UNCHANGED <<vars, built, chainVars>> /\ KeepClient

\* The builder of a payload case and, for a release, of the program that owns
\* the mint.
Builder(t) ==
  CASE t.kind = "release" /\ t.mint = "native"        -> ReleaseSol(t)
    [] t.kind = "release" /\ t.mint # "native"
                          /\ t.program = "token2022"  -> Release2022(t)
    [] t.kind = "release" /\ t.mint # "native"
                          /\ t.program = "spl"        -> ReleaseSpl(t)
    [] t.kind = "mint"                                -> MintExisting(t)
    [] t.kind = "contract"                            -> MintNew(t)
    [] t.kind = "register"                            -> Register(t)

\* A payload of another case, and a mint of another program
\* (resolveMintTokenProgramId for a registration).
Unsupported ==
  \/ transfer.kind \notin {"release", "mint", "contract", "register"}
  \/ transfer.kind \in {"release", "register"} /\ transfer.program = "other"

\* submitVAAToSolana up to the verification: the mint's owner and a block hash
\* are requested on the way.  A registration is built and sent by the
\* application, in the same two steps.
BuildForSolana ==
  /\ step = "build" /\ transfer.toSolana
  /\ \/ Fail
     \/ /\ ~Unsupported
        /\ built' = Builder(transfer)
        /\ Go("verify")
        /\ KeepClient
        /\ UNCHANGED <<vars, watch, chainVars>>

\* sendRawTransaction or sendAndConfirmTransaction.  The preflight refuses what
\* would not execute now.
Preflight(tx) == options.skipPreflight \/ Executable(tx)

SendTo(tx, waiting, next) ==
  /\ pool' = pool \union {tx}
  /\ IF options.skip THEN Go(next) /\ watch' = "none"
     ELSE Go(waiting) /\ watch' = "pending"
  /\ KeepClient
  /\ UNCHANGED <<vars, built, verified, released, vaults, executed, refused>>

\* Mutant: no way out when the request fails.
SendVerifyOnly ==
  step = "verify" /\ Preflight(built.verify) /\ SendTo(built.verify, "verifying", "hash")

SendVerify ==
  /\ step = "verify"
  /\ Fail \/ (Preflight(built.verify) /\ SendTo(built.verify, "verifying", "hash"))
SendToken ==
  /\ step = "token"
  /\ Fail \/ (Preflight(built.token) /\ SendTo(built.token, "tokening", "done"))

\* Mutant: the outcome of the transaction is not looked at.
ConfirmAny(next) ==
  /\ watch # "pending" /\ Go(next) /\ watch' = "none" /\ UNCHANGED <<vars, built, chainVars>>
  /\ KeepClient

\* The confirmation arrives, or the client gives up waiting for it.
Confirm(next) ==
  /\ \/ watch = "ok" /\ Go(next) /\ watch' = "none" /\ UNCHANGED <<vars, built, chainVars>>
        /\ KeepClient
     \/ watch \in {"pending", "failed"} /\ Fail

\* Mutant: the release follows the signature and not the confirmation.
ConfirmSent ==
  /\ step = "verifying"
  /\ Go("hash") /\ watch' = "none" /\ KeepClient
  /\ UNCHANGED <<vars, built, chainVars>>

ConfirmVerify == step = "verifying" /\ Confirm("hash")
ConfirmToken == step = "tokening" /\ Confirm("done")

\* The token transaction gets a block hash of its own.
LatestBlockhash ==
  /\ step = "hash"
  /\ \/ Fail
     \/ Go("token") /\ KeepClient /\ UNCHANGED <<vars, built, watch, chainVars>>

KalvoraCall(t) ==
  LET call == CASE t.kind = "release"  -> ReleaseKalvora(t)
                [] t.kind = "mint"     -> MintSol(t)
                [] t.kind = "contract" -> CreateSol(t)
  IN [kind |-> "kalvora", call |-> call]

\* submitVAAToKalvora: the call is built, signed and submitted.
SubmitToKalvora ==
  /\ step = "build" /\ ~transfer.toSolana
  /\ \/ Fail
     \/ /\ transfer.kind \in {"release", "mint", "contract"} /\ FeeAccepted
        /\ pool' = pool \union {KalvoraCall(transfer)}
        /\ Go("done")
        /\ KeepClient
        /\ UNCHANGED <<vars, built, watch, verified, released, vaults, executed, refused>>

\* The process ends; the caller calls again, as after a rejection.
Crash ==
  /\ crashes < Crashes /\ step \notin {"lock", "done", "failed", "down"}
  /\ Go("down")
  /\ crashes' = crashes + 1
  /\ watch' = "none"
  /\ UNCHANGED <<vars, transfer, options, built, chainVars>>

CallAgain ==
  /\ step \in {"down", "failed"} /\ crashes <= Crashes /\ pc # "fetch"
  /\ pc' = "fetch" /\ now' = 0 /\ delay' = InitialDelay
  /\ response' = NoResponse /\ result' = <<>> /\ spins' = FALSE
  /\ Go("fetch")
  /\ built' = NoneBuilt
  /\ crashes' = crashes + 1
  /\ UNCHANGED <<retry, transfer, options, watch, chainVars>>

Client ==
  \/ LockOnSolana \/ LockOnKalvora \/ RequestRegistration \/ Fetch \/ BuildForSolana \/ SubmitToKalvora
  \/ SendVerify \/ ConfirmVerify \/ LatestBlockhash \/ SendToken \/ ConfirmToken

BridgeNext == Client \/ Chain \/ Crash \/ CallAgain

\* The client's steps are calls that return (VaaFetch!FairSpec), and what waits
\* for a confirmation is told or times out.
BridgeSpec == BridgeInit /\ [][BridgeNext]_allVars /\ WF_allVars(Client)

-----------------------------------------------------------------------------
(* Properties *)

\* A call that waited for its confirmations and returned has released what the
\* guardians attested (submitVAAToSolana, vaa.ts:353).
ResolvedReleased ==
  step = "done" /\ transfer.toSolana /\ ~options.skip => released = {transfer.signed}

\* With confirmations, no release is sent before its verification is on chain,
\* by this call or by an earlier one that ended half-way.
ReleaseAfterVerify ==
  ~options.skip => \A tx \in pool : tx.kind = "token" => verified # {}

\* What is released is verified, under the program of its mint, and tokens are
\* drawn from the account that such tokens are locked in: a release is refused
\* for coming too early or too late, never for what it says.
NeverMismatched == refused = {}

\* A release is sent only after what permits it and says only what was verified
\* (submitVAAToSolana, transactions/release.ts).
ReleasesSound == ReleaseAfterVerify /\ NeverMismatched

\* Every call ends, with a result or an error, unless the process does or the
\* fetch is one that repeats attempts which fail at once (StopsInTime).
CallEnds == step = "fetch" ~> step \in {"done", "failed", "down"} \/ spins
=============================================================================
