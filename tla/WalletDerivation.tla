-------------------------- MODULE WalletDerivation --------------------------
(***************************************************************************)
(* createWallet and deriveMultipleWallets (wallet-creation/                *)
(* wallet-factory.ts), the addresses they compute and secureClear of the   *)
(* wallets they return, and the address which the rest of the library      *)
(* reads from a public key identifier (shared/crypto/address-utils.ts).    *)
(*                                                                         *)
(* An application uses one options object for all its calls: they share    *)
(* its array of hash types and its seed, if it gives one.  Cryptography is *)
(* symbolic: a key is the seed and the account it derives from, a hash is  *)
(* the list of functions applied.  A call runs up to its await at once;    *)
(* what is after it runs later, call by call in the order they were made.  *)
(***************************************************************************)
EXTENDS Integers, FiniteSets, SequencesExt

CONSTANTS
  Account,  \* account indices, from 0
  Text,     \* base58 of the public key of each key, as letters
  Lists,    \* hashTypes an application may give
  MaxCalls, \* bound: calls
  MaxCount  \* bound: wallets of a call

Hash == {"a", "b", "c"} \* prefixes of sha3-256, sha3-512 and blake3

Key == [seed : {"mnemonic", "zero"}, account : Account]

ASSUME DerivationConstants ==
  /\ Account \subseteq Nat /\ \A a \in Account : 0..a \subseteq Account
  /\ MaxCalls \in Nat /\ MaxCount \in Nat
  /\ DOMAIN Text = Key /\ \A k, l \in Key : Text[k] = Text[l] => k = l
  /\ Lists \subseteq Seq(Hash)

\* Base58 has no underscore.
ASSUME TextAssumption ==
  \A k \in Key : /\ Text[k] \in Seq(STRING) /\ Text[k] # <<>>
                 /\ \A i \in DOMAIN Text[k] : Text[k][i] # "_"

VARIABLES
  hashTypes, \* options.hashTypes
  seed,      \* what options.seed holds, "none" if it is not given
  queue,     \* continuations: keys derived and the seed at the call
  wallets,   \* wallets returned, in order
  calls      \* calls made

vars == <<hashTypes, seed, queue, wallets, calls>>

-----------------------------------------------------------------------------
(* Addresses *)

\* createHashChain: the last of the list is applied first.
HashChain(list, key) == [key |-> key, applied |-> Reverse(list)]

\* generateKalvoraPublicKeyIdentifier: the prefixes are sorted by name, and the
\* names sort as blake3, sha3-256, sha3-512; there are as many of each as there were.
Sorted(list) ==
  LET Count(hashes) == Cardinality({i \in DOMAIN list : list[i] \in hashes})
  IN [i \in 1..Len(list) |-> IF i <= Count({"c"}) THEN "c"
                             ELSE IF i <= Count({"c", "a"}) THEN "a" ELSE "b"]

\* Each prefix with an underscore behind it.
HashPrefixes(list) == [i \in 1..2 * Len(list) |-> IF i % 2 = 1 THEN list[(i + 1) \div 2] ELSE "_"]

Identifier(list, key) == <<"A", "_">> \o HashPrefixes(Sorted(list)) \o Text[key]

At(identifier, i, c) == i <= Len(identifier) /\ identifier[i] = c

\* The hash types from a place on: letters of hash types are taken one by one, each with the
\* letter that follows it.
TypesFrom(identifier) ==
  LET After(i) == IF At(identifier, i + 2, "_") THEN i + 3 ELSE i + 2
      types[i \in Nat] ==
        IF i <= Len(identifier) /\ identifier[i] \in Hash
          THEN <<identifier[i]>> \o types[After(i)] ELSE <<>>
  IN types

\* getHashTypesFromPublicKey: what follows the key type.
HashTypesOf(identifier) == TypesFrom(identifier)[IF At(identifier, 3, "_") THEN 4 ELSE 3]

\* generateAddressFromPublicKey: the key is what follows the last underscore.
AddressOf(identifier) ==
  LET last == CHOOSE i \in DOMAIN identifier :
                identifier[i] = "_" /\ \A j \in DOMAIN identifier : j > i => identifier[j] # "_"
      key == CHOOSE k \in Key : Text[k] = SubSeq(identifier, last + 1, Len(identifier))
  IN HashChain(HashTypesOf(identifier), key)

-----------------------------------------------------------------------------
Init ==
  /\ hashTypes \in Lists
  /\ seed \in {"none", "mnemonic"}
  /\ queue = <<>> /\ wallets = <<>> /\ calls = 0

Node(content, account) ==
  [seed |-> IF content = "zero" THEN "zero" ELSE "mnemonic", account |-> account]

\* What runs before the await of generateKeyPair: the nodes are derived from the seed.
Enqueue(keys, content, holds) ==
  /\ calls < MaxCalls /\ calls' = calls + 1
  /\ queue' = Append(queue, [keys |-> keys, holds |-> holds, atCall |-> content])
  /\ UNCHANGED <<hashTypes, seed, wallets>>

\* createWallet keeps the seed of the options in its node.
CreateWallet(account) == Enqueue(<<Node(seed, account)>>, seed, seed # "none")

\* deriveMultipleWallets always makes a seed of its own, and clears it at the end.
DeriveMultipleWallets(first, count) ==
  Enqueue([i \in 1..count |-> Node("none", first + i - 1)], "none", FALSE)

\* hashTypes.reverse() turns the array of the options round, n times.
Turned(n) == IF n % 2 = 0 THEN hashTypes ELSE Reverse(hashTypes)

\* The wallet of a key: the address is computed first and turns the array round.
Built(job, key, i) ==
  [key |-> key, address |-> HashChain(Turned(i - 1), key),
   publicKey |-> Identifier(Turned(i), key),
   list |-> Turned(i - 1), holds |-> job.holds, atCall |-> job.atCall]

\* Mutant: the key is derived after the await.
WalletLate(job, i) ==
  Built(job, Node(IF job.holds THEN seed ELSE "none", job.keys[i].account), i)

\* Mutant: the address is that of the array turned round.
WalletTurned(job, i) ==
  [Built(job, job.keys[i], i) EXCEPT !.address = HashChain(Turned(i), job.keys[i])]

Wallet(job, i) == Built(job, job.keys[i], i)

\* What runs after the await, for all accounts of a call at once.
Finish ==
  /\ queue # <<>>
  /\ LET job == Head(queue) IN
       /\ wallets' = wallets \o [i \in DOMAIN job.keys |-> Wallet(job, i)]
       /\ hashTypes' = Turned(Len(job.keys))
  /\ queue' = Tail(queue)
  /\ UNCHANGED <<seed, calls>>

\* wallet.secureClear(): the node clears its key and the seed it keeps.
SecureClear(i) ==
  /\ seed' = IF wallets[i].holds THEN "zero" ELSE seed
  /\ UNCHANGED <<hashTypes, queue, wallets, calls>>

Next ==
  \/ \E a \in Account : CreateWallet(a)
  \/ \E a \in Account, n \in 1..MaxCount :
       a + n - 1 \in Account /\ DeriveMultipleWallets(a, n)
  \/ Finish
  \/ \E i \in DOMAIN wallets : SecureClear(i)

Spec == Init /\ [][Next]_vars

-----------------------------------------------------------------------------
Job == [keys : Seq(Key), holds : BOOLEAN, atCall : {"none", "mnemonic", "zero"}]

\* Clearing a wallet does not reach into calls that run: a wallet whose seed was there when
\* its call was made has the key of that seed.
KeysOfSeed ==
  \A i \in DOMAIN wallets : wallets[i].atCall # "zero" => wallets[i].key.seed = "mnemonic"

\* The two ways to derive an account agree, however calls overlap, when turning the list
\* of hash types round does not change it and the seed is there.
DerivationsAgree ==
  \A i, j \in DOMAIN wallets :
    LET v == wallets[i] w == wallets[j] IN
    /\ v.key.account = w.key.account
    /\ Reverse(v.list) = v.list
    /\ "zero" \notin {v.atCall, w.atCall}
    => v.address = w.address /\ v.publicKey = w.publicKey

\* The address that nonces and fees are looked up with, read from the identifier, is the
\* wallet's own, if its list was sorted and its key does not begin like a hash type.
IdentifierParses ==
  \A i \in DOMAIN wallets :
    LET w == wallets[i] IN
    w.list = Sorted(w.list) /\ Text[w.key][1] \notin Hash
      => AddressOf(w.publicKey) = w.address

\* One wallet has one address, whichever way it is derived or read from its identifier
\* (deriveMultipleWallets, createHDWallet, generateAddressFromPublicKey).
AddressesAgree == DerivationsAgree /\ IdentifierParses

-----------------------------------------------------------------------------
(* What the documents say and the code does not do *)

\* "Same mnemonic + same settings = same address" (wallet-creation/README.md:127).
SameSettingsSameAddress ==
  \A i, j \in DOMAIN wallets :
    wallets[i].key = wallets[j].key => wallets[i].address = wallets[j].address
=============================================================================
