--------------------------- MODULE WalletsProofs ----------------------------
(***************************************************************************)
(* Proofs about Wallets.  WalletDerivation for any accounts, texts, lists  *)
(* and number of calls: a wallet has the key of the seed that was there    *)
(* when its call was made, both ways to derive an account agree, and the   *)
(* address is read back from the identifier.  And Exchange, for any        *)
(* identifiers, keys, answers, messages and listeners: what was sent and   *)
(* what came back are functions of the case, read letter by letter; an     *)
(* emission's array only grows, and the adapter's loses who is taken off.  *)
(***************************************************************************)
EXTENDS Wallets, FiniteSetTheorems, SequenceTheorems, WellFoundedInduction, TLAPS

\* A continuation holds the keys of the seed at its call.
SoundJob ==
  {job \in Job : job.atCall # "zero" =>
                   \A j \in DOMAIN job.keys : job.keys[j].seed = "mnemonic"}

IInv ==
  /\ queue \in Seq(SoundJob)
  /\ \E S : wallets \in Seq(S)
  /\ seed \in {"none", "mnemonic", "zero"}
  /\ KeysOfSeed

\* The keys of a call are those of the content of the seed.
LEMMA EnqueueSound ==
  ASSUME IInv, NEW content \in {"none", "mnemonic", "zero"}, NEW holds \in BOOLEAN,
         NEW keys \in Seq(Key), \A j \in DOMAIN keys :
           content # "zero" => keys[j].seed = "mnemonic",
         Enqueue(keys, content, holds)
  PROVE  IInv'
<1> DEFINE job == [keys |-> keys, holds |-> holds, atCall |-> content]
<1>1. job \in Job
  BY DEF Job
<1>2. job.atCall = content /\ job.keys = keys
  OBVIOUS
<1>3. job \in SoundJob
  BY <1>1, <1>2, Zenon DEF SoundJob
<1>4. queue' = Append(queue, job) /\ wallets' = wallets /\ seed' = seed
  BY DEF Enqueue
<1>5. queue' \in Seq(SoundJob)
  BY <1>3, <1>4, AppendProperties, Zenon DEF IInv
<1>6. QED
  BY <1>4, <1>5, Zenon DEF IInv, KeysOfSeed

\* A node of a seed that is there has its key.
LEMMA NodeTyped ==
  ASSUME NEW content \in {"none", "mnemonic", "zero"}, NEW a \in Account
  PROVE  /\ Node(content, a) \in Key
         /\ content # "zero" => Node(content, a).seed = "mnemonic"
BY DEF Node, Key

\* createWallet keeps the invariant.
LEMMA CreateStep == ASSUME IInv, NEW a \in Account, CreateWallet(a) PROVE IInv'
<1> DEFINE keys == <<Node(seed, a)>>
<1>1. seed \in {"none", "mnemonic", "zero"}
  BY DEF IInv
<1>2. keys \in Seq(Key) /\ DOMAIN keys = 1..1 /\ keys[1] = Node(seed, a)
  BY <1>1, NodeTyped
<1>3. \A j \in DOMAIN keys : seed # "zero" => keys[j].seed = "mnemonic"
  BY <1>1, <1>2, NodeTyped
<1>4. QED
  BY <1>1, <1>2, <1>3, EnqueueSound, Zenon DEF CreateWallet

\* deriveMultipleWallets keeps the invariant.
LEMMA DeriveStep ==
  ASSUME IInv, NEW a \in Account, NEW n \in 1..MaxCount, a + n - 1 \in Account,
         DeriveMultipleWallets(a, n)
  PROVE  IInv'
<1> DEFINE keys == [i \in 1..n |-> Node("none", a + i - 1)]
<1>1. \A i \in 1..n : a + i - 1 \in Account
  <2>1. a \in Nat /\ a + n - 1 \in Nat /\ 0..(a + n - 1) \subseteq Account
    BY DerivationConstants
  <2>2. \A i \in 1..n : a + i - 1 \in 0..(a + n - 1)
    BY <2>1, DerivationConstants
  <2>3. QED
    BY <2>1, <2>2
<1>2. \A i \in 1..n : Node("none", a + i - 1) \in Key /\ Node("none", a + i - 1).seed = "mnemonic"
  BY <1>1, NodeTyped
<1>3. keys \in Seq(Key) /\ \A j \in DOMAIN keys : keys[j].seed = "mnemonic"
  <2>1. n \in Nat
    BY DerivationConstants
  <2>2. keys \in [1..n -> Key]
    BY <1>2, Zenon
  <2>3. keys \in Seq(Key)
    BY <2>1, <2>2
  <2>4. \A j \in DOMAIN keys : keys[j].seed = "mnemonic"
    BY <1>2, Zenon
  <2>5. QED
    BY <2>3, <2>4, Zenon
<1>4. Enqueue(keys, "none", FALSE)
  BY Zenon DEF DeriveMultipleWallets
<1>5. QED
  BY <1>3, <1>4, EnqueueSound, Zenon

\* The wallets of a sound continuation are sound.
LEMMA BuiltSound ==
  ASSUME NEW job \in SoundJob, NEW i \in DOMAIN job.keys, Wallet(job, i).atCall # "zero"
  PROVE  Wallet(job, i).key.seed = "mnemonic"
<1>1. Wallet(job, i).atCall = job.atCall /\ Wallet(job, i).key = job.keys[i]
  BY DEF Wallet, Built
<1>2. QED
  BY <1>1, Zenon DEF SoundJob

\* The end of a call appends the wallets of its keys.
LEMMA FinishAppends ==
  ASSUME IInv, Finish
  PROVE  /\ Head(queue) \in SoundJob /\ queue' \in Seq(SoundJob) /\ seed' = seed
         /\ \E S : wallets' \in Seq(S)
         /\ \A i \in DOMAIN wallets' :
              \/ i \in DOMAIN wallets /\ wallets'[i] = wallets[i]
              \/ \E j \in DOMAIN Head(queue).keys : wallets'[i] = Wallet(Head(queue), j)
<1> DEFINE job == Head(queue)
           made == [i \in DOMAIN job.keys |-> Wallet(job, i)]
<1>1. job \in SoundJob /\ Tail(queue) \in Seq(SoundJob)
  BY HeadTailProperties, Zenon DEF IInv, Finish
<1>2. queue' \in Seq(SoundJob) /\ seed' = seed /\ wallets' = wallets \o made
  BY <1>1, Zenon DEF Finish
<1>3. PICK S : wallets \in Seq(S)
  BY Zenon DEF IInv
<1> DEFINE T == S \cup {Wallet(job, i) : i \in DOMAIN job.keys}
<1>4. job.keys \in Seq(Key)
  BY <1>1, SMT DEF SoundJob, Job
<1>5. made \in Seq(T) /\ Len(made) = Len(job.keys)
  <2>1. DOMAIN job.keys = 1..Len(job.keys) /\ Len(job.keys) \in Nat
    BY <1>4
  <2>2. made \in [1..Len(job.keys) -> T]
    BY <2>1, Zenon
  <2>3. QED
    BY <2>1, <2>2
<1>6. wallets \in Seq(T)
  BY <1>3, SeqMonotonic, Zenon
<1>7. /\ wallets' \in Seq(T)
      /\ Len(wallets') = Len(wallets) + Len(made)
      /\ \A i \in 1..Len(wallets) + Len(made) :
           wallets'[i] = IF i <= Len(wallets) THEN wallets[i] ELSE made[i - Len(wallets)]
  <2> HIDE DEF job, made, T
  <2> DEFINE longer == wallets \o made
  <2>1. /\ longer \in Seq(T)
        /\ Len(longer) = Len(wallets) + Len(made)
        /\ \A i \in 1..Len(wallets) + Len(made) :
             longer[i] = IF i <= Len(wallets) THEN wallets[i] ELSE made[i - Len(wallets)]
    <3>1. wallets \in Seq(T) /\ made \in Seq(T)
      BY <1>5, <1>6
    <3>2. QED
      BY <3>1, ConcatProperties
  <2> HIDE DEF longer
  <2>2. wallets' = longer
    BY <1>2 DEF longer
  <2>3. QED
    BY <2>1, <2>2, Zenon
<1>8. ASSUME NEW i \in DOMAIN wallets'
      PROVE  \/ i \in DOMAIN wallets /\ wallets'[i] = wallets[i]
             \/ \E j \in DOMAIN job.keys : wallets'[i] = Wallet(job, j)
  <2>1. Len(wallets) \in Nat /\ Len(made) \in Nat /\ DOMAIN wallets = 1..Len(wallets)
        /\ DOMAIN made = 1..Len(made) /\ DOMAIN wallets' = 1..Len(wallets')
    BY <1>5, <1>6, <1>7
  <2>2. i \in 1..Len(wallets) + Len(made)
    BY <1>7, <2>1
  <2>3. CASE i <= Len(wallets)
    BY <1>7, <2>1, <2>2, <2>3
  <2>4. CASE ~(i <= Len(wallets))
    <3>1. i - Len(wallets) \in DOMAIN made
      BY <2>1, <2>2, <2>4
    <3>2. wallets'[i] = made[i - Len(wallets)]
      BY <1>7, <2>2, <2>4, Zenon
    <3>3. QED
      BY <3>1, <3>2, Zenon
  <2>5. QED
    BY <2>3, <2>4, Zenon
<1>9. QED
  BY <1>1, <1>2, <1>7, <1>8, Zenon

\* The end of a call keeps the invariant.
LEMMA FinishStep == ASSUME IInv, Finish PROVE IInv'
<1>1. ASSUME NEW i \in DOMAIN wallets', wallets'[i].atCall # "zero"
      PROVE  wallets'[i].key.seed = "mnemonic"
  <2>1. CASE i \in DOMAIN wallets /\ wallets'[i] = wallets[i]
    BY <1>1, <2>1, Zenon DEF IInv, KeysOfSeed
  <2>2. ASSUME NEW j \in DOMAIN Head(queue).keys, wallets'[i] = Wallet(Head(queue), j)
        PROVE  wallets'[i].key.seed = "mnemonic"
    BY <1>1, <2>2, FinishAppends, BuiltSound, Zenon
  <2>3. QED
    BY <2>1, <2>2, FinishAppends, Zenon
<1>2. KeysOfSeed'
  BY <1>1, Zenon DEF KeysOfSeed
<1>3. QED
  BY <1>2, FinishAppends, Zenon DEF IInv

\* The invariant holds at first.
LEMMA InitSound == Init => IInv
<1> SUFFICES ASSUME Init PROVE IInv
  OBVIOUS
<1>1. queue = <<>> /\ wallets = <<>> /\ seed \in {"none", "mnemonic"}
  BY Zenon DEF Init
<1>2. queue \in Seq(SoundJob) /\ wallets \in Seq({})
  BY <1>1, EmptySeq
<1>3. KeysOfSeed
  BY <1>1 DEF KeysOfSeed
<1>4. QED
  BY <1>1, <1>2, <1>3, Zenon DEF IInv

\* Every step keeps it.
LEMMA StepSound == IInv /\ [Next]_vars => IInv'
<1> SUFFICES ASSUME IInv, [Next]_vars PROVE IInv'
  OBVIOUS
<1>1. ASSUME NEW a \in Account, CreateWallet(a) PROVE IInv'
  BY <1>1, CreateStep
<1>2. ASSUME NEW a \in Account, NEW n \in 1..MaxCount, a + n - 1 \in Account,
             DeriveMultipleWallets(a, n)
      PROVE  IInv'
  BY <1>2, DeriveStep
<1>3. CASE Finish
  BY <1>3, FinishStep
<1>4. ASSUME NEW i \in DOMAIN wallets, SecureClear(i) PROVE IInv'
  <2>1. queue' = queue /\ wallets' = wallets /\ seed' \in {"none", "mnemonic", "zero"}
    BY <1>4, Zenon DEF SecureClear, IInv
  <2>2. QED
    BY <2>1, Zenon DEF IInv, KeysOfSeed
<1>5. CASE UNCHANGED vars
  <2>1. queue' = queue /\ wallets' = wallets /\ seed' = seed
    BY <1>5 DEF vars
  <2>2. QED
    BY <2>1, Zenon DEF IInv, KeysOfSeed
<1>6. QED
  BY <1>1, <1>2, <1>3, <1>4, <1>5, Zenon DEF Next

\* A wallet whose seed was there at its call has the key of that seed, whatever wallets are
\* cleared and calls overlap until it is returned (wallet-factory.ts:135-143, 405).
THEOREM KeysSound == Spec => []KeysOfSeed
<1>1. IInv => KeysOfSeed
  BY DEF IInv
<1>2. QED
  BY <1>1, InitSound, StepSound, PTL DEF Spec

-----------------------------------------------------------------------------
(* Both derivations of an account *)

\* The array of the options as it stands, or turned round.
Ways == {hashTypes, Reverse(hashTypes)}

\* The address and the identifier of a wallet come from its key and the array.
MadeOf(w, ways) ==
  /\ w.key \in Key /\ w.list \in ways /\ w.address = HashChain(w.list, w.key)
  /\ \E p \in ways : w.publicKey = Identifier(p, w.key)

WaysInv ==
  /\ hashTypes \in Seq(Hash)
  /\ \A i \in DOMAIN wallets : MadeOf(wallets[i], Ways)

\* Turning a list round twice restores it.
LEMMA ReverseTwice ==
  ASSUME NEW list \in Seq(Hash)
  PROVE  Reverse(list) \in Seq(Hash) /\ Reverse(Reverse(list)) = list
<1> DEFINE turned == [i \in 1..Len(list) |-> list[Len(list) - i + 1]]
<1>1. Len(list) \in Nat /\ list \in [1..Len(list) -> Hash]
  OBVIOUS
<1>2. \A i \in 1..Len(list) : Len(list) - i + 1 \in 1..Len(list)
  BY <1>1
<1>3. turned \in [1..Len(list) -> Hash]
  BY <1>1, <1>2
<1>4. turned \in Seq(Hash) /\ Len(turned) = Len(list)
  BY <1>1, <1>3
<1>5. Reverse(list) = turned
  BY Zenon DEF Reverse
<1>6. \A i \in 1..Len(list) : turned[Len(list) - i + 1] = list[i]
  <2> SUFFICES ASSUME NEW i \in 1..Len(list) PROVE turned[Len(list) - i + 1] = list[i]
    OBVIOUS
  <2>1. turned[Len(list) - i + 1] = list[Len(list) - (Len(list) - i + 1) + 1]
    BY <1>2, Zenon
  <2>2. Len(list) - (Len(list) - i + 1) + 1 = i
    BY <1>1
  <2>3. QED
    BY <2>1, <2>2
<1> HIDE DEF turned
<1>7. Reverse(turned) = [i \in 1..Len(list) |-> turned[Len(list) - i + 1]]
  BY <1>4, Zenon DEF Reverse
<1>8. [i \in 1..Len(list) |-> turned[Len(list) - i + 1]] = list
  <2>1. [i \in 1..Len(list) |-> turned[Len(list) - i + 1]] = [i \in 1..Len(list) |-> list[i]]
    BY <1>6, Zenon
  <2>2. [i \in 1..Len(list) |-> list[i]] = list
    BY <1>1, Zenon
  <2>3. QED
    BY <2>1, <2>2, Zenon
<1>9. QED
  BY <1>4, <1>5, <1>7, <1>8, Zenon

\* The wallets and the array stay among the two ways.
LEMMA WaysStep == IInv /\ WaysInv /\ [Next]_vars => WaysInv'
<1> SUFFICES ASSUME IInv, WaysInv, [Next]_vars PROVE WaysInv'
  OBVIOUS
<1>1. CASE UNCHANGED <<hashTypes, wallets>>
  <2>1. hashTypes' = hashTypes /\ wallets' = wallets
    BY <1>1
  <2>2. Ways' = Ways
    BY <2>1, Zenon DEF Ways
  <2>3. QED
    BY <2>1, <2>2, Zenon DEF WaysInv
<1>2. CASE Finish
  <2>1. hashTypes' \in Ways
    BY <1>2, Zenon DEF Finish, Turned, Ways
  <2>2. hashTypes \in Seq(Hash)
    BY DEF WaysInv
  <2>3. Ways' = Ways /\ hashTypes' \in Seq(Hash)
    <3>1. Reverse(Reverse(hashTypes)) = hashTypes /\ Reverse(hashTypes) \in Seq(Hash)
      BY <2>2, ReverseTwice, Zenon
    <3>2. CASE hashTypes' = hashTypes
      BY <2>2, <3>2, Zenon DEF Ways
    <3>3. CASE hashTypes' = Reverse(hashTypes)
      <4>1. Ways' = {Reverse(hashTypes), hashTypes}
        BY <3>1, <3>3, Zenon DEF Ways
      <4>2. QED
        BY <3>1, <3>3, <4>1 DEF Ways
    <3>4. QED
      BY <2>1, <3>2, <3>3, Zenon DEF Ways
  <2>4. ASSUME NEW i \in DOMAIN wallets' PROVE MadeOf(wallets'[i], Ways)
    <3>1. CASE i \in DOMAIN wallets /\ wallets'[i] = wallets[i]
      BY <3>1, Zenon DEF WaysInv
    <3>2. ASSUME NEW j \in DOMAIN Head(queue).keys, wallets'[i] = Wallet(Head(queue), j)
          PROVE  MadeOf(wallets'[i], Ways)
      <4> DEFINE w == Wallet(Head(queue), j)
      <4>1. /\ w.key = Head(queue).keys[j] /\ w.list = Turned(j - 1)
            /\ w.address = HashChain(Turned(j - 1), w.key)
            /\ w.publicKey = Identifier(Turned(j), w.key)
        BY Zenon DEF Wallet, Built
      <4>2. Head(queue).keys[j] \in Key
        <5>1. Head(queue).keys \in Seq(Key)
          BY <1>2, FinishAppends, SMT DEF SoundJob, Job
        <5>2. QED
          BY <5>1
      <4>3. \A n : Turned(n) \in Ways
        BY Zenon DEF Turned, Ways
      <4> HIDE DEF w
      <4>4. MadeOf(w, Ways)
        BY <4>1, <4>2, <4>3, Zenon DEF MadeOf
      <4>5. QED
        BY <3>2, <4>4, Zenon DEF w
    <3>3. QED
      BY <1>2, <3>1, <3>2, FinishAppends, Zenon
  <2>5. QED
    BY <2>3, <2>4, Zenon DEF WaysInv
<1>3. QED
  BY <1>1, <1>2 DEF Next, vars, CreateWallet, DeriveMultipleWallets, Enqueue, SecureClear

\* Two wallets of one account agree when the array is the same both ways round.
LEMMA WaysAgree == KeysOfSeed /\ WaysInv => DerivationsAgree
<1> SUFFICES ASSUME KeysOfSeed, WaysInv, NEW i \in DOMAIN wallets, NEW j \in DOMAIN wallets,
                    wallets[i].key.account = wallets[j].key.account,
                    Reverse(wallets[i].list) = wallets[i].list,
                    "zero" \notin {wallets[i].atCall, wallets[j].atCall}
             PROVE  /\ wallets[i].address = wallets[j].address
                    /\ wallets[i].publicKey = wallets[j].publicKey
  BY Zenon DEF DerivationsAgree
<1> DEFINE v == wallets[i]
           w == wallets[j]
<1>1. MadeOf(v, Ways) /\ MadeOf(w, Ways) /\ hashTypes \in Seq(Hash)
  BY Zenon DEF WaysInv
<1>2. v.atCall # "zero" /\ w.atCall # "zero"
  OBVIOUS
<1>3. v.key.seed = "mnemonic" /\ w.key.seed = "mnemonic"
  BY <1>2, Zenon DEF KeysOfSeed
<1>4. v.key = w.key
  <2>1. v.key \in Key /\ w.key \in Key
    BY <1>1, Zenon DEF MadeOf
  <2>2. \A k, l \in Key : k.seed = l.seed /\ k.account = l.account => k = l
    BY SMT DEF Key
  <2>3. QED
    BY <1>3, <2>1, <2>2, Zenon
<1>5. \A p \in Ways : p = v.list
  <2>1. Reverse(Reverse(hashTypes)) = hashTypes
    BY <1>1, ReverseTwice, Zenon
  <2>2. v.list = hashTypes \/ v.list = Reverse(hashTypes)
    BY <1>1, Zenon DEF MadeOf, Ways
  <2>3. Reverse(v.list) = v.list
    OBVIOUS
  <2>4. hashTypes = Reverse(hashTypes)
    BY <2>1, <2>2, <2>3, Zenon
  <2>5. QED
    BY <2>2, <2>4, Zenon DEF Ways
<1> HIDE DEF v, w
<1>6. v.address = w.address
  BY <1>1, <1>4, <1>5, Zenon DEF MadeOf
<1>7. v.publicKey = w.publicKey
  BY <1>1, <1>4, <1>5, Zenon DEF MadeOf
<1>8. QED
  BY <1>6, <1>7, Zenon DEF v, w

-----------------------------------------------------------------------------
(* An identifier, read back *)

LessThan == {pair \in Nat \X Nat : pair[1] < pair[2]}

\* A nonempty set of natural numbers has a least one.
LEMMA Least ==
  ASSUME NEW s \in SUBSET Nat, s # {}
  PROVE  \E x \in s : \A y \in s : x <= y
<1>1. IsWellFoundedOn(LessThan, Nat)
  BY NatLessThanWellFounded, Zenon DEF OpToRel, LessThan
<1>2. PICK x \in s : \A y \in s : ~(<<y, x>> \in LessThan)
  BY <1>1, WFMin
<1>3. ASSUME NEW y \in s PROVE x <= y
  <2>1. ~(<<y, x>> \in LessThan)
    BY <1>2
  <2>2. ~(y < x)
    BY <2>1 DEF LessThan
  <2>3. QED
    BY <2>2
<1>4. QED
  BY <1>3

Count(list, hashes) == Cardinality({i \in DOMAIN list : list[i] \in hashes})

\* A list has as many of a hash whichever way round it is.
LEMMA CountTurned ==
  ASSUME NEW list \in Seq(Hash), NEW hashes
  PROVE  Count(Reverse(list), hashes) = Count(list, hashes)
<1> DEFINE n == Len(list)
           turned == Reverse(list)
           A == {i \in 1..n : list[i] \in hashes}
           B == {i \in 1..n : turned[i] \in hashes}
           f == [i \in A |-> n - i + 1]
<1>1. n \in Nat /\ DOMAIN list = 1..n
  OBVIOUS
<1>2. turned = [i \in 1..n |-> list[n - i + 1]]
  BY Zenon DEF Reverse
<1>3. DOMAIN turned = 1..n /\ \A i \in 1..n : turned[i] = list[n - i + 1]
  BY <1>2
<1> HIDE DEF n, turned
<1>4. \A i \in 1..n : n - i + 1 \in 1..n /\ n - (n - i + 1) + 1 = i
  BY <1>1
<1>5. f \in Bijection(A, B)
  <2>1. f \in [A -> B]
    BY <1>3, <1>4
  <2>2. \A a, b \in A : f[a] = f[b] => a = b
    BY <1>1
  <2>3. \A t \in B : \E a \in A : f[a] = t
    <3> SUFFICES ASSUME NEW t \in B PROVE n - t + 1 \in A /\ f[n - t + 1] = t
      OBVIOUS
    <3>1. n - t + 1 \in A
      BY <1>3, <1>4
    <3>2. QED
      BY <1>4, <3>1
  <2> HIDE DEF f
  <2>4. QED
    BY <2>1, <2>2, <2>3 DEF Bijection, Injection, Surjection, IsInjective
<1>6. IsFiniteSet(A)
  BY <1>1, FS_Interval, FS_Subset
<1> HIDE DEF f
<1>7. Cardinality(A) = Cardinality(B)
  BY <1>5, <1>6, FS_Bijection DEF ExistsBijection
<1>8. QED
  BY <1>1, <1>3, <1>7 DEF Count, n, turned

\* Sorting a list gives the same whichever way round it was.
LEMMA SortedTurned ==
  ASSUME NEW list \in Seq(Hash)
  PROVE  Sorted(Reverse(list)) = Sorted(list)
<1>1. Len(Reverse(list)) = Len(list)
  <2>1. Reverse(list) = [i \in 1..Len(list) |-> list[Len(list) - i + 1]]
    BY Zenon DEF Reverse
  <2>2. QED
    BY <2>1
<1>2. \A s : Sorted(s) = [i \in 1..Len(s) |-> IF i <= Count(s, {"c"}) THEN "c"
                                    ELSE IF i <= Count(s, {"c", "a"}) THEN "a" ELSE "b"]
  BY Zenon DEF Sorted, Count
<1>3. /\ Count(Reverse(list), {"c"}) = Count(list, {"c"})
      /\ Count(Reverse(list), {"c", "a"}) = Count(list, {"c", "a"})
  BY CountTurned
<1>4. QED
  BY <1>1, <1>2, <1>3, Zenon

Letter == STRING \cup Hash \cup {"A", "B", "_", "r", "s", "g", "o", "v"}

\* The letters of an identifier, and where they stand.
LEMMA IdentifierParts ==
  ASSUME NEW list \in Seq(Hash), NEW key \in Key, list = Sorted(list)
  PROVE  LET id == Identifier(list, key)
             n == Len(list)
             text == Text[key]
         IN  /\ text \in Seq(Letter)
             /\ id \in Seq(Letter) /\ Len(id) = 2 * n + 2 + Len(text)
             /\ id[2] = "_"
             /\ \A i \in 1..n : id[2 * i + 1] = list[i] /\ id[2 * i + 2] = "_"
             /\ \A i \in 1..Len(text) : id[2 * n + 2 + i] = text[i]
<1> DEFINE id == Identifier(list, key)
           n == Len(list)
           text == Text[key]
           p == HashPrefixes(list)
           head == <<"A", "_">>
           front == head \o p
<1>1. id = front \o text
  BY Zenon DEF Identifier
<1>2. n \in Nat /\ \A i \in 1..n : list[i] \in Hash
  OBVIOUS
<1>3. p = [i \in 1..2 * n |-> IF i % 2 = 1 THEN list[(i + 1) \div 2] ELSE "_"]
  BY Zenon DEF HashPrefixes
<1> HIDE DEF n, p
<1>4. p \in Seq(Letter) /\ Len(p) = 2 * n
  <2>1. 2 * n \in Nat
    BY <1>2
  <2>2. ASSUME NEW i \in 1..2 * n
        PROVE  (IF i % 2 = 1 THEN list[(i + 1) \div 2] ELSE "_") \in Letter
    <3>1. CASE i % 2 = 1
      <4>1. (i + 1) \div 2 \in 1..n
        BY <1>2, <3>1
      <4>2. list[(i + 1) \div 2] \in Hash
        BY <1>2, <4>1
      <4>3. QED
        BY <3>1, <4>2 DEF Letter
    <3>2. CASE i % 2 # 1
      BY <3>2 DEF Letter
    <3>3. QED
      BY <3>1, <3>2
  <2>3. p \in [1..2 * n -> Letter]
    BY <1>3, <2>2
  <2>4. QED
    BY <2>1, <2>3, SeqDef
<1>5. \A i \in 1..n : p[2 * i - 1] = list[i] /\ p[2 * i] = "_"
  <2> SUFFICES ASSUME NEW i \in 1..n PROVE p[2 * i - 1] = list[i] /\ p[2 * i] = "_"
    OBVIOUS
  <2>1. /\ 2 * i - 1 \in 1..2 * n /\ 2 * i \in 1..2 * n
        /\ (2 * i - 1) % 2 = 1 /\ (2 * i) % 2 # 1 /\ (2 * i - 1 + 1) \div 2 = i
    BY <1>2
  <2>2. QED
    BY <1>3, <2>1
<1>6. text \in Seq(Letter)
  <2>1. text \in Seq(STRING)
    BY TextAssumption
  <2>2. Len(text) \in Nat /\ text = [i \in 1..Len(text) |-> text[i]]
    BY <2>1
  <2>3. \A i \in 1..Len(text) : text[i] \in Letter
    BY <2>1, ElementOfSeq DEF Letter
  <2> HIDE DEF text
  <2>4. text \in [1..Len(text) -> Letter]
    BY <2>2, <2>3
  <2>5. QED
    BY <2>2, <2>4, SeqDef
<1>7. head \in Seq(Letter) /\ Len(head) = 2 /\ head[2] = "_"
  BY DEF Letter
<1> HIDE DEF head, text
<1>8. /\ front \in Seq(Letter) /\ Len(front) = 2 + 2 * n
      /\ \A i \in 1..2 + 2 * n : front[i] = IF i <= 2 THEN head[i] ELSE p[i - 2]
  <2>1. /\ front \in Seq(Letter) /\ Len(front) = Len(head) + Len(p)
        /\ \A i \in 1..Len(head) + Len(p) :
             front[i] = IF i <= Len(head) THEN head[i] ELSE p[i - Len(head)]
    BY <1>4, <1>7, ConcatProperties, Zenon
  <2> HIDE DEF front
  <2>2. QED
    BY <1>2, <1>4, <1>7, <2>1
<1> HIDE DEF front
<1>9. /\ id \in Seq(Letter) /\ Len(id) = 2 + 2 * n + Len(text)
      /\ \A i \in 1..2 + 2 * n + Len(text) :
           id[i] = IF i <= 2 + 2 * n THEN front[i] ELSE text[i - (2 + 2 * n)]
  BY <1>1, <1>6, <1>8, ConcatProperties
<1>10. Len(text) \in Nat
  BY <1>6
<1> HIDE DEF id
<1>11. id[2] = "_"
  <2>1. 2 \in 1..2 + 2 * n + Len(text) /\ 2 \in 1..2 + 2 * n /\ 2 <= 2 + 2 * n
    BY <1>2, <1>10
  <2>2. id[2] = front[2]
    BY <1>9, <2>1
  <2>3. front[2] = head[2]
    BY <1>8, <2>1
  <2>4. QED
    BY <1>7, <2>2, <2>3
<1>12. ASSUME NEW i \in 1..n PROVE id[2 * i + 1] = list[i] /\ id[2 * i + 2] = "_"
  <2> DEFINE a == 2 * i + 1
             b == 2 * i + 2
  <2>1. /\ a \in 1..2 + 2 * n + Len(text) /\ b \in 1..2 + 2 * n + Len(text)
        /\ a \in 1..2 + 2 * n /\ b \in 1..2 + 2 * n /\ a > 2 /\ b > 2
        /\ a - 2 = 2 * i - 1 /\ b - 2 = 2 * i
    BY <1>2, <1>10
  <2> HIDE DEF a, b
  <2>2. id[a] = p[a - 2] /\ id[b] = p[b - 2]
    BY <1>8, <1>9, <2>1
  <2>3. id[a] = list[i] /\ id[b] = "_"
    BY <1>5, <2>1, <2>2
  <2>4. QED
    BY <2>3 DEF a, b
<1>13. ASSUME NEW i \in 1..Len(text) PROVE id[2 * n + 2 + i] = text[i]
  <2> DEFINE a == 2 * n + 2 + i
  <2>1. a \in 1..2 + 2 * n + Len(text) /\ ~(a <= 2 + 2 * n) /\ a - (2 + 2 * n) = i
    BY <1>2, <1>10
  <2> HIDE DEF a
  <2>2. id[a] = text[i]
    BY <1>9, <2>1
  <2>3. QED
    BY <2>2 DEF a
<1>14. Len(id) = 2 * n + 2 + Len(text)
  BY <1>2, <1>9, <1>10
<1>15. QED
  BY <1>6, <1>9, <1>11, <1>12, <1>13, <1>14 DEF id, n, text

\* The place behind a letter of a hash type.
After(id, i) == IF At(id, i + 2, "_") THEN i + 3 ELSE i + 2

\* The types from a place on, by those from later places on.
TypesBy(id, types, i) ==
  IF i <= Len(id) /\ id[i] \in Hash THEN <<id[i]>> \o types[After(id, i)] ELSE <<>>

\* The function of TypesFrom exists: it can be extended towards the front, so the least place
\* from which on it exists is the first.
LEMMA TypesEquation ==
  ASSUME NEW id \in Seq(Letter)
  PROVE  TypesFrom(id) = [i \in Nat |-> TypesBy(id, TypesFrom(id), i)]
<1> DEFINE Rest(n) == {i \in Nat : i >= n}
           Good == {n \in Nat : \E types : types = [i \in Rest(n) |-> TypesBy(id, types, i)]}
<1>1. Len(id) \in Nat
  OBVIOUS
<1>2. Len(id) + 1 \in Good
  <2> DEFINE f == [i \in Rest(Len(id) + 1) |-> <<>>]
  <2>1. f = [i \in Rest(Len(id) + 1) |-> TypesBy(id, f, i)]
    BY <1>1 DEF TypesBy
  <2>2. Len(id) + 1 \in Nat
    BY <1>1
  <2> HIDE DEF f
  <2>3. QED
    BY <2>1, <2>2
<1>3. ASSUME NEW n \in Nat, n + 1 \in Good PROVE n \in Good
  <2>1. PICK g : g = [i \in Rest(n + 1) |-> TypesBy(id, g, i)]
    BY <1>3
  <2> DEFINE f == [i \in Rest(n) |-> TypesBy(id, g, i)]
  <2>2. ASSUME NEW i \in Rest(n) PROVE TypesBy(id, f, i) = TypesBy(id, g, i)
    <3>1. After(id, i) \in Rest(n + 1) /\ After(id, i) \in Rest(n)
      <4>1. After(id, i) = i + 3 \/ After(id, i) = i + 2
        BY Zenon DEF After
      <4>2. QED
        BY <4>1
    <3>2. f[After(id, i)] = g[After(id, i)]
      BY <2>1, <3>1, Zenon
    <3> HIDE DEF f
    <3>3. QED
      BY <3>2, Zenon DEF TypesBy
  <2>3. f = [i \in Rest(n) |-> TypesBy(id, f, i)]
    <3>1. [i \in Rest(n) |-> TypesBy(id, f, i)] = [i \in Rest(n) |-> TypesBy(id, g, i)]
      BY <2>2, Zenon
    <3>2. QED
      BY <3>1, Zenon
  <2> HIDE DEF f
  <2>4. QED
    BY <2>3, Zenon
<1> HIDE DEF Rest, Good
<1>4. 0 \in Good
  <2>1. Good \subseteq Nat
    BY DEF Good
  <2>2. PICK n \in Good : \A m \in Good : n <= m
    BY <1>2, <2>1, Least
  <2>3. ASSUME n # 0 PROVE FALSE
    <3>1. n - 1 \in Nat /\ n - 1 + 1 = n
      BY <2>1, <2>3
    <3>2. n - 1 \in Good
      BY <1>3, <2>2, <3>1
    <3>3. QED
      BY <2>1, <2>2, <3>2
  <2>4. QED
    BY <2>2, <2>3
<1>5. \E types : types = [i \in Nat |-> TypesBy(id, types, i)]
  <2>1. Rest(0) = Nat
    BY DEF Rest
  <2>2. QED
    BY <1>4, <2>1, Zenon DEF Good
<1>6. TypesFrom(id) = CHOOSE types : types = [i \in Nat |-> TypesBy(id, types, i)]
  BY Zenon DEF TypesFrom, TypesBy, After
<1>7. QED
  BY <1>5, <1>6, Zenon

\* The hash types read from letters are those that stand there one by one, each with an underscore
\* behind it, if what follows is no letter of a hash type.
LEMMA LettersRead ==
  ASSUME NEW id \in Seq(Letter), NEW list \in Seq(Hash)
  PROVE  LET n == Len(list) IN
         /\ 2 * n + 3 <= Len(id) /\ id[2 * n + 3] \notin Hash /\ id[2 * n + 3] # "_"
         /\ \A i \in 1..n : id[2 * i + 1] = list[i]
         => HashTypesOf(id) = list
<1> DEFINE n == Len(list)
           f == TypesFrom(id)
           place(m) == 2 * (n - m) + 3
           rest(m) == [j \in 1..m |-> list[n - m + j]]
<1>0. SUFFICES ASSUME 2 * n + 3 <= Len(id), id[2 * n + 3] \notin Hash, id[2 * n + 3] # "_",
                      \A i \in 1..n : id[2 * i + 1] = list[i]
               PROVE  HashTypesOf(id) = list
  OBVIOUS
<1>1. \A i \in Nat : f[i] = TypesBy(id, f, i)
  BY TypesEquation, Zenon
<1>2. n \in Nat /\ list \in [1..n -> Hash] /\ Len(id) \in Nat
  OBVIOUS
<1>3. n \in Nat /\ Len(id) \in Nat
  BY <1>2
<1>4. 2 * n + 3 <= Len(id)
  BY <1>0
<1>5. id[2 * n + 3] \notin Hash /\ id[2 * n + 3] # "_" /\ \A i \in 1..n : id[2 * i + 1] = list[i]
  BY <1>0
<1> HIDE DEF n, f
<1>6. ASSUME NEW m \in 0..n
      PROVE  /\ place(m) \in Nat /\ place(m) <= Len(id) /\ id[place(m)] # "_"
             /\ m = 0 => id[place(m)] \notin Hash
             /\ m # 0 => id[place(m)] = list[n - m + 1] /\ n - m + 1 \in 1..n
  <2> DEFINE p == place(m)
  <2>1. CASE m = 0
    <3>1. p = 2 * n + 3 /\ p \in Nat /\ p <= Len(id)
      BY <1>3, <1>4, <2>1
    <3> HIDE DEF p
    <3>2. QED
      BY <1>5, <2>1, <3>1 DEF p
  <2>2. CASE m # 0
    <3> DEFINE k == n - m + 1
    <3>1. k \in 1..n /\ p = 2 * k + 1 /\ p \in Nat /\ p <= Len(id)
      BY <1>3, <1>4, <2>2
    <3> HIDE DEF p, k
    <3>2. id[p] = list[k] /\ list[k] \in Hash
      BY <1>2, <1>5, <3>1
    <3>3. list[k] # "_"
      BY <3>2 DEF Hash
    <3>4. QED
      BY <2>2, <3>1, <3>2, <3>3 DEF p, k
  <2>3. QED
    BY <2>1, <2>2
<1>7. ASSUME NEW m \in 0..n PROVE rest(m) \in Seq(Hash) /\ Len(rest(m)) = m
  <2>1. \A j \in 1..m : n - m + j \in 1..n
    BY <1>2
  <2>2. rest(m) \in [1..m -> Hash] /\ m \in Nat
    BY <1>2, <2>1
  <2>3. QED
    BY <2>2, SeqDef
<1>8. ASSUME NEW m \in 0..n,
             m # 0 => f[place(m - 1)] = rest(m - 1)
      PROVE  f[place(m)] = rest(m)
  <2> DEFINE p == place(m)
  <2>1. CASE m = 0
    <3>1. ~(p <= Len(id) /\ id[p] \in Hash) /\ p \in Nat
      BY <1>6, <2>1
    <3> HIDE DEF p
    <3>2. f[p] = <<>>
      BY <1>1, <3>1, Zenon DEF TypesBy
    <3>3. rest(m) \in Seq(Hash) /\ Len(rest(m)) = 0
      BY <1>7, <2>1
    <3> HIDE DEF rest
    <3>4. rest(m) = <<>>
      BY <3>3, EmptySeq
    <3>5. QED
      BY <3>2, <3>4 DEF p
  <2>2. CASE m # 0
    <3> DEFINE k == n - m + 1
               q == place(m - 1)
    <3>1. m - 1 \in 0..n /\ q = p + 2 /\ n - (m - 1) = k
      BY <1>2, <2>2
    <3>2. /\ p \in Nat /\ p <= Len(id) /\ id[p] = list[k] /\ k \in 1..n
          /\ q \in Nat /\ id[q] # "_"
      BY <1>6, <2>2, <3>1
    <3>3. list[k] \in Hash
      BY <1>2, <3>2
    <3> HIDE DEF p, q, place
    <3>4. After(id, p) = q
      BY <3>1, <3>2, Zenon DEF After, At
    <3>5. f[p] = <<list[k]>> \o f[q]
      <4>1. f[p] = TypesBy(id, f, p)
        BY <1>1, <3>2
      <4>2. QED
        BY <3>2, <3>3, <3>4, <4>1, Zenon DEF TypesBy
    <3>6. f[q] = rest(m - 1)
      BY <1>8, <2>2 DEF q
    <3>7. <<list[k]>> \o rest(m - 1) = rest(m)
      <4> DEFINE one == <<list[k]>>
                 tail == rest(m - 1)
                 all == rest(m)
      <4>1. one \in Seq(Hash) /\ Len(one) = 1 /\ one[1] = list[k]
        BY <3>3
      <4>2. tail \in Seq(Hash) /\ Len(tail) = m - 1 /\ all \in Seq(Hash) /\ Len(all) = m
        BY <1>7, <3>1
      <4>3. /\ \A j \in 1..m - 1 : tail[j] = list[n - (m - 1) + j]
            /\ \A j \in 1..m : all[j] = list[n - m + j]
        OBVIOUS
      <4> HIDE DEF one, tail, all, rest
      <4>4. /\ one \o tail \in Seq(Hash) /\ Len(one \o tail) = Len(one) + Len(tail)
            /\ \A j \in 1..Len(one) + Len(tail) :
                 (one \o tail)[j] = IF j <= Len(one) THEN one[j] ELSE tail[j - Len(one)]
        <5>1. one \in Seq(Hash) /\ tail \in Seq(Hash)
          BY <4>1, <4>2
        <5>2. QED
          BY <5>1, ConcatProperties, Zenon
      <4>5. Len(one \o tail) = m
        BY <4>1, <4>2, <4>4
      <4>6. ASSUME NEW j \in 1..m PROVE (one \o tail)[j] = all[j]
        <5>1. (one \o tail)[j] = IF j <= 1 THEN one[j] ELSE tail[j - 1]
          BY <4>1, <4>2, <4>4
        <5>2. CASE j = 1
          BY <4>1, <4>3, <5>1, <5>2
        <5>3. CASE j # 1
          <6>1. j - 1 \in 1..m - 1 /\ n - (m - 1) + (j - 1) = n - m + j
            BY <1>2, <5>3
          <6>2. tail[j - 1] = list[n - (m - 1) + (j - 1)]
            BY <4>3, <6>1
          <6>3. QED
            BY <4>3, <5>1, <5>3, <6>1, <6>2
        <5>4. QED
          BY <5>2, <5>3
      <4>7. one \o tail = all
        BY <4>2, <4>4, <4>5, <4>6, SeqEqual
      <4>8. QED
        BY <4>7 DEF one, tail, all
    <3>8. QED
      BY <3>5, <3>6, <3>7 DEF p
  <2>3. QED
    BY <2>1, <2>2
<1>9. \A m \in 0..n : f[place(m)] = rest(m)
  <2> DEFINE Bad == {m \in 0..n : f[place(m)] # rest(m)}
  <2>1. ASSUME Bad # {} PROVE FALSE
    <3>1. Bad \subseteq Nat
      BY <1>2
    <3>2. PICK m \in Bad : \A l \in Bad : m <= l
      BY <2>1, <3>1, Least
    <3> HIDE DEF place, rest
    <3>3. m # 0 => m - 1 \in 0..n /\ ~(m <= m - 1)
      BY <1>2, <3>2
    <3>4. m # 0 => f[place(m - 1)] = rest(m - 1)
      BY <3>2, <3>3
    <3>5. QED
      BY <1>8, <3>2, <3>4
  <2>2. QED
    BY <2>1
<1>10. f[3] = list
  <2>1. f[place(n)] = rest(n)
    <3> HIDE DEF place, rest
    <3>1. n \in 0..n
      BY <1>2
    <3>2. QED
      BY <1>9, <3>1
  <2>2. place(n) = 3
    BY <1>2
  <2>3. rest(n) = list
    <3>1. \A j \in 1..n : n - n + j = j
      BY <1>2
    <3>2. rest(n) = [j \in 1..n |-> list[j]]
      BY <3>1, Zenon
    <3>3. QED
      BY <1>2, <3>2, Zenon
  <2>4. QED
    BY <2>1, <2>2, <2>3, Zenon
<1>11. ~At(id, 3, "_")
  <2>1. place(n) = 3 /\ n \in 0..n
    BY <1>2
  <2>2. id[3] # "_"
    BY <1>6, <2>1
  <2>3. QED
    BY <2>2 DEF At
<1>12. QED
  BY <1>10, <1>11, Zenon DEF HashTypesOf, f

\* The hash types read from an identifier are those of its list, if the key does not begin like
\* one of them.
LEMMA TypesRead ==
  ASSUME NEW list \in Seq(Hash), NEW key \in Key
  PROVE  list = Sorted(list) /\ Text[key][1] \notin Hash
         => HashTypesOf(Identifier(list, key)) = list
<1>0. SUFFICES ASSUME list = Sorted(list), Text[key][1] \notin Hash
               PROVE  HashTypesOf(Identifier(list, key)) = list
  OBVIOUS
<1> DEFINE id == Identifier(list, key)
           n == Len(list)
           text == Text[key]
<1>1. /\ id \in Seq(Letter) /\ Len(id) = 2 * n + 2 + Len(text)
      /\ \A i \in 1..n : id[2 * i + 1] = list[i]
      /\ \A i \in 1..Len(text) : id[2 * n + 2 + i] = text[i]
  BY <1>0, IdentifierParts
<1>2. n \in Nat
  OBVIOUS
<1>3. Len(text) \in Nat /\ Len(text) >= 1 /\ text[1] \notin Hash /\ text[1] # "_"
  <2>1. text \in Seq(Letter) /\ text # <<>> /\ \A i \in DOMAIN text : text[i] # "_"
    BY <1>0, TextAssumption, IdentifierParts
  <2>2. text[1] \notin Hash
    BY <1>0
  <2> HIDE DEF text
  <2>3. Len(text) \in Nat /\ Len(text) # 0 /\ DOMAIN text = 1..Len(text)
    BY <2>1, LenProperties, EmptySeq
  <2>4. 1 \in 1..Len(text) /\ Len(text) >= 1
    BY <2>3
  <2>5. QED
    BY <2>1, <2>2, <2>3, <2>4
<1> HIDE DEF id, n, text
<1>4. 1 \in 1..Len(text) /\ 2 * n + 2 + 1 = 2 * n + 3 /\ 2 * n + 3 <= Len(id)
  <2>1. Len(id) = 2 * n + 2 + Len(text) /\ Len(text) \in Nat /\ Len(text) >= 1
    BY <1>1, <1>3
  <2>2. QED
    BY <1>2, <2>1
<1>5. id[2 * n + 3] = text[1]
  BY <1>1, <1>4
<1>6. QED
  BY <1>1, <1>3, <1>4, <1>5, LettersRead DEF id, n

\* The address read from an identifier is that of its list and its key.
LEMMA AddressRead ==
  ASSUME NEW list \in Seq(Hash), NEW key \in Key
  PROVE  list = Sorted(list) /\ Text[key][1] \notin Hash
         => AddressOf(Identifier(list, key)) = HashChain(list, key)
<1>0. SUFFICES ASSUME list = Sorted(list), Text[key][1] \notin Hash
               PROVE  AddressOf(Identifier(list, key)) = HashChain(list, key)
  OBVIOUS
<1> DEFINE id == Identifier(list, key)
           n == Len(list)
           text == Text[key]
           l == 2 * n + 2
           IsLast(i) == id[i] = "_" /\ \A j \in DOMAIN id : j > i => id[j] # "_"
<1>1. /\ id \in Seq(Letter) /\ Len(id) = 2 * n + 2 + Len(text) /\ id[2] = "_"
      /\ \A i \in 1..n : id[2 * i + 2] = "_"
      /\ \A i \in 1..Len(text) : id[2 * n + 2 + i] = text[i]
  BY <1>0, IdentifierParts
<1>2. n \in Nat
  OBVIOUS
<1>3. text \in Seq(Letter) /\ \A i \in DOMAIN text : text[i] # "_"
  BY <1>0, TextAssumption, IdentifierParts
<1> HIDE DEF id, n, text
<1>4. Len(text) \in Nat /\ DOMAIN text = 1..Len(text) /\ DOMAIN id = 1..Len(id)
  BY <1>1, <1>3, LenProperties
<1>5. Len(id) = 2 * n + 2 + Len(text) /\ Len(id) \in Nat
  BY <1>1, LenProperties
<1>6. l \in DOMAIN id /\ id[l] = "_"
  <2>1. l \in 1..Len(id)
    BY <1>2, <1>4, <1>5
  <2>2. CASE n = 0
    <3>1. l = 2
      BY <2>2
    <3>2. QED
      BY <1>1, <1>4, <2>1, <3>1
  <2>3. CASE n # 0
    <3>1. n \in 1..n
      BY <1>2, <2>3
    <3>2. QED
      BY <1>1, <1>4, <2>1, <3>1
  <2>4. QED
    BY <2>2, <2>3
<1>7. ASSUME NEW j \in DOMAIN id, j > l PROVE id[j] # "_"
  <2> DEFINE i == j - l
  <2>1. i \in 1..Len(text) /\ j = 2 * n + 2 + i
    BY <1>2, <1>4, <1>5, <1>7
  <2> HIDE DEF i
  <2>2. id[j] = text[i]
    BY <1>1, <2>1
  <2>3. QED
    BY <1>3, <1>4, <2>1, <2>2
<1>8. \A i \in DOMAIN id : IsLast(i) <=> i = l
  <2>1. l \in Nat /\ DOMAIN id \subseteq Nat
    BY <1>2, <1>4
  <2> HIDE DEF l
  <2>2. ASSUME NEW i \in DOMAIN id, IsLast(i) PROVE i = l
    <3>1. ~(l > i)
      BY <1>6, <2>2
    <3>2. ~(i > l)
      BY <1>7, <2>2
    <3>3. QED
      BY <2>1, <3>1, <3>2
  <2>3. IsLast(l)
    BY <1>6, <1>7
  <2>4. QED
    BY <2>2, <2>3
<1>9. (CHOOSE i \in DOMAIN id : IsLast(i)) = l
  <2> HIDE DEF IsLast, l
  <2>1. QED
    BY <1>6, <1>8
<1>10. SubSeq(id, l + 1, Len(id)) = text
  <2> DEFINE a == l + 1
             b == Len(id)
  <2>1. a \in Int /\ b \in Int /\ a \in Nat /\ a >= 1 /\ b - a + 1 = Len(text)
        /\ (a <= b \/ Len(text) = 0)
    BY <1>2, <1>4, <1>5
  <2>2. \A i \in 1..Len(text) : a + i - 1 = 2 * n + 2 + i
    BY <1>2
  <2> HIDE DEF a, b, l
  <2>3. \A i \in a..b : i \in 1..Len(id)
    BY <2>1 DEF b
  <2>4. \A i \in a..b : id[i] \in Letter
    BY <1>1, <2>3, ElementOfSeq
  <2>5. /\ SubSeq(id, a, b) \in Seq(Letter)
        /\ Len(SubSeq(id, a, b)) = IF a <= b THEN b - a + 1 ELSE 0
        /\ \A i \in 1..b - a + 1 : SubSeq(id, a, b)[i] = id[a + i - 1]
    BY <2>1, <2>4, SubSeqProperties
  <2> DEFINE s == SubSeq(id, a, b)
  <2>6. s \in Seq(Letter) /\ Len(s) = Len(text)
    BY <1>4, <2>1, <2>5
  <2>7. \A i \in 1..Len(text) : s[i] = text[i]
    BY <1>1, <2>1, <2>2, <2>5
  <2> HIDE DEF s
  <2>8. s = text
    BY <1>3, <2>6, <2>7, SeqEqual
  <2>9. QED
    BY <2>8 DEF s, a, b
<1>11. (CHOOSE k \in Key : Text[k] = text) = key
  <2>1. \A k \in Key : Text[k] = text <=> k = key
    BY DerivationConstants DEF text
  <2>2. QED
    BY <2>1
<1>12. HashTypesOf(id) = list
  BY <1>0, TypesRead DEF id
<1>13. AddressOf(id) = HashChain(HashTypesOf(id), key)
  <2>1. AddressOf(id) = HashChain(HashTypesOf(id), CHOOSE k \in Key :
          Text[k] = SubSeq(id, (CHOOSE i \in DOMAIN id : IsLast(i)) + 1, Len(id)))
    BY Zenon DEF AddressOf
  <2> HIDE DEF IsLast
  <2>2. QED
    BY <1>9, <1>10, <1>11, <2>1, Zenon
<1>14. QED
  BY <1>12, <1>13 DEF id

\* The address of a wallet is read from its identifier, which sorts the list either way round.
LEMMA WaysParse == WaysInv => IdentifierParses
<1> SUFFICES ASSUME WaysInv, NEW i \in DOMAIN wallets,
                    wallets[i].list = Sorted(wallets[i].list),
                    Text[wallets[i].key][1] \notin Hash
             PROVE  AddressOf(wallets[i].publicKey) = wallets[i].address
  BY Zenon DEF IdentifierParses
<1> DEFINE w == wallets[i]
<1>1. MadeOf(w, Ways) /\ hashTypes \in Seq(Hash)
  BY Zenon DEF WaysInv
<1>2. PICK p \in Ways : w.publicKey = Identifier(p, w.key)
  BY <1>1, Zenon DEF MadeOf
<1>3. /\ w.key \in Key /\ w.address = HashChain(w.list, w.key)
      /\ w.list = hashTypes \/ w.list = Reverse(hashTypes)
  BY <1>1, Zenon DEF MadeOf, Ways
<1>4. Sorted(Reverse(hashTypes)) = Sorted(hashTypes) /\ Reverse(hashTypes) \in Seq(Hash)
  BY <1>1, SortedTurned, ReverseTwice
<1>5. Sorted(p) = Sorted(w.list) /\ w.list \in Seq(Hash)
  BY <1>1, <1>2, <1>3, <1>4, Zenon DEF Ways
<1>6. Identifier(p, w.key) = Identifier(w.list, w.key)
  BY <1>5, Zenon DEF Identifier
<1>7. w.list = Sorted(w.list) /\ Text[w.key][1] \notin Hash
  OBVIOUS
<1> HIDE DEF w
<1>8. QED
  BY <1>2, <1>3, <1>5, <1>6, <1>7, AddressRead DEF w

\* One wallet has one address: createWallet and deriveMultipleWallets give one account one address
\* and one identifier, for every list which is the same both ways round, however their calls
\* overlap; and the address is read back from the identifier, for every sorted list and every key
\* that does not begin like a hash type (generateAddressFromPublicKey).
THEOREM OneAddress == Spec => []AddressesAgree
<1>1. Init => WaysInv
  <2> SUFFICES ASSUME Init PROVE WaysInv
    OBVIOUS
  <2>1. hashTypes \in Seq(Hash)
    BY DerivationConstants DEF Init
  <2>2. DOMAIN wallets = {}
    BY DEF Init
  <2>3. QED
    BY <2>1, <2>2, Zenon DEF WaysInv
<1>2. IInv => KeysOfSeed
  BY DEF IInv
<1>3. KeysOfSeed /\ WaysInv => AddressesAgree
  BY WaysAgree, WaysParse DEF AddressesAgree
<1>4. QED
  BY <1>1, <1>2, <1>3, InitSound, StepSound, WaysStep, PTL DEF Spec

-----------------------------------------------------------------------------
(* Exchange: prefixes and key types *)

\* A prefix is shorter and agrees letter by letter.
LEMMA PrefixMeans ==
  ASSUME NEW S, NEW s \in Seq(S), NEW t \in Seq(S)
  PROVE  Ex!IsPrefix(s, t) <=> Len(s) <= Len(t) /\ \A i \in 1..Len(s) : s[i] = t[i]
<1>1. Len(s) \in Nat /\ Len(t) \in Nat
  BY LenProperties
<1>2. SubSeq(s, 1, Len(s)) = s
  BY SubSeqFull
<1>3. ASSUME Len(s) <= Len(t)
      PROVE  s = SubSeq(t, 1, Len(s)) <=> \A i \in 1..Len(s) : s[i] = t[i]
  <2> DEFINE n == Len(s)
             u == SubSeq(t, 1, n)
  <2>1. \A i \in 1..n : t[i] \in S
    BY <1>1, <1>3, ElementOfSeq
  <2>2. u \in Seq(S) /\ Len(u) = n /\ \A i \in 1..n : u[i] = t[i]
    <3> HIDE DEF n
    <3>1. /\ SubSeq(t, 1, n) \in Seq(S)
          /\ Len(SubSeq(t, 1, n)) = IF 1 <= n THEN n - 1 + 1 ELSE 0
          /\ \A i \in 1..n - 1 + 1 : SubSeq(t, 1, n)[i] = t[1 + i - 1]
      <4>1. n \in Int /\ 1 \in Int
        BY <1>1 DEF n
      <4>2. QED
        BY <2>1, <4>1, SubSeqProperties
    <3>2. n \in Nat
      BY <1>1 DEF n
    <3>3. \A i \in 1..n : i \in 1..n - 1 + 1 /\ 1 + i - 1 = i
      BY <3>2
    <3>4. Len(u) = n
      BY <3>1, <3>2
    <3>5. QED
      BY <3>1, <3>3, <3>4
  <2> HIDE DEF u
  <2>3. (\A i \in 1..n : s[i] = t[i]) => s = u
    BY <2>2, SeqEqual
  <2>4. QED
    BY <2>2, <2>3 DEF u
<1>4. QED
  BY <1>2, <1>3, Zenon DEF Ex!IsPrefix

\* The letters of short tuples.
LEMMA ShortTuples ==
  ASSUME NEW S, NEW a \in S, NEW b \in S, NEW c \in S, NEW d \in S
  PROVE  /\ <<a, b>> \in Seq(S) /\ <<a, b, c>> \in Seq(S) /\ <<a, b, c, d>> \in Seq(S)
         /\ Len(<<a, b>>) = 2 /\ <<a, b>>[1] = a /\ <<a, b>>[2] = b
         /\ Len(<<a, b, c>>) = 3
         /\ <<a, b, c>>[1] = a /\ <<a, b, c>>[2] = b /\ <<a, b, c>>[3] = c
         /\ Len(<<a, b, c, d>>) = 4
         /\ <<a, b, c, d>>[1] = a /\ <<a, b, c, d>>[2] = b /\ <<a, b, c, d>>[3] = c
  OBVIOUS

\* Letters the code names.
LEMMA LettersKnown ==
  \A x \in {"A", "B", "_", "r", "s", "g", "o", "v", "a", "b", "c"} : x \in Letter
  BY DEF Letter, Hash

\* The letters before the key type: those of a restricted key.
Skip(chars) == IF Len(chars) >= 2 /\ chars[1] = "r" /\ chars[2] = "_" THEN 2 ELSE 0

\* What is behind the letters of a restricted key.
LEMMA RestrictedRead ==
  ASSUME NEW chars \in Seq(Letter)
  PROVE  LET p == Ex!Unrestricted(chars)
             k == Skip(chars)
         IN  /\ p \in Seq(Letter) /\ k \in Nat /\ Len(chars) \in Nat /\ k <= Len(chars)
             /\ Len(p) = Len(chars) - k /\ \A i \in 1..Len(p) : p[i] = chars[i + k]
<1> DEFINE p == Ex!Unrestricted(chars)
           k == Skip(chars)
           two == <<"r", "_">>
<1>1. Len(chars) \in Nat
  BY LenProperties
<1>2. two \in Seq(Letter)
  BY LettersKnown, ShortTuples
<1>a. Len(two) = 2 /\ two[1] = "r" /\ two[2] = "_"
  OBVIOUS
<1> HIDE DEF two
<1>3. Ex!IsPrefix(two, chars) <=> Len(chars) >= 2 /\ chars[1] = "r" /\ chars[2] = "_"
  <2>1. Ex!IsPrefix(two, chars) <=> Len(two) <= Len(chars) /\ \A i \in 1..Len(two) : two[i] = chars[i]
    BY <1>2, PrefixMeans
  <2>2. 1..Len(two) = {1, 2}
    <3>1. 1..2 = {1, 2}
      OBVIOUS
    <3>2. QED
      BY <1>a, <3>1
  <2>3. Ex!IsPrefix(two, chars) <=> 2 <= Len(chars) /\ two[1] = chars[1] /\ two[2] = chars[2]
    BY <1>a, <2>1, <2>2
  <2>4. 2 <= Len(chars) <=> Len(chars) >= 2
    BY <1>1
  <2>5. QED
    BY <1>a, <2>3, <2>4, Zenon
<1>4. CASE Len(chars) >= 2 /\ chars[1] = "r" /\ chars[2] = "_"
  <2>1. Len(chars) >= 2 /\ k = 2 /\ p = SubSeq(chars, 3, Len(chars))
    BY <1>3, <1>4, Zenon DEF Skip, two, Ex!Unrestricted
  <2> DEFINE n == Len(chars)
  <2>2. \A i \in 3..n : chars[i] \in Letter
    BY ElementOfSeq
  <2>3. n \in Nat /\ n >= 2
    BY <1>1, <2>1
  <2> HIDE DEF n, k
  <2>4. /\ SubSeq(chars, 3, n) \in Seq(Letter)
        /\ Len(SubSeq(chars, 3, n)) = IF 3 <= n THEN n - 3 + 1 ELSE 0
        /\ \A i \in 1..n - 3 + 1 : SubSeq(chars, 3, n)[i] = chars[3 + i - 1]
    BY <2>2, <2>3, SubSeqProperties
  <2>5. p = SubSeq(chars, 3, n)
    BY <2>1 DEF n
  <2> HIDE DEF p
  <2>6. Len(p) = n - 2 /\ p \in Seq(Letter)
    BY <2>3, <2>4, <2>5
  <2>7. \A i \in 1..n - 2 : i \in 1..n - 3 + 1 /\ 3 + i - 1 = i + 2
    BY <2>3
  <2>8. \A i \in 1..n - 2 : p[i] = chars[i + 2]
    BY <2>4, <2>5, <2>7
  <2>9. QED
    BY <1>1, <2>1, <2>3, <2>6, <2>8 DEF n, p, k
<1>5. CASE ~(Len(chars) >= 2 /\ chars[1] = "r" /\ chars[2] = "_")
  <2>1. k = 0 /\ p = chars
    BY <1>3, <1>5, Zenon DEF Skip, two, Ex!Unrestricted
  <2>2. \A i \in 1..Len(chars) : i + 0 = i
    BY <1>1
  <2> HIDE DEF p, k
  <2>3. QED
    BY <1>1, <2>1, <2>2 DEF p, k
<1>6. QED
  BY <1>4, <1>5

\* Identifiers of contracts and of governance begin with other letters.
LEMMA SpecialRead ==
  ASSUME NEW chars \in Seq(Letter)
  PROVE  Ex!Special(chars)
         => /\ Len(chars) >= 3 /\ Skip(chars) = 0 /\ chars[1] \notin {"A", "B"}
            /\ \/ chars[1] = "s" /\ chars[2] = "c" /\ chars[3] = "_"
               \/ chars[1] = "g" /\ chars[2] = "o" /\ chars[3] = "v"
<1> DEFINE sc == <<"s", "c", "_">>
           gov == <<"g", "o", "v", "_">>
<1>1. sc \in Seq(Letter) /\ gov \in Seq(Letter)
  BY LettersKnown, ShortTuples
<1>a. Len(sc) = 3 /\ Len(gov) = 4
  OBVIOUS
<1>b. /\ sc[1] = "s" /\ sc[2] = "c" /\ sc[3] = "_"
      /\ gov[1] = "g" /\ gov[2] = "o" /\ gov[3] = "v"
  OBVIOUS
<1>2. Ex!Special(chars) <=> Ex!IsPrefix(sc, chars) \/ Ex!IsPrefix(gov, chars)
  BY DEF Ex!Special
<1> HIDE DEF sc, gov
<1>3. Len(chars) \in Nat
  BY LenProperties
<1>4. CASE Ex!IsPrefix(sc, chars)
  <2>1. Len(sc) <= Len(chars) /\ \A i \in 1..Len(sc) : sc[i] = chars[i]
    BY <1>1, <1>4, PrefixMeans
  <2>2. 1 \in 1..Len(sc) /\ 2 \in 1..Len(sc) /\ 3 \in 1..Len(sc) /\ Len(chars) >= 3
    BY <1>a, <1>3, <2>1
  <2>3. chars[1] = sc[1] /\ chars[2] = sc[2] /\ chars[3] = sc[3]
    BY <2>1, <2>2
  <2>4. chars[1] = "s" /\ chars[2] = "c" /\ chars[3] = "_"
    BY <1>b, <2>3, Zenon
  <2>5. QED
    BY <2>2, <2>4 DEF Skip
<1>5. CASE Ex!IsPrefix(gov, chars)
  <2>1. Len(gov) <= Len(chars) /\ \A i \in 1..Len(gov) : gov[i] = chars[i]
    BY <1>1, <1>5, PrefixMeans
  <2>2. 1 \in 1..Len(gov) /\ 2 \in 1..Len(gov) /\ 3 \in 1..Len(gov) /\ Len(chars) >= 3
    BY <1>a, <1>3, <2>1
  <2>3. chars[1] = gov[1] /\ chars[2] = gov[2] /\ chars[3] = gov[3]
    BY <2>1, <2>2
  <2>4. chars[1] = "g" /\ chars[2] = "o" /\ chars[3] = "v"
    BY <1>b, <2>3, Zenon
  <2>5. QED
    BY <2>2, <2>4 DEF Skip
<1>6. QED
  BY <1>2, <1>4, <1>5

\* The key type is the letter behind those of a restricted key.
LEMMA KeyTypeRead ==
  ASSUME NEW chars \in Seq(Letter)
  PROVE  Ex!GetKeyTypeFromPublicKey(chars) =
           IF Skip(chars) < Len(chars) /\ chars[Skip(chars) + 1] \in {"A", "B"}
             THEN chars[Skip(chars) + 1] ELSE None
<1> DEFINE p == Ex!Unrestricted(chars)
           k == Skip(chars)
<1>1. /\ p \in Seq(Letter) /\ k \in Nat /\ Len(chars) \in Nat /\ k <= Len(chars)
      /\ Len(p) = Len(chars) - k /\ \A i \in 1..Len(p) : p[i] = chars[i + k]
  BY RestrictedRead
<1>2. Ex!GetKeyTypeFromPublicKey(chars) =
        IF ~Ex!Special(chars) /\ p # <<>> /\ Head(p) \in {"A", "B"} THEN Head(p) ELSE None
  BY DEF Ex!GetKeyTypeFromPublicKey
<1>3. Ex!Special(chars) => k = 0 /\ chars[1] \notin {"A", "B"}
  BY SpecialRead
<1> HIDE DEF p, k
<1>4. p # <<>> <=> k < Len(chars)
  <2>1. p # <<>> <=> Len(p) # 0
    BY <1>1, EmptySeq
  <2>2. Len(p) # 0 <=> k < Len(chars)
    BY <1>1
  <2>3. QED
    BY <2>1, <2>2
<1>5. p # <<>> => Head(p) = chars[k + 1]
  <2> SUFFICES ASSUME p # <<>> PROVE Head(p) = chars[k + 1]
    OBVIOUS
  <2>1. Head(p) = p[1]
    BY <1>1
  <2>2. 1 \in 1..Len(p) /\ 1 + k = k + 1
    BY <1>1, <1>4
  <2>3. p[1] = chars[1 + k]
    BY <1>1, <2>2
  <2>4. QED
    BY <2>1, <2>2, <2>3
<1>6. k = 0 => chars[k + 1] = chars[1]
  OBVIOUS
<1>7. QED
  <2>1. CASE p # <<>> /\ chars[k + 1] \in {"A", "B"}
    <3>1. ~Ex!Special(chars)
      BY <1>3, <1>6, <2>1
    <3>2. QED
      BY <1>2, <1>4, <1>5, <2>1, <3>1 DEF k
  <2>2. CASE ~(p # <<>> /\ chars[k + 1] \in {"A", "B"})
    BY <1>2, <1>4, <1>5, <2>2 DEF k
  <2>3. QED
    BY <2>1, <2>2

-----------------------------------------------------------------------------
(* Exchange: connections *)

\* The first of a sequence that is not empty.
LEMMA HeadIs ==
  ASSUME NEW S, NEW s \in Seq(S), s # <<>>
  PROVE  Head(s) = s[1] /\ Len(s) \in Nat /\ Len(s) >= 1 /\ 1 \in 1..Len(s) /\ DOMAIN s = 1..Len(s)
<1>1. Head(s) = s[1]
  OBVIOUS
<1>2. Len(s) \in Nat /\ Len(s) # 0
  BY EmptySeq
<1>3. QED
  BY <1>1, <1>2, LenProperties

\* A valid key has a letter, and then hash types, each with an underscore.
LEMMA ValidRead ==
  ASSUME NEW id, id.prefix \in Seq(Letter), Ex!IsValidWalletPublicKey(id)
  PROVE  LET p == Ex!Unrestricted(id.prefix) IN
         /\ p \in Seq(Letter) /\ Len(p) >= 2 /\ Len(p) % 2 = 0
         /\ p[1] \in {"A", "B"} /\ p[2] = "_"
         /\ \A i \in 1..Len(p) \div 2 - 1 : p[2 * i + 1] \in Hash
         /\ Ex!GetKeyTypeFromPublicKey(id.prefix) = p[1]
         /\ id.base58 /\ id.length = KeyLength[p[1]]
<1> DEFINE chars == id.prefix
           p == Ex!Unrestricted(chars)
           k == Skip(chars)
<1>1. /\ p \in Seq(Letter) /\ k \in Nat /\ Len(chars) \in Nat /\ k <= Len(chars)
      /\ Len(p) = Len(chars) - k /\ \A i \in 1..Len(p) : p[i] = chars[i + k]
  BY RestrictedRead
<1>2. /\ p # <<>> /\ Len(p) % 2 = 0 /\ Head(p) \in {"A", "B"}
      /\ \A i \in DOMAIN p : IF i % 2 = 0 THEN p[i] = "_" ELSE i > 1 => p[i] \in Ex!Hash
      /\ id.base58 /\ id.length = KeyLength[Head(p)]
  BY Zenon DEF Ex!IsValidWalletPublicKey
<1>3. Ex!GetKeyTypeFromPublicKey(chars) =
        IF k < Len(chars) /\ chars[k + 1] \in {"A", "B"} THEN chars[k + 1] ELSE None
  BY KeyTypeRead
<1> HIDE DEF p, k, chars
<1>4. Len(p) \in Nat /\ Len(p) >= 1 /\ DOMAIN p = 1..Len(p) /\ Head(p) = p[1]
  BY <1>1, <1>2, HeadIs
<1>5. Len(p) >= 2 /\ Len(p) % 2 = 0
  <2>1. Len(p) % 2 = 0 /\ Len(p) \in Nat /\ Len(p) >= 1
    BY <1>2, <1>4
  <2>2. QED
    BY <2>1
<1>6. Head(p) = p[1]
  BY <1>4
<1>7. p[2] = "_"
  <2>1. 2 \in DOMAIN p /\ 2 % 2 = 0
    BY <1>4, <1>5
  <2>2. QED
    BY <1>2, <2>1
<1>8. ASSUME NEW i \in 1..Len(p) \div 2 - 1 PROVE p[2 * i + 1] \in Hash
  <2>1. 2 * i + 1 \in DOMAIN p /\ (2 * i + 1) % 2 # 0 /\ 2 * i + 1 > 1
    BY <1>4, <1>5
  <2>2. QED
    BY <1>2, <2>1 DEF Hash, Ex!Hash
<1>9. Ex!GetKeyTypeFromPublicKey(chars) = p[1]
  <2>1. 1 \in 1..Len(p) /\ 1 + k = k + 1 /\ k < Len(chars)
    <3>1. k \in Nat /\ Len(chars) \in Nat /\ Len(p) = Len(chars) - k
      BY <1>1
    <3>2. QED
      BY <1>5, <3>1
  <2>2. p[1] = chars[k + 1]
    BY <1>1, <2>1
  <2>3. QED
    BY <1>2, <1>3, <1>6, <2>1, <2>2
<1>10. QED
  BY <1>1, <1>2, <1>5, <1>6, <1>7, <1>8, <1>9 DEF p, chars

\* The letters behind a valid prefix are read with those of the key behind them.
LEMMA JoinedRead ==
  ASSUME NEW chars \in Seq(Letter), NEW text \in Seq(Letter), Len(chars) >= 2
  PROVE  LET p == Ex!Unrestricted(chars)
             q == Ex!Unrestricted(chars \o text)
         IN  /\ q \in Seq(Letter) /\ Len(q) = Len(p) + Len(text)
             /\ \A i \in 1..Len(p) : q[i] = p[i]
             /\ \A i \in 1..Len(text) : q[Len(p) + i] = text[i]
<1> DEFINE p == Ex!Unrestricted(chars)
           k == Skip(chars)
           both == chars \o text
           q == Ex!Unrestricted(both)
           n == Len(chars)
           t == Len(text)
<1>1. /\ both \in Seq(Letter) /\ Len(both) = n + t
      /\ \A i \in 1..n + t : both[i] = IF i <= n THEN chars[i] ELSE text[i - n]
  BY ConcatProperties
<1>2. n \in Nat /\ t \in Nat /\ n >= 2
  BY LenProperties
<1>3. /\ p \in Seq(Letter) /\ k \in Nat /\ k <= n
      /\ Len(p) = n - k /\ \A i \in 1..Len(p) : p[i] = chars[i + k]
  BY RestrictedRead
<1>4. Skip(both) = k
  <2> HIDE DEF both, n, t
  <2>1. 1 \in 1..n + t /\ 2 \in 1..n + t /\ 1 <= n /\ 2 <= n /\ n + t >= 2
    BY <1>2
  <2>2. both[1] = chars[1] /\ both[2] = chars[2]
    BY <1>1, <2>1
  <2>3. QED
    BY <1>1, <1>2, <2>1, <2>2 DEF Skip, n
<1>5. /\ q \in Seq(Letter) /\ Len(q) = Len(both) - Skip(both)
      /\ \A i \in 1..Len(q) : q[i] = both[i + Skip(both)]
  BY <1>1, RestrictedRead
<1> HIDE DEF p, q, both, n, t, k
<1>6. Len(q) = n + t - k /\ Len(p) = n - k /\ n \in Nat /\ t \in Nat /\ k \in Nat /\ k <= n
  BY <1>1, <1>2, <1>3, <1>4, <1>5
<1>7. Len(q) = Len(p) + t
  BY <1>6
<1>8. ASSUME NEW i \in 1..Len(p) PROVE q[i] = p[i]
  <2>1. i \in 1..Len(q) /\ i + k \in 1..n + t /\ i + k <= n
    BY <1>6
  <2>2. q[i] = both[i + k]
    BY <1>4, <1>5, <2>1
  <2>3. both[i + k] = chars[i + k]
    BY <1>1, <2>1
  <2>4. QED
    BY <1>3, <2>2, <2>3
<1>9. ASSUME NEW i \in 1..t PROVE q[Len(p) + i] = text[i]
  <2> DEFINE j == Len(p) + i
  <2>1. j \in 1..Len(q) /\ j \in Nat /\ j + k \in 1..n + t /\ ~(j + k <= n) /\ j + k - n = i
    BY <1>6
  <2> HIDE DEF j
  <2>2. q[j] = both[j + k]
    BY <1>4, <1>5, <2>1
  <2>3. PICK l : l = j + k
    OBVIOUS
  <2>4. l \in 1..n + t /\ ~(l <= n) /\ l - n = i
    BY <1>6, <2>1, <2>3
  <2>5. both[l] = text[i]
    BY <1>1, <2>4
  <2>6. QED
    BY <2>2, <2>3, <2>5 DEF j
<1>10. QED
  BY <1>5, <1>7, <1>8, <1>9 DEF p, q, both, t

\* The address of a valid key is that of its hash types.
LEMMA AddressOfValid ==
  ASSUME NEW id
  PROVE  /\ id.prefix \in Seq(Letter) /\ id.text \in Seq(Letter)
         /\ \A i \in DOMAIN id.text : id.text[i] # "_"
         /\ id.text # <<>> /\ Head(id.text) \notin Hash /\ Ex!IsValidWalletPublicKey(id)
         => /\ Ex!GenerateAddress(id) = Ex!HashTypesOf(id.prefix)
            /\ Ex!HashTypesOf(id.prefix) \in Seq(Hash)
<1>0. SUFFICES ASSUME id.prefix \in Seq(Letter), id.text \in Seq(Letter),
                      \A i \in DOMAIN id.text : id.text[i] # "_",
                      id.text # <<>>, Head(id.text) \notin Hash, Ex!IsValidWalletPublicKey(id)
               PROVE  /\ Ex!GenerateAddress(id) = Ex!HashTypesOf(id.prefix)
                      /\ Ex!HashTypesOf(id.prefix) \in Seq(Hash)
  OBVIOUS
<1> DEFINE chars == id.prefix
           text == id.text
           p == Ex!Unrestricted(chars)
           q == Ex!Unrestricted(chars \o text)
           n == Len(p) \div 2 - 1
           own == Ex!HashTypesOf(chars)
<1>1. /\ p \in Seq(Letter) /\ Len(p) >= 2 /\ Len(p) % 2 = 0 /\ p[1] \in {"A", "B"}
      /\ \A i \in 1..n : p[2 * i + 1] \in Hash
      /\ Ex!GetKeyTypeFromPublicKey(chars) = p[1] /\ id.base58
  BY <1>0, ValidRead
<1>2. Len(p) \in Nat /\ Len(chars) \in Nat /\ Len(chars) >= 2
  <2>1. /\ Skip(chars) \in Nat /\ Len(chars) \in Nat
        /\ Len(p) = Len(chars) - Skip(chars)
    BY <1>0, RestrictedRead
  <2>2. Len(p) >= 2
    BY <1>1
  <2>3. Len(p) \in Nat
    BY <1>1, LenProperties
  <2> HIDE DEF p, chars
  <2>4. QED
    BY <2>1, <2>2, <2>3
<1>3. Len(text) \in Nat /\ Len(text) >= 1 /\ text[1] \notin Hash /\ text[1] # "_"
  <2>1. /\ text \in Seq(Letter) /\ text # <<>> /\ Head(text) \notin Hash
        /\ \A i \in DOMAIN text : text[i] # "_"
    BY <1>0
  <2> HIDE DEF text
  <2>2. /\ Head(text) = text[1] /\ Len(text) \in Nat /\ Len(text) >= 1
        /\ 1 \in 1..Len(text) /\ DOMAIN text = 1..Len(text)
    BY <2>1, HeadIs
  <2>3. QED
    BY <2>1, <2>2
<1>4. /\ q \in Seq(Letter) /\ Len(q) = Len(p) + Len(text)
      /\ \A i \in 1..Len(p) : q[i] = p[i]
      /\ \A j \in 1..Len(text) : q[Len(p) + j] = text[j]
  BY <1>0, <1>2, JoinedRead
<1>5. n \in Nat /\ 2 * n + 2 = Len(p) /\ 2 * n + 3 = Len(p) + 1
  <2>1. Len(p) \in Nat /\ Len(p) >= 2 /\ Len(p) % 2 = 0
    BY <1>1, <1>2
  <2> HIDE DEF p
  <2>2. QED
    BY <2>1
<1>6. own = [i \in 1..n |-> p[2 * i + 1]]
  BY Zenon DEF Ex!HashTypesOf
<1> HIDE DEF chars, text, p, q, n, own
<1>7. own \in [1..n -> Hash] /\ own \in Seq(Hash)
  <2>1. own \in [1..n -> Hash]
    BY <1>1, <1>6
  <2>2. QED
    BY <1>5, <2>1, SeqDef
<1>8. Len(own) = n /\ \A i \in 1..n : own[i] = p[2 * i + 1]
  <2>1. n \in Nat
    BY <1>5
  <2>2. QED
    BY <1>6, <2>1
<1>a. /\ Len(p) \in Nat /\ Len(p) >= 2 /\ Len(text) \in Nat /\ Len(text) >= 1
      /\ Len(q) = Len(p) + Len(text) /\ n \in Nat /\ 2 * n + 3 = Len(p) + 1
  BY <1>1, <1>2, <1>3, <1>4, <1>5
<1>9. HashTypesOf(q) = own
  <2>1. 2 * n + 3 <= Len(q) /\ 1 \in 1..Len(text) /\ 1 \in 1..Len(p)
    BY <1>a
  <2>2. q[Len(p) + 1] = text[1]
    BY <1>4, <2>1
  <2>3. q[2 * n + 3] \notin Hash /\ q[2 * n + 3] # "_"
    BY <1>3, <1>a, <2>2
  <2>4. ASSUME NEW i \in 1..n PROVE q[2 * i + 1] = own[i]
    <3>1. 2 * i + 1 \in 1..Len(p)
      BY <1>a
    <3>2. q[2 * i + 1] = p[2 * i + 1]
      BY <1>4, <3>1
    <3>3. QED
      BY <1>8, <3>2
  <2>5. n = Len(own)
    BY <1>8
  <2>6. QED
    BY <1>4, <1>7, <2>1, <2>3, <2>4, <2>5, LettersRead
<1>10. Ex!GetHashTypesFromPublicKey(q) = HashTypesOf(q)
  BY Zenon DEF Ex!GetHashTypesFromPublicKey, HashTypesOf, Ex!TypesFrom, TypesFrom, Ex!At, At,
               Ex!Hash, Hash
<1>11. p[1] # None
  BY <1>1, ExchangeAssumption DEF Ex!ExchangeConstants
<1>12. Ex!GenerateAddress(id) = Ex!GetHashTypesFromPublicKey(q)
  BY <1>1, <1>11, Zenon DEF Ex!GenerateAddress, q, chars, text
<1>13. QED
  BY <1>7, <1>9, <1>10, <1>12 DEF own, chars

-----------------------------------------------------------------------------
(* Exchange: what comes back of each kind *)

\* A signature that is accepted has the length its key's letter asks for.
LEMMA SignatureAccepted ==
  ASSUME NEW id, NEW answer, NEW signer
  PROVE  /\ id.prefix \in Seq(Letter) /\ Ex!IsValidWalletPublicKey(id)
         /\ signer # "walletConnect" /\ Ex!Sign(answer, id.prefix, signer) # None
         => LET k == Ex!GetKeyTypeFromPublicKey(id.prefix)
            IN  /\ Ex!Sign(answer, id.prefix, signer) = SignatureLength[k]
                /\ id.length = KeyLength[k]
<1>0. SUFFICES ASSUME id.prefix \in Seq(Letter), Ex!IsValidWalletPublicKey(id),
                      signer # "walletConnect", Ex!Sign(answer, id.prefix, signer) # None
               PROVE  LET k == Ex!GetKeyTypeFromPublicKey(id.prefix)
                      IN  /\ Ex!Sign(answer, id.prefix, signer) = SignatureLength[k]
                          /\ id.length = KeyLength[k]
  OBVIOUS
<1> DEFINE p == Ex!Unrestricted(id.prefix)
           text == Ex!Signature(answer)
           expected == Ex!ExpectedSignatureLength(id.prefix)
<1>1. /\ p \in Seq(Letter) /\ Len(p) >= 2 /\ p[1] \in {"A", "B"} /\ p[2] = "_"
      /\ Ex!GetKeyTypeFromPublicKey(id.prefix) = p[1] /\ id.length = KeyLength[p[1]]
  BY <1>0, ValidRead
<1>2. Len(p) > 1
  <2>1. Len(p) \in Nat /\ Len(p) >= 2
    BY <1>1, LenProperties
  <2> HIDE DEF p
  <2>2. QED
    BY <2>1
<1>3. expected = SignatureLength[p[1]]
  BY <1>1, <1>2, Zenon DEF Ex!ExpectedSignatureLength
<1>4. expected # None
  <2>1. SignatureLength \in [{"A", "B"} -> Nat] /\ None \notin Nat
    BY ExchangeAssumption DEF Ex!ExchangeConstants
  <2>2. QED
    BY <1>1, <1>3, <2>1, Zenon
<1>5. Ex!Sign(answer, id.prefix, signer) = Ex!DecodeAndValidateSignature(text, id.prefix)
  BY <1>0, Zenon DEF Ex!Sign
<1>6. text.length \in {expected} /\ Ex!DecodeAndValidateSignature(text, id.prefix) = text.length
  BY <1>0, <1>4, <1>5, Zenon DEF Ex!DecodeAndValidateSignature
<1>7. QED
  BY <1>1, <1>3, <1>5, <1>6, Zenon

\* A message comes back from its envelope, whichever package its type is in meanwhile, unless it is
\* empty or unregistered, or the envelope of another version.
LEMMA EnvelopeRead ==
  LET message == case.message
      envelope == Ex!Serialize(message, case.schemaGiven)
      read == Ex!Deserialize(Ex!Transported(envelope))
  IN  message \in Ex!Message =>
      /\ envelope = None => message.type \notin Ex!Registry
      /\ envelope # None /\ read # None => read = message
      /\ envelope # None /\ read = None =>
           \/ message.type \notin Ex!Registry \/ message.content = <<>>
           \/ case.version # 1
<1> DEFINE message == case.message
           envelope == Ex!Serialize(message, case.schemaGiven)
           package == IF case.old /\ message.type.package = "kal_txn"
                      THEN "zera_txn" ELSE message.type.package
           type == [package |-> package, name |-> message.type.name]
           old == [type |-> type, data |-> message.content, version |-> case.version]
           read == Ex!Deserialize(old)
<1>0. SUFFICES ASSUME message \in Ex!Message
               PROVE  /\ envelope = None => message.type \notin Ex!Registry
                      /\ envelope # None =>
                           /\ Ex!Transported(envelope) = old
                           /\ read # None => read = message
                           /\ read = None =>
                                \/ message.type \notin Ex!Registry \/ message.content = <<>>
                                \/ case.version # 1
  BY Zenon
<1>1. /\ message = [type |-> message.type, content |-> message.content]
      /\ message.type = [package |-> message.type.package, name |-> message.type.name]
      /\ message.type.package # "zera_txn" /\ message.type.package \in STRING
      /\ message.type.name \in STRING /\ message.content \in Seq(Nat)
  BY <1>0 DEF Ex!Message
<1>2. /\ [type |-> message.type, data |-> message.content, version |-> 1] # None
      /\ message # None
  <2>1. [type |-> message.type, data |-> message.content, version |-> 1]
        \in [type : [package : STRING, name : STRING], data : Seq(Nat), version : Nat]
    BY <1>1
  <2>2. QED
    BY <1>0, <2>1, ExchangeAssumption, Zenon DEF Ex!ExchangeConstants
<1>3. CASE envelope = None
  BY <1>2, <1>3, Zenon DEF Ex!Serialize
<1>4. CASE envelope # None
  <2>1. envelope = [type |-> message.type, data |-> message.content, version |-> 1]
    BY <1>4, Zenon DEF Ex!Serialize
  <2>2. Ex!Transported(envelope) = old
    <3>1. envelope.type = message.type /\ envelope.data = message.content
      BY <2>1
    <3> HIDE DEF envelope, message
    <3>2. QED
      BY <3>1, Zenon DEF Ex!Transported
  <2>3. Ex!Normalize(type) = message.type
    <3>1. CASE case.old /\ message.type.package = "kal_txn"
      <4>1. type = [package |-> "zera_txn", name |-> message.type.name]
        BY <3>1, Zenon
      <4>2. Ex!Normalize(type) = [package |-> "kal_txn", name |-> message.type.name]
        BY <4>1 DEF Ex!Normalize
      <4>3. QED
        BY <1>1, <3>1, <4>2
    <3>2. CASE ~(case.old /\ message.type.package = "kal_txn")
      <4>1. type = message.type
        BY <1>1, <3>2, Zenon
      <4>2. QED
        BY <1>1, <4>1, Zenon DEF Ex!Normalize
    <3>3. QED
      BY <3>1, <3>2
  <2>4. Ex!SchemaRegistered(type) <=> message.type \in Ex!Registry
    BY <2>3, Zenon DEF Ex!SchemaRegistered
  <2>5. read = IF message.content # <<>> /\ case.version = 1 /\ Ex!SchemaRegistered(type)
               THEN [type |-> Ex!Normalize(type), content |-> message.content] ELSE None
    <3> HIDE DEF type
    <3>1. old.type = type /\ old.data = message.content /\ old.version = case.version
      OBVIOUS
    <3> HIDE DEF old
    <3>2. QED
      BY <3>1, Zenon DEF Ex!Deserialize, read
  <2>6. [type |-> Ex!Normalize(type), content |-> message.content] = message
    BY <1>1, <2>3, Zenon
  <2> HIDE DEF read, old, type
  <2>7. QED
    BY <1>2, <1>4, <2>2, <2>4, <2>5, <2>6, Zenon
<1>5. QED
  BY <1>3, <1>4

\* A nonempty set of places has a last one.
LEMMA Greatest ==
  ASSUME NEW m \in Nat, NEW s \in SUBSET (1..m), s # {}
  PROVE  \E x \in s : \A y \in s : y <= x
<1> DEFINE turned == {m - i : i \in s}
<1>1. \A i \in s : i \in Nat /\ m - i \in Nat
  OBVIOUS
<1>2. turned \in SUBSET Nat /\ turned # {}
  BY <1>1
<1>3. PICK t \in turned : \A y \in turned : t <= y
  BY <1>2, Least
<1>4. PICK x \in s : t = m - x
  BY <1>3
<1>5. ASSUME NEW y \in s PROVE y <= x
  <2>1. m - x <= m - y
    BY <1>3, <1>4
  <2>2. QED
    BY <1>1, <2>1
<1>6. QED
  BY <1>5

\* What is read begins with the prefix that was written, and is what was written if the key does not
\* begin like a prefix.
LEMMA KeyedRead ==
  ASSUME NEW prefix \in Seq(Letter), NEW raw \in Seq(Letter), raw # <<>>
  PROVE  LET bytes == prefix \o raw
             read == Ex!GetPublicKeyIdentifierFromBytes(bytes)
             type == Ex!GetKeyTypeFromPublicKey(prefix)
         IN  /\ type # None /\ prefix[Len(prefix)] = "_"
             /\ \A i \in DOMAIN prefix : prefix[i] \in Ex!PrefixBytes
             => \/ /\ read = None
                   /\ ~Ex!Plain(raw)
                \/ /\ Ex!GetKeyTypeFromPublicKey(read.prefix) = type
                   /\ Ex!Plain(raw) => read = [prefix |-> prefix, raw |-> raw]
<1> DEFINE bytes == prefix \o raw
           read == Ex!GetPublicKeyIdentifierFromBytes(bytes)
           type == Ex!GetKeyTypeFromPublicKey(prefix)
           n == Len(prefix)
           m == Len(raw)
           k == Skip(prefix)
           underscores == {i \in Ex!Run(bytes) : bytes[i] = "_"}
           end == CHOOSE i \in underscores : \A j \in underscores : j <= i
<1>0. SUFFICES ASSUME type # None, prefix[n] = "_",
                      \A i \in DOMAIN prefix : prefix[i] \in Ex!PrefixBytes
               PROVE  \/ /\ read = None
                         /\ ~Ex!Plain(raw)
                      \/ /\ Ex!GetKeyTypeFromPublicKey(read.prefix) = type
                         /\ Ex!Plain(raw) => read = [prefix |-> prefix, raw |-> raw]
  BY Zenon
<1>1. /\ bytes \in Seq(Letter) /\ Len(bytes) = n + m
      /\ \A i \in 1..n + m : bytes[i] = IF i <= n THEN prefix[i] ELSE raw[i - n]
  BY ConcatProperties
<1>2. n \in Nat /\ m \in Nat /\ m >= 1 /\ DOMAIN prefix = 1..n /\ DOMAIN raw = 1..m
      /\ DOMAIN bytes = 1..n + m
  BY <1>1, HeadIs, LenProperties
<1>3. k \in Nat /\ k < n /\ prefix[k + 1] \in {"A", "B"} /\ type = prefix[k + 1]
  <2>1. type = IF k < n /\ prefix[k + 1] \in {"A", "B"} THEN prefix[k + 1] ELSE None
    BY KeyTypeRead
  <2>2. k \in Nat
    BY DEF Skip
  <2>3. QED
    BY <1>0, <2>1, <2>2
<1> HIDE DEF bytes, n, m, k, type
<1>4. n >= k + 2 /\ n >= 2
  <2>1. n # k + 1
    BY <1>0, <1>3
  <2>2. n \in Nat /\ k \in Nat /\ k < n
    BY <1>2, <1>3
  <2>3. QED
    BY <2>1, <2>2
<1>a. n \in Nat /\ m \in Nat /\ m >= 1 /\ k \in Nat /\ n >= k + 2 /\ n >= 2 /\ n + m >= 3
  <2>1. n \in Nat /\ m \in Nat /\ m >= 1 /\ k \in Nat /\ n >= k + 2 /\ n >= 2
    BY <1>2, <1>3, <1>4
  <2>2. QED
    BY <2>1
<1>5. \A i \in 1..n : i \in DOMAIN bytes /\ bytes[i] = prefix[i] /\ bytes[i] \in Ex!PrefixBytes
  <2> SUFFICES ASSUME NEW i \in 1..n
               PROVE  i \in DOMAIN bytes /\ bytes[i] = prefix[i] /\ bytes[i] \in Ex!PrefixBytes
    OBVIOUS
  <2>1. i \in 1..n + m /\ i <= n
    BY <1>2
  <2>2. QED
    BY <1>0, <1>1, <1>2, <2>1
<1>6. SubSeq(bytes, 1, 3) \notin {<<"s", "c", "_">>, <<"g", "o", "v">>}
  <2>1. \A i \in 1..3 : bytes[i] \in Letter
    <3>1. \A i \in 1..3 : i \in 1..n + m
      BY <1>a
    <3>2. QED
      BY <1>1, <3>1, ElementOfSeq
  <2>2. \A i \in 1..3 - 1 + 1 : SubSeq(bytes, 1, 3)[i] = bytes[1 + i - 1]
    BY <2>1, SubSeqProperties
  <2>3. 1 \in 1..3 - 1 + 1 /\ 1 + 1 - 1 = 1
    OBVIOUS
  <2>4. SubSeq(bytes, 1, 3)[1] = bytes[1]
    <3>1. SubSeq(bytes, 1, 3)[1] = bytes[1 + 1 - 1]
      BY <2>2, <2>3
    <3>2. QED
      BY <2>3, <3>1, Zenon
  <2>5. bytes[1] \in Ex!PrefixBytes
    <3>1. 1 \in 1..n
      BY <1>a
    <3>2. QED
      BY <1>5, <3>1
  <2>6. <<"s", "c", "_">>[1] = "s" /\ <<"g", "o", "v">>[1] = "g"
    OBVIOUS
  <2>7. "s" \notin Ex!PrefixBytes /\ "g" \notin Ex!PrefixBytes
    BY DEF Ex!PrefixBytes
  <2>8. QED
    BY <2>4, <2>5, <2>6, <2>7, Zenon
<1>7. n \in underscores
  <2>1. n \in 1..n
    BY <1>2, <1>4
  <2>2. n \in Ex!Run(bytes)
    BY <1>5, <2>1 DEF Ex!Run
  <2>3. QED
    BY <1>0, <1>5, <2>1, <2>2
<1>8. underscores \in SUBSET (1..n + m)
  BY <1>2 DEF Ex!Run
<1>9. end \in underscores /\ \A j \in underscores : j <= end
  <2>1. n + m \in Nat
    BY <1>2
  <2>2. \E i \in underscores : \A j \in underscores : j <= i
    BY <1>7, <1>8, <2>1, Greatest
  <2> HIDE DEF underscores
  <2>3. QED
    BY <2>2, Zenon
<1>10. read = IF end = n + m THEN None
              ELSE [prefix |-> SubSeq(bytes, 1, end), raw |-> SubSeq(bytes, end + 1, n + m)]
  <2>1. underscores # {}
    BY <1>7
  <2>2. QED
    BY <1>1, <1>6, <2>1, Zenon DEF Ex!GetPublicKeyIdentifierFromBytes
<1>11. end \in 1..n + m /\ n <= end /\ bytes[end] = "_"
       /\ \A j \in 1..end : bytes[j] \in Ex!PrefixBytes
  BY <1>7, <1>8, <1>9 DEF Ex!Run
<1> HIDE DEF end, underscores, read
<1>b. end \in Nat /\ n <= end /\ end <= n + m
  <2>1. end \in 1..n + m /\ n <= end
    BY <1>11
  <2>2. QED
    BY <1>a, <2>1
<1>12. ASSUME end # n PROVE ~Ex!Plain(raw)
  <2> DEFINE i == end - n
  <2>1. i \in 1..m /\ n + i = end
    BY <1>a, <1>b, <1>12
  <2> HIDE DEF i
  <2>2. \A j \in 1..i : raw[j] = bytes[n + j] /\ bytes[n + j] \in Ex!PrefixBytes
    <3> SUFFICES ASSUME NEW j \in 1..i
                 PROVE  raw[j] = bytes[n + j] /\ bytes[n + j] \in Ex!PrefixBytes
      OBVIOUS
    <3>1. n + j \in 1..end /\ n + j \in 1..n + m /\ ~(n + j <= n) /\ (n + j) - n = j
      BY <1>a, <2>1
    <3>2. PICK l : l = n + j
      OBVIOUS
    <3>3. l \in 1..n + m /\ ~(l <= n) /\ l - n = j
      BY <1>a, <3>1, <3>2
    <3>4. bytes[l] = raw[j]
      BY <1>1, <3>3
    <3>5. QED
      BY <1>11, <3>1, <3>2, <3>4
  <2>3. i \in Ex!Run(raw)
    BY <1>2, <2>1, <2>2 DEF Ex!Run
  <2>4. raw[i] = "_"
    <3>1. i \in 1..i
      BY <2>1
    <3>2. QED
      BY <1>11, <2>1, <2>2, <3>1
  <2>5. QED
    BY <2>3, <2>4, Zenon DEF Ex!Plain
<1>13. CASE end = n + m
  <2>1. end # n
    BY <1>a, <1>13
  <2>2. QED
    BY <1>10, <1>12, <1>13, <2>1
<1>14. CASE end # n + m
  <2> DEFINE front == SubSeq(bytes, 1, end)
  <2>1. read = [prefix |-> front, raw |-> SubSeq(bytes, end + 1, n + m)]
    BY <1>10, <1>14
  <2>2. front \in Seq(Letter) /\ Len(front) = end /\ \A i \in 1..end : front[i] = bytes[i]
    <3>1. end \in Int /\ 1 <= end /\ end - 1 + 1 = end
      BY <1>a, <1>b
    <3>2. \A i \in 1..end : bytes[i] \in Letter
      <4>1. \A i \in 1..end : i \in 1..n + m
        BY <1>a, <1>b
      <4>2. QED
        BY <1>1, <4>1, ElementOfSeq
    <3>3. /\ SubSeq(bytes, 1, end) \in Seq(Letter)
          /\ Len(SubSeq(bytes, 1, end)) = IF 1 <= end THEN end - 1 + 1 ELSE 0
          /\ \A i \in 1..end - 1 + 1 : SubSeq(bytes, 1, end)[i] = bytes[1 + i - 1]
      BY <3>1, <3>2, SubSeqProperties
    <3>4. \A i \in 1..end : i \in 1..end - 1 + 1 /\ 1 + i - 1 = i
      BY <3>1
    <3>5. Len(front) = end
      BY <3>1, <3>3
    <3> HIDE DEF front
    <3>6. QED
      BY <3>3, <3>4, <3>5 DEF front
  <2> HIDE DEF front
  <2>3. \A i \in 1..n : front[i] = prefix[i]
    <3>1. \A i \in 1..n : i \in 1..end
      BY <1>a, <1>b
    <3>2. QED
      BY <1>5, <2>2, <3>1
  <2>4. Skip(front) = k
    <3>1. 1 \in 1..n /\ 2 \in 1..n /\ end >= 2
      BY <1>a, <1>b
    <3>2. front[1] = prefix[1] /\ front[2] = prefix[2]
      BY <2>3, <3>1
    <3>3. Len(front) >= 2 /\ Len(prefix) >= 2
      BY <1>4, <2>2, <3>1 DEF n
    <3>4. QED
      BY <3>2, <3>3, Zenon DEF Skip, k
  <2>5. Ex!GetKeyTypeFromPublicKey(front) = type
    <3>1. Ex!GetKeyTypeFromPublicKey(front) =
            IF k < Len(front) /\ front[k + 1] \in {"A", "B"} THEN front[k + 1] ELSE None
      BY <2>2, <2>4, KeyTypeRead
    <3>2. k < end /\ k + 1 \in 1..n
      BY <1>a, <1>b
    <3>3. front[k + 1] = prefix[k + 1]
      BY <2>3, <3>2
    <3>4. QED
      BY <1>3, <2>2, <3>1, <3>2, <3>3
  <2>6. ASSUME end = n PROVE read = [prefix |-> prefix, raw |-> raw]
    <3>1. SubSeq(bytes, 1, n) = prefix
      <4>1. 1 \in 1..Len(prefix) /\ n \in 1..Len(prefix)
        BY <1>2, <1>4 DEF n
      <4>2. SubSeq(bytes, 1, n) = SubSeq(prefix, 1, n)
        BY <4>1, SubSeqOfConcat1 DEF bytes
      <4>3. QED
        BY <4>2, SubSeqFull DEF n
    <3>2. SubSeq(bytes, n + 1, n + m) = raw
      <4>1. n + 1 \in n + 1..n + m /\ n + m \in n + 1..n + m /\ n + 1 - n = 1 /\ n + m - n = m
        BY <1>2
      <4>2. SubSeq(bytes, n + 1, n + m) = SubSeq(raw, n + 1 - n, n + m - n)
        BY <4>1, SubSeqOfConcat2 DEF bytes, n, m
      <4>3. SubSeq(raw, 1, m) = raw
        BY SubSeqFull DEF m
      <4>4. QED
        BY <4>1, <4>2, <4>3
    <3>3. QED
      BY <2>1, <2>6, <3>1, <3>2, Zenon DEF front
  <2>7. read.prefix = front
    BY <2>1
  <2>8. QED
    BY <1>12, <2>5, <2>6, <2>7
<1>15. QED
  BY <1>13, <1>14

\* Bytes of a contract's or of governance's identifier come back as they are, without a key type.
LEMMA SpecialBack ==
  ASSUME NEW prefix \in Seq(Letter), NEW raw \in Seq(Letter)
  PROVE  LET bytes == prefix \o raw IN
         Ex!Special(prefix)
         => /\ Ex!GetPublicKeyIdentifierFromBytes(bytes) = [prefix |-> bytes, raw |-> <<>>]
            /\ bytes \in Seq(Letter) /\ bytes \o <<>> = bytes
            /\ Ex!GetKeyTypeFromPublicKey(bytes) = None
            /\ Ex!GetKeyTypeFromPublicKey(prefix) = None
<1> DEFINE bytes == prefix \o raw
           three == SubSeq(bytes, 1, 3)
           n == Len(prefix)
           m == Len(raw)
<1>0. SUFFICES ASSUME Ex!Special(prefix)
               PROVE  /\ Ex!GetPublicKeyIdentifierFromBytes(bytes) = [prefix |-> bytes, raw |-> <<>>]
                      /\ bytes \in Seq(Letter) /\ bytes \o <<>> = bytes
                      /\ Ex!GetKeyTypeFromPublicKey(bytes) = None
                      /\ Ex!GetKeyTypeFromPublicKey(prefix) = None
  OBVIOUS
<1>1. /\ bytes \in Seq(Letter) /\ Len(bytes) = n + m
      /\ \A i \in 1..n + m : bytes[i] = IF i <= n THEN prefix[i] ELSE raw[i - n]
  BY ConcatProperties
<1>2. /\ n >= 3 /\ prefix[1] \notin {"A", "B"}
      /\ \/ prefix[1] = "s" /\ prefix[2] = "c" /\ prefix[3] = "_"
         \/ prefix[1] = "g" /\ prefix[2] = "o" /\ prefix[3] = "v"
  BY <1>0, SpecialRead
<1>3. n \in Nat /\ m \in Nat
  BY LenProperties
<1>4. bytes \o <<>> = bytes
  BY <1>1, ConcatEmptySeq
<1> HIDE DEF bytes, n, m
<1>5. n \in Nat /\ m \in Nat /\ n >= 3 /\ n + m >= 3
  <2>1. n >= 3
    BY <1>2
  <2>2. QED
    BY <1>3, <2>1
<1>6. bytes[1] = prefix[1] /\ bytes[2] = prefix[2] /\ bytes[3] = prefix[3]
  <2>1. 1 \in 1..n + m /\ 2 \in 1..n + m /\ 3 \in 1..n + m /\ 1 <= n /\ 2 <= n /\ 3 <= n
    BY <1>5
  <2>2. QED
    BY <1>1, <2>1
<1>7. /\ three \in Seq(Letter) /\ Len(three) = 3
      /\ three[1] = bytes[1] /\ three[2] = bytes[2] /\ three[3] = bytes[3]
  <2>1. \A i \in 1..3 : bytes[i] \in Letter
    <3>1. \A i \in 1..3 : i \in 1..n + m
      BY <1>5
    <3>2. QED
      BY <1>1, <3>1, ElementOfSeq
  <2>2. /\ SubSeq(bytes, 1, 3) \in Seq(Letter)
        /\ Len(SubSeq(bytes, 1, 3)) = IF 1 <= 3 THEN 3 - 1 + 1 ELSE 0
        /\ \A i \in 1..3 - 1 + 1 : SubSeq(bytes, 1, 3)[i] = bytes[1 + i - 1]
    BY <2>1, SubSeqProperties
  <2> HIDE DEF three
  <2>3. Len(three) = 3
    BY <2>2 DEF three
  <2>4. \A i \in 1..3 : i \in 1..3 - 1 + 1 /\ 1 + i - 1 = i
    OBVIOUS
  <2>5. \A i \in 1..3 : three[i] = bytes[i]
    BY <2>2, <2>4 DEF three
  <2>6. 1 \in 1..3 /\ 2 \in 1..3 /\ 3 \in 1..3
    OBVIOUS
  <2>7. QED
    BY <2>2, <2>3, <2>5, <2>6, Zenon DEF three
<1> HIDE DEF three
<1>8. three \in {<<"s", "c", "_">>, <<"g", "o", "v">>}
  <2>1. \A i \in 1..3 : i = 1 \/ i = 2 \/ i = 3
    OBVIOUS
  <2>2. ASSUME NEW t \in Seq(Letter), Len(t) = 3,
               t[1] = three[1], t[2] = three[2], t[3] = three[3]
        PROVE  three = t
    <3>1. \A i \in 1..3 : three[i] = t[i]
      BY <2>1, <2>2
    <3>2. QED
      BY <1>7, <2>2, <3>1, SeqEqual
  <2>3. CASE prefix[1] = "s" /\ prefix[2] = "c" /\ prefix[3] = "_"
    <3> DEFINE t == <<"s", "c", "_">>
    <3>1. t \in Seq(Letter) /\ Len(t) = 3 /\ t[1] = "s" /\ t[2] = "c" /\ t[3] = "_"
      BY LettersKnown, ShortTuples
    <3> HIDE DEF t
    <3>2. three = t
      BY <1>6, <1>7, <2>2, <2>3, <3>1
    <3>3. QED
      BY <3>2 DEF t
  <2>4. CASE prefix[1] = "g" /\ prefix[2] = "o" /\ prefix[3] = "v"
    <3> DEFINE t == <<"g", "o", "v">>
    <3>1. t \in Seq(Letter) /\ Len(t) = 3 /\ t[1] = "g" /\ t[2] = "o" /\ t[3] = "v"
      BY LettersKnown, ShortTuples
    <3> HIDE DEF t
    <3>2. three = t
      BY <1>6, <1>7, <2>2, <2>4, <3>1
    <3>3. QED
      BY <3>2 DEF t
  <2>5. QED
    BY <1>2, <2>3, <2>4
<1>9. Len(bytes) >= 3
  BY <1>1, <1>5
<1>10. Ex!GetPublicKeyIdentifierFromBytes(bytes) = [prefix |-> bytes, raw |-> <<>>]
  BY <1>8, <1>9, Zenon DEF Ex!GetPublicKeyIdentifierFromBytes, three
<1>11. Skip(bytes) = 0
  <2>1. "s" # "r" /\ "g" # "r"
    OBVIOUS
  <2>2. bytes[1] # "r"
    BY <1>2, <1>6, <2>1
  <2>3. QED
    BY <2>2, Zenon DEF Skip
<1>12. Ex!GetKeyTypeFromPublicKey(bytes) = None
  <2>a. 0 + 1 = 1
    OBVIOUS
  <2>b. bytes[1] \notin {"A", "B"}
    BY <1>2, <1>6, Zenon
  <2>1. bytes[0 + 1] \notin {"A", "B"}
    BY <2>a, <2>b, Zenon
  <2>2. QED
    BY <1>1, <1>11, <2>1, KeyTypeRead
<1>13. Ex!GetKeyTypeFromPublicKey(prefix) = None
  BY <1>0, Zenon DEF Ex!GetKeyTypeFromPublicKey
<1>14. QED
  BY <1>1, <1>4, <1>10, <1>12, <1>13 DEF bytes

\* What the bytes of an identifier are read as.
LEMMA IdentifierRead ==
  ASSUME case \in Cases, case.kind = "identifier"
  PROVE  LET id == case.id
             bytes == Ex!GetPublicKeyBytes(id)
             read == Ex!GetPublicKeyIdentifierFromBytes(bytes)
             type == Ex!GetKeyTypeFromPublicKey(id.prefix)
         IN  bytes # None /\ (Ex!Special(id.prefix) \/ type # None)
             => /\ read = None => ~Ex!Plain(id.raw)
                /\ read # None =>
                     /\ Ex!GetKeyTypeFromPublicKey(read.prefix) = type
                     /\ Ex!Plain(id.raw) =>
                          /\ read.prefix \o read.raw = id.prefix \o id.raw
                          /\ ~Ex!Special(id.prefix) =>
                               read = [prefix |-> id.prefix, raw |-> id.raw]
<1> DEFINE prefix == case.id.prefix
           raw == case.id.raw
           bytes == Ex!GetPublicKeyBytes(case.id)
           read == Ex!GetPublicKeyIdentifierFromBytes(bytes)
           type == Ex!GetKeyTypeFromPublicKey(prefix)
<1>1. /\ Ex!CaseAllowed(case) /\ None \notin Ex!Identifier /\ None \notin Seq(STRING)
  BY ExchangeAssumption, Zenon DEF Ex!ExchangeConstants
<1>2. /\ case.id \in Ex!Identifier
      /\ type # None => /\ \A i \in DOMAIN prefix : prefix[i] \in Ex!PrefixBytes
                        /\ prefix[Len(prefix)] = "_"
  BY <1>1 DEF Ex!CaseAllowed
<1>3. prefix \in Seq(STRING) /\ raw \in Seq(STRING)
  BY <1>2 DEF Ex!Identifier
<1>4. prefix \in Seq(Letter) /\ raw \in Seq(Letter)
  <2>1. STRING \subseteq Letter
    BY DEF Letter
  <2> HIDE DEF prefix, raw
  <2>2. QED
    BY <1>3, <2>1, SeqMonotonic
<1> HIDE DEF prefix, raw, type
<1>5. CASE Ex!Special(prefix)
  <2>1. bytes = prefix \o raw
    BY <1>5, Zenon DEF Ex!GetPublicKeyBytes, prefix, raw
  <2>2. /\ Ex!GetPublicKeyIdentifierFromBytes(prefix \o raw) = [prefix |-> prefix \o raw, raw |-> <<>>]
        /\ (prefix \o raw) \o <<>> = prefix \o raw
        /\ Ex!GetKeyTypeFromPublicKey(prefix \o raw) = None /\ type = None
    BY <1>4, <1>5, SpecialBack DEF type
  <2>3. [prefix |-> prefix \o raw, raw |-> <<>>] \in Ex!Identifier
    <3>1. prefix \o raw \in Seq(STRING) /\ <<>> \in Seq(STRING)
      BY <1>3, ConcatProperties, EmptySeq
    <3>2. QED
      BY <3>1 DEF Ex!Identifier
  <2>a. read = [prefix |-> prefix \o raw, raw |-> <<>>]
    BY <2>1, <2>2, Zenon
  <2> HIDE DEF read, bytes
  <2>4. /\ read # None
        /\ read.prefix = prefix \o raw /\ read.raw = <<>>
    BY <1>1, <2>3, <2>a
  <2>5. QED
    BY <1>5, <2>2, <2>4, Zenon DEF read, bytes, prefix, raw, type
<1>6. CASE ~Ex!Special(prefix) /\ type # None /\ bytes # None
  <2>1. bytes = prefix \o raw /\ raw # <<>>
    BY <1>6, Zenon DEF Ex!GetPublicKeyBytes, prefix, raw
  <2>2. \/ read = None /\ ~Ex!Plain(raw)
        \/ /\ Ex!GetKeyTypeFromPublicKey(read.prefix) = type
           /\ Ex!Plain(raw) => read = [prefix |-> prefix, raw |-> raw]
    BY <1>2, <1>4, <1>6, <2>1, KeyedRead DEF type
  <2>3. [prefix |-> prefix, raw |-> raw] # None
    BY <1>1, <1>3 DEF Ex!Identifier
  <2>4. /\ [prefix |-> prefix, raw |-> raw].prefix = prefix
        /\ [prefix |-> prefix, raw |-> raw].raw = raw
    OBVIOUS
  <2> HIDE DEF read, bytes
  <2>5. QED
    BY <1>6, <2>2, <2>3, <2>4, Zenon DEF read, bytes, prefix, raw, type
<1>7. QED
  BY <1>5, <1>6, Zenon DEF prefix, type

\* What was sent and what came back, and who refused.
Answered ==
  /\ pc \in {"given", "sent", "back", "refused"}
  /\ IF pc = "given" THEN sent = None ELSE sent = Ex!Sent
  /\ pc \in {"sent", "back"} => sent # None
  /\ pc = "back" => back = Ex!Received /\ back # None
  /\ pc = "refused" => sent = None \/ Ex!Received = None

\* Sending and receiving keep it.
LEMMA AnsweredStep ==
  ASSUME Answered, Ex!Send \/ Ex!Receive
  PROVE  Answered' /\ case' = case
<1>1. CASE Ex!Send
  <2>1. case' = case /\ sent' = Ex!Sent /\ pc' = IF sent' = None THEN "refused" ELSE "sent"
    BY <1>1, Zenon DEF Ex!Send
  <2>2. Ex!Sent' = Ex!Sent
    BY <2>1, Zenon DEF Ex!Sent, Ex!Connect
  <2>3. CASE sent' = None
    <3>1. pc' = "refused"
      BY <2>1, <2>3
    <3>2. QED
      BY <2>1, <2>2, <2>3, <3>1 DEF Answered
  <2>4. CASE sent' # None
    <3>1. pc' = "sent"
      BY <2>1, <2>4
    <3>2. QED
      BY <2>1, <2>2, <2>4, <3>1 DEF Answered
  <2>5. QED
    BY <2>3, <2>4
<1>2. CASE Ex!Receive
  <2>1. /\ case' = case /\ sent' = sent /\ back' = Ex!Received /\ pc = "sent"
        /\ pc' = IF back' = None THEN "refused" ELSE "back"
    BY <1>2, Zenon DEF Ex!Receive
  <2>2. Ex!Sent' = Ex!Sent
    BY <2>1, Zenon DEF Ex!Sent, Ex!Connect
  <2>3. Ex!Received' = Ex!Received
    BY <2>1, Zenon DEF Ex!Received, Ex!Transported
  <2>4. sent = Ex!Sent /\ sent # None
    BY <2>1 DEF Answered
  <2>5. CASE back' = None
    <3>1. pc' = "refused"
      BY <2>1, <2>5
    <3>2. QED
      BY <2>1, <2>2, <2>3, <2>4, <2>5, <3>1 DEF Answered
  <2>6. CASE back' # None
    <3>1. pc' = "back"
      BY <2>1, <2>6
    <3>2. QED
      BY <2>1, <2>2, <2>3, <2>4, <2>6, <3>1 DEF Answered
  <2>7. QED
    BY <2>5, <2>6
<1>3. QED
  BY <1>1, <1>2

\* An identifier survives.
LEMMA IdentifierHolds ==
  ASSUME case \in Cases, case.kind = "identifier", Answered
  PROVE  Ex!IdentifierSurvives
<1> DEFINE bytes == Ex!GetPublicKeyBytes(case.id)
           read == Ex!GetPublicKeyIdentifierFromBytes(bytes)
<1>1. Ex!Sent = bytes /\ Ex!Received = Ex!GetPublicKeyIdentifierFromBytes(sent)
  BY DEF Ex!Sent, Ex!Received
<1>2. SUFFICES ASSUME sent # None,
                      \/ Ex!Special(case.id.prefix)
                      \/ Ex!GetKeyTypeFromPublicKey(case.id.prefix) # None
               PROVE  Ex!IdentifierSurvives
  BY Zenon DEF Ex!IdentifierSurvives
<1>3. sent = bytes /\ bytes # None /\ Ex!Received = read
  BY <1>1, <1>2 DEF Answered
<1>4. /\ read = None => ~Ex!Plain(case.id.raw)
      /\ read # None =>
           /\ Ex!GetKeyTypeFromPublicKey(read.prefix) = Ex!GetKeyTypeFromPublicKey(case.id.prefix)
           /\ Ex!Plain(case.id.raw) =>
                /\ read.prefix \o read.raw = case.id.prefix \o case.id.raw
                /\ ~Ex!Special(case.id.prefix) =>
                     read = [prefix |-> case.id.prefix, raw |-> case.id.raw]
  BY <1>2, <1>3, IdentifierRead, Zenon
<1> HIDE DEF read, bytes
<1>5. /\ pc = "back" => back = read /\ read # None
      /\ pc = "refused" => read = None
  BY <1>2, <1>3 DEF Answered
<1>6. QED
  BY <1>4, <1>5, Zenon DEF Ex!IdentifierSurvives

\* The address and the signature of a connection.
LEMMA ConnectionHolds ==
  ASSUME case \in Cases, case.kind = "connection", Answered
  PROVE  Ex!AddressProved /\ Ex!SignatureFits
<1> DEFINE id == case.id
           own == Ex!HashTypesOf(id.prefix)
           valid == Ex!IsValidWalletPublicKey(id)
           answer == Ex!Sign(case.answer, id.prefix, case.signer)
<1>1. Ex!CaseAllowed(case) /\ None \notin Seq(Hash)
  BY ExchangeAssumption, Zenon DEF Ex!ExchangeConstants, Ex!Hash, Hash
<1>2. /\ id.prefix \in Seq(STRING) /\ id.text \in Seq(STRING)
      /\ \A i \in DOMAIN id.text : id.text[i] # "_"
  BY <1>1 DEF Ex!CaseAllowed
<1>3. id.prefix \in Seq(Letter) /\ id.text \in Seq(Letter)
  <2>1. STRING \subseteq Letter
    BY DEF Letter
  <2> HIDE DEF id
  <2>2. QED
    BY <1>2, <2>1, SeqMonotonic
<1>4. Ex!Sent = Ex!Connect /\ Ex!Received = answer
  BY DEF Ex!Sent, Ex!Received
<1>5. sent # None => valid
  <2>1. Ex!Connect # None => valid
    BY Zenon DEF Ex!Connect
  <2>2. QED
    BY <1>4, <2>1 DEF Answered
<1>6. Ex!AddressProved
  <2> SUFFICES ASSUME id.text # <<>>, Head(id.text) \notin Hash
               PROVE  /\ sent # None => sent = own
                      /\ pc # "given" /\ case.address \in {None, own} /\ valid => sent # None
    BY Zenon DEF Ex!AddressProved, Ex!Hash, Hash
  <2>1. ASSUME valid
        PROVE  /\ Ex!GenerateAddress(id) = own /\ own # None
    BY <1>1, <1>2, <1>3, <2>1, AddressOfValid, Zenon
  <2>2. ASSUME valid
        PROVE  Ex!Connect = IF case.address \in {None, own} THEN own ELSE None
    BY <2>1, <2>2, Zenon DEF Ex!Connect, Ex!ResolveWalletAddress
  <2> HIDE DEF own, valid, id
  <2>3. sent # None => sent = own
    BY <1>4, <1>5, <2>2 DEF Answered
  <2>4. pc # "given" /\ case.address \in {None, own} /\ valid => sent # None
    BY <1>4, <2>1, <2>2 DEF Answered
  <2>5. QED
    BY <2>3, <2>4
<1>7. Ex!SignatureFits
  <2> SUFFICES ASSUME pc = "back", case.signer # "walletConnect"
               PROVE  LET k == Ex!GetKeyTypeFromPublicKey(id.prefix)
                      IN  back = SignatureLength[k] /\ id.length = KeyLength[k]
    BY Zenon DEF Ex!SignatureFits
  <2>1. back = answer /\ answer # None /\ valid
    BY <1>4, <1>5 DEF Answered
  <2>2. QED
    BY <1>3, <2>1, SignatureAccepted, Zenon
<1>8. QED
  BY <1>6, <1>7

\* A message survives.
LEMMA EnvelopeHolds ==
  ASSUME case \in Cases, case.kind = "envelope", Answered
  PROVE  Ex!EnvelopeSurvives
<1> DEFINE envelope == Ex!Serialize(case.message, case.schemaGiven)
           read == Ex!Deserialize(Ex!Transported(envelope))
<1>1. case.message \in Ex!Message
  <2>1. Ex!CaseAllowed(case)
    BY ExchangeAssumption, Zenon DEF Ex!ExchangeConstants
  <2>2. QED
    BY <2>1 DEF Ex!CaseAllowed
<1>2. Ex!Sent = envelope /\ Ex!Received = Ex!Deserialize(Ex!Transported(sent))
  BY DEF Ex!Sent, Ex!Received
<1>3. pc # "given" => sent = envelope /\ Ex!Received = read
  BY <1>2 DEF Answered
<1>4. /\ envelope = None => case.message.type \notin Ex!Registry
      /\ envelope # None /\ read # None => read = case.message
      /\ envelope # None /\ read = None =>
           \/ case.message.type \notin Ex!Registry \/ case.message.content = <<>>
           \/ case.version # 1
  BY <1>1, EnvelopeRead, Zenon
<1> HIDE DEF envelope, read
<1>5. /\ pc = "back" => back = read /\ read # None /\ envelope # None
      /\ pc = "refused" => envelope = None \/ read = None
  BY <1>3 DEF Answered
<1>6. QED
  BY <1>4, <1>5, Zenon DEF Ex!EnvelopeSurvives

-----------------------------------------------------------------------------
(* Exchange: listeners *)

Kept(array, h, kept, n) ==
  IF n = 0 THEN <<>> ELSE IF array[n] = h THEN kept[n - 1] ELSE Append(kept[n - 1], array[n])

\* There is a function that filters from the front on.
LEMMA KeptEquation ==
  ASSUME NEW array, NEW h, NEW l \in Nat
  PROVE  \E kept : kept = [n \in 0..l |-> Kept(array, h, kept, n)]
<1> DEFINE Good == {n \in Nat : \E kept : kept = [i \in 0..n |-> Kept(array, h, kept, i)]}
<1>1. 0 \in Good
  <2> DEFINE f == [i \in 0..0 |-> <<>>]
  <2>1. f = [i \in 0..0 |-> Kept(array, h, f, i)]
    BY DEF Kept
  <2> HIDE DEF f
  <2>2. QED
    BY <2>1
<1>2. ASSUME NEW n \in Nat, n \in Good PROVE n + 1 \in Good
  <2>1. PICK f : f = [i \in 0..n |-> Kept(array, h, f, i)]
    BY <1>2
  <2> DEFINE g == [i \in 0..n + 1 |-> Kept(array, h, f, i)]
  <2>2. ASSUME NEW i \in 0..n + 1 PROVE Kept(array, h, g, i) = Kept(array, h, f, i)
    <3>1. CASE i = 0
      BY <3>1 DEF Kept
    <3>2. CASE i # 0
      <4>1. i - 1 \in 0..n /\ i - 1 \in 0..n + 1
        BY <3>2
      <4>2. g[i - 1] = f[i - 1]
        BY <2>1, <4>1, Zenon
      <4> HIDE DEF g
      <4>3. QED
        BY <4>2, Zenon DEF Kept
    <3>3. QED
      BY <3>1, <3>2
  <2>3. g = [i \in 0..n + 1 |-> Kept(array, h, g, i)]
    <3>1. [i \in 0..n + 1 |-> Kept(array, h, g, i)] = [i \in 0..n + 1 |-> Kept(array, h, f, i)]
      BY <2>2, Zenon
    <3>2. QED
      BY <3>1, Zenon
  <2> HIDE DEF g
  <2>4. n + 1 \in Nat
    OBVIOUS
  <2>5. QED
    BY <2>3, <2>4, Zenon
<1>3. l \in Good
  <2> SUFFICES ASSUME l \notin Good PROVE FALSE
    OBVIOUS
  <2> HIDE DEF Good
  <2> DEFINE bad == Nat \ Good
  <2>1. PICK x \in bad : \A y \in bad : x <= y
    <3>1. bad \in SUBSET Nat /\ bad # {}
      OBVIOUS
    <3> HIDE DEF bad
    <3>2. QED
      BY <3>1, Least
  <2>2. x \in Nat /\ x # 0
    BY <1>1, <2>1
  <2>3. x - 1 \in Nat /\ x - 1 + 1 = x /\ ~(x <= x - 1)
    BY <2>2
  <2>4. x - 1 \in Good
    BY <2>1, <2>3
  <2>5. x - 1 + 1 \in Good
    BY <1>2, <2>3, <2>4
  <2>6. QED
    BY <2>1, <2>3, <2>5
<1>4. QED
  BY <1>3

\* The rest is of the array, without the listener.
LEMMA WithoutRead ==
  ASSUME NEW H, NEW array \in Seq(H), NEW h
  PROVE  Ex!Without(array, h) \in Seq({array[i] : i \in 1..Len(array)} \ {h})
<1> DEFINE l == Len(array)
           R == {array[i] : i \in 1..l} \ {h}
           kept == CHOOSE f : f = [n \in 0..l |-> Kept(array, h, f, n)]
<1>1. l \in Nat
  BY LenProperties
<1>2. Ex!Without(array, h) = kept[l]
  BY Zenon DEF Ex!Without, Kept
<1>3. kept = [n \in 0..l |-> Kept(array, h, kept, n)]
  <2>1. \E f : f = [n \in 0..l |-> Kept(array, h, f, n)]
    BY <1>1, KeptEquation
  <2>2. QED
    BY <2>1, Zenon
<1> HIDE DEF kept
<1>4. kept[0] = <<>>
  <2>1. 0 \in 0..l
    BY <1>1
  <2>2. kept[0] = Kept(array, h, kept, 0)
    BY <1>3, <2>1, Zenon
  <2>3. QED
    BY <2>2, Zenon DEF Kept
<1>5. ASSUME NEW n \in 1..l, kept[n - 1] \in Seq(R) PROVE kept[n] \in Seq(R)
  <2>1. n \in 0..l /\ n # 0
    BY <1>1
  <2>2. kept[n] = IF array[n] = h THEN kept[n - 1] ELSE Append(kept[n - 1], array[n])
    <3>1. kept[n] = Kept(array, h, kept, n)
      BY <1>3, <2>1, Zenon
    <3>2. QED
      BY <2>1, <3>1, Zenon DEF Kept
  <2>3. array[n] # h => array[n] \in R
    OBVIOUS
  <2> HIDE DEF R
  <2>4. CASE array[n] = h
    BY <1>5, <2>2, <2>4
  <2>5. CASE array[n] # h
    <3>1. kept[n] = Append(kept[n - 1], array[n]) /\ array[n] \in R
      BY <2>2, <2>3, <2>5
    <3>2. Append(kept[n - 1], array[n]) \in Seq(R)
      BY <1>5, <3>1, AppendProperties
    <3>3. QED
      BY <3>1, <3>2
  <2>6. QED
    BY <2>4, <2>5
<1> HIDE DEF R, l
<1>6. kept[l] \in Seq(R)
  <2> DEFINE bad == {n \in 0..l : kept[n] \notin Seq(R)}
  <2>1. SUFFICES ASSUME kept[l] \notin Seq(R) PROVE FALSE
    OBVIOUS
  <2>2. bad \in SUBSET Nat /\ bad # {}
    <3>1. l \in 0..l
      BY <1>1
    <3>2. QED
      BY <2>1, <3>1
  <2>3. PICK x \in bad : \A y \in bad : x <= y
    <3> HIDE DEF bad
    <3>1. QED
      BY <2>2, Least
  <2>4. x \in 0..l /\ kept[x] \notin Seq(R)
    BY <2>3
  <2>5. x # 0
    BY <1>4, <2>4, EmptySeq
  <2>6. x \in 1..l /\ x - 1 \in 0..l /\ ~(x <= x - 1)
    <3>1. x \in 0..l
      BY <2>4
    <3> HIDE DEF bad
    <3>2. QED
      BY <1>1, <2>5, <3>1
  <2>7. kept[x - 1] \in Seq(R)
    BY <2>3, <2>6
  <2>8. QED
    BY <1>5, <2>4, <2>6, <2>7
<1>7. QED
  BY <1>2, <1>6 DEF R, l

\* Arrays of listeners, and which of them the adapter has and the emission began with.
Boards(H) ==
  {b \in [all : Seq(Seq(H)), adapter : Nat, emission : Nat, at : Nat] : b.adapter \in 1..Len(b.all)}

\* The array an emission began with grows at most.
Longer(a, b) == Len(a) <= Len(b) /\ \A i \in 1..Len(a) : b[i] = a[i]

\* on lengthens the adapter's array, which may be the emission's.
LEMMA OnRead ==
  ASSUME NEW H, NEW a \in Boards(H), NEW h \in H
  PROVE  LET b == Ex!On(a, h) IN
         /\ b \in Boards(H) /\ b.emission = a.emission /\ b.at = a.at
         /\ Longer(a.all[1], b.all[1])
<1> DEFINE b == Ex!On(a, h)
           n == a.adapter
           grown == Append(a.all[n], h)
           all == [a.all EXCEPT ![n] = grown]
<1>1. /\ a \in [all : Seq(Seq(H)), adapter : Nat, emission : Nat, at : Nat]
      /\ n \in 1..Len(a.all)
  BY DEF Boards
<1>2. a.all \in Seq(Seq(H)) /\ n \in Nat /\ a.emission \in Nat /\ a.at \in Nat
  BY <1>1
<1>3. a.all[n] \in Seq(H)
  BY <1>1, <1>2, ElementOfSeq
<1>4. /\ grown \in Seq(H) /\ Len(grown) = Len(a.all[n]) + 1
      /\ \A i \in 1..Len(a.all[n]) : grown[i] = a.all[n][i]
  BY <1>3, AppendProperties
<1> HIDE DEF grown
<1>5. /\ all \in Seq(Seq(H)) /\ Len(all) = Len(a.all)
      /\ \A i \in 1..Len(a.all) : all[i] = IF i = n THEN grown ELSE a.all[i]
  BY <1>1, <1>2, <1>4, ExceptSeq
<1>6. b = [a EXCEPT !.all = all]
  BY DEF Ex!On, grown
<1> HIDE DEF all, b
<1>7. b.all = all /\ b.adapter = n /\ b.emission = a.emission /\ b.at = a.at
      /\ b \in [all : Seq(Seq(H)), adapter : Nat, emission : Nat, at : Nat]
  BY <1>1, <1>2, <1>5, <1>6
<1>8. b \in Boards(H)
  BY <1>1, <1>5, <1>7 DEF Boards
<1>9. Longer(a.all[1], b.all[1])
  <2>1. Len(a.all) \in Nat
    BY <1>2, LenProperties
  <2>2. 1 \in 1..Len(a.all)
    BY <1>1, <2>1
  <2>3. all[1] = IF 1 = n THEN grown ELSE a.all[1]
    BY <1>5, <2>2
  <2>4. a.all[1] \in Seq(H)
    BY <1>2, <2>2, ElementOfSeq
  <2>5. Len(a.all[1]) \in Nat
    BY <2>4, LenProperties
  <2>6. CASE 1 = n
    <3>1. all[1] = grown /\ Len(grown) = Len(a.all[1]) + 1
          /\ \A i \in 1..Len(a.all[1]) : grown[i] = a.all[1][i]
      BY <1>4, <2>3, <2>6
    <3>2. Len(a.all[1]) <= Len(a.all[1]) + 1
      BY <2>5
    <3>3. QED
      BY <1>7, <3>1, <3>2 DEF Longer
  <2>7. CASE 1 # n
    <3>1. all[1] = a.all[1] /\ Len(a.all[1]) <= Len(a.all[1])
      BY <2>3, <2>5, <2>7
    <3>2. QED
      BY <1>7, <3>1 DEF Longer
  <2>8. QED
    BY <2>6, <2>7
<1>10. QED
  BY <1>7, <1>8, <1>9 DEF b

\* off leaves what the emission began with, and takes the listener from the adapter's array.
LEMMA OffRead ==
  ASSUME NEW H, NEW a \in Boards(H), NEW h \in H
  PROVE  LET b == Ex!Off(a, h) IN
         /\ b \in Boards(H) /\ b.emission = a.emission /\ b.at = a.at /\ b.all[1] = a.all[1]
         /\ \A j \in 1..Len(b.all[b.adapter]) :
              /\ b.all[b.adapter][j] # h
              /\ \E i \in 1..Len(a.all[a.adapter]) :
                   a.all[a.adapter][i] = b.all[b.adapter][j]
<1> DEFINE b == Ex!Off(a, h)
           n == a.adapter
           old == a.all[n]
           rest == Ex!Without(old, h)
           all == Append(a.all, rest)
           l == Len(a.all)
<1>1. /\ a \in [all : Seq(Seq(H)), adapter : Nat, emission : Nat, at : Nat]
      /\ n \in 1..l
  BY DEF Boards
<1>2. a.all \in Seq(Seq(H)) /\ n \in Nat /\ a.emission \in Nat /\ a.at \in Nat
  BY <1>1
<1>3. old \in Seq(H) /\ \A i \in 1..Len(old) : old[i] \in H
  BY <1>1, <1>2, ElementOfSeq
<1>4. rest \in Seq({old[i] : i \in 1..Len(old)} \ {h})
  BY <1>3, WithoutRead
<1> HIDE DEF rest
<1>5. rest \in Seq(H)
  <2>1. {old[i] : i \in 1..Len(old)} \ {h} \subseteq H
    BY <1>3
  <2>2. QED
    BY <1>4, <2>1, SeqMonotonic
<1>6. l \in Nat /\ 1 \in 1..l
  <2>1. l \in Nat
    BY <1>2, LenProperties
  <2>2. QED
    BY <1>1, <2>1
<1>7. /\ all \in Seq(Seq(H)) /\ Len(all) = l + 1
      /\ all[1] = a.all[1] /\ all[l + 1] = rest
  BY <1>2, <1>5, <1>6, AppendProperties
<1>8. b = [a EXCEPT !.all = all, !.adapter = l + 1]
  BY DEF Ex!Off, rest
<1> HIDE DEF all, b, l, n, old
<1>9. l + 1 \in Nat /\ l + 1 \in 1..l + 1
  BY <1>6
<1>10. b.all = all /\ b.adapter = l + 1 /\ b.emission = a.emission /\ b.at = a.at
       /\ b \in [all : Seq(Seq(H)), adapter : Nat, emission : Nat, at : Nat]
  BY <1>1, <1>2, <1>7, <1>8, <1>9
<1>11. b \in Boards(H)
  BY <1>7, <1>9, <1>10 DEF Boards
<1>12. ASSUME NEW j \in 1..Len(rest)
       PROVE  rest[j] # h /\ \E i \in 1..Len(old) : old[i] = rest[j]
  <2>1. rest[j] \in {old[i] : i \in 1..Len(old)} \ {h}
    BY <1>4, ElementOfSeq
  <2>2. QED
    BY <2>1
<1>13. QED
  BY <1>7, <1>10, <1>11, <1>12 DEF b, n, old

Quiet == \A i \in 1..Len(heard) : case.acts[heard[i]].does \notin {"on", "again"}

\* Nobody who was taken off is in the adapter's array.
Gone ==
  \A i \in 1..Len(heard) : case.acts[heard[i]].does = "off" =>
    \A j \in 1..Len(lists.all[lists.adapter]) :
      lists.all[lists.adapter][j] # case.acts[heard[i]].whom

\* An emission has called the listeners of its array one after another, and that array is what was
\* subscribed and what was added since.
Emission ==
  LET H == DOMAIN case.acts
      first == lists.all[1]
  IN  /\ pc \in {"given", "back"}
      /\ lists \in Boards(H) /\ lists.emission = 1 /\ lists.at = Len(heard) + 1
      /\ heard \in Seq(H) /\ first \in Seq(H) /\ Longer(heard, first)
      /\ case.subscribed \in Seq(H) /\ Longer(case.subscribed, first)
      /\ pc = "back" => lists.at > Len(first)
      /\ Quiet => first = case.subscribed /\ Gone

\* What a listener that subscribes nobody leaves of the arrays: the emission's stays, and the
\* adapter's loses at most whom it takes off.
Unmoved(next, act) ==
  act.does \notin {"on", "again"} =>
    /\ next.all[1] = lists.all[1]
    /\ \A j \in 1..Len(next.all[next.adapter]) :
         /\ act.does = "off" => next.all[next.adapter][j] # act.whom
         /\ \E i \in 1..Len(lists.all[lists.adapter]) :
              lists.all[lists.adapter][i] = next.all[next.adapter][j]

\* off subscribes nobody.
LEMMA OffUnmoved ==
  ASSUME NEW H, NEW act, NEW next, lists \in Boards(H), act.whom \in H, act.does = "off",
         next = Ex!Off(lists, act.whom)
  PROVE  /\ next \in Boards(H) /\ next.emission = lists.emission /\ next.all[1] = lists.all[1]
         /\ Unmoved(next, act)
<1> DEFINE g == act.whom
           b == Ex!Off(lists, g)
<1>1. g \in H
  OBVIOUS
<1> HIDE DEF g
<1>2. /\ b \in Boards(H) /\ b.emission = lists.emission /\ b.all[1] = lists.all[1]
      /\ \A j \in 1..Len(b.all[b.adapter]) :
           /\ b.all[b.adapter][j] # g
           /\ \E i \in 1..Len(lists.all[lists.adapter]) :
                lists.all[lists.adapter][i] = b.all[b.adapter][j]
  BY <1>1, OffRead
<1>3. next = b
  BY DEF g
<1> HIDE DEF b
<1>4. \A j \in 1..Len(next.all[next.adapter]) :
        /\ next.all[next.adapter][j] # g
        /\ \E i \in 1..Len(lists.all[lists.adapter]) :
             lists.all[lists.adapter][i] = next.all[next.adapter][j]
  BY <1>2, <1>3
<1>5. next.all[1] = lists.all[1]
  BY <1>2, <1>3
<1>6. Unmoved(next, act)
  BY <1>4, <1>5 DEF Unmoved, g
<1>7. QED
  BY <1>2, <1>3, <1>6

\* Who was taken off is gone from the array that is there next.
LEMMA GoneNext ==
  ASSUME case' = case,
         \A i \in 1..Len(heard') : case.acts[heard'[i]].does = "off" =>
           \A j \in 1..Len(lists'.all[lists'.adapter]) :
             lists'.all[lists'.adapter][j] # case.acts[heard'[i]].whom
  PROVE  Gone'
<1> QED BY Zenon DEF Gone

\* A listener has been called, and did what it does to the arrays.
LEMMA CalledKeeps ==
  ASSUME Emission, NEW next \in Boards(DOMAIN case.acts),
         lists.at <= Len(lists.all[1]), pc = "given", pc' = pc, case' = case,
         heard' = Append(heard, lists.all[1][lists.at]),
         next.emission = 1, next.all[1] \in Seq(DOMAIN case.acts),
         Longer(lists.all[1], next.all[1]),
         Unmoved(next, case.acts[lists.all[1][lists.at]]),
         lists' = [next EXCEPT !.at = lists.at + 1]
  PROVE  Emission'
<1> DEFINE H == DOMAIN case.acts
           first == lists.all[1]
           h == first[lists.at]
           n == Len(heard)
<1>1. /\ lists \in Boards(H) /\ lists.emission = 1 /\ lists.at = n + 1
      /\ heard \in Seq(H) /\ first \in Seq(H) /\ Longer(heard, first)
      /\ case.subscribed \in Seq(H) /\ Longer(case.subscribed, first)
      /\ Quiet => first = case.subscribed /\ Gone
  BY DEF Emission
<1>2. n \in Nat /\ Len(first) \in Nat /\ Len(case.subscribed) \in Nat
  BY <1>1, LenProperties
<1>3. lists.at \in 1..Len(first) /\ n + 1 <= Len(first)
  <2>1. lists.at = n + 1 /\ lists.at <= Len(first)
    BY <1>1
  <2> HIDE DEF n, first
  <2>2. QED
    BY <1>2, <2>1
<1>4. h \in H
  BY <1>1, <1>3, ElementOfSeq
<1>5. /\ heard' \in Seq(H) /\ Len(heard') = n + 1
      /\ \A i \in 1..n : heard'[i] = heard[i]
      /\ heard'[n + 1] = h
  <2> DEFINE longer == Append(heard, h)
  <2>1. /\ longer \in Seq(H) /\ Len(longer) = n + 1
        /\ \A i \in 1..n : longer[i] = heard[i]
        /\ longer[n + 1] = h
    <3>1. heard \in Seq(H) /\ h \in H
      BY <1>1, <1>4
    <3> HIDE DEF H, h
    <3>2. QED
      BY <3>1, AppendProperties
  <2>2. heard' = longer
    OBVIOUS
  <2> HIDE DEF longer, h, n, H
  <2>3. QED
    BY <2>1, <2>2, Zenon
<1>6. /\ next.adapter \in 1..Len(next.all)
      /\ next \in [all : Seq(Seq(H)), adapter : Nat, emission : Nat, at : Nat]
  BY DEF Boards
<1>7. /\ lists'.all = next.all /\ lists'.adapter = next.adapter
      /\ lists'.emission = next.emission /\ lists'.at = lists.at + 1
      /\ lists' \in [all : Seq(Seq(H)), adapter : Nat, emission : Nat, at : Nat]
  <2>1. lists.at + 1 \in Nat
    BY <1>1, <1>2
  <2>2. QED
    BY <1>6, <2>1
<1>8. lists' \in Boards(H)
  BY <1>6, <1>7 DEF Boards
<1> DEFINE now == next.all[1]
<1>9. lists'.all[1] = now /\ now \in Seq(H) /\ Longer(first, now) /\ lists'.emission = 1
  BY <1>7
<1>10. Len(now) \in Nat
  BY <1>9, LenProperties
<1>11. Longer(heard', now)
  <2> HIDE DEF n, first, now
  <2>1. /\ Len(first) <= Len(now) /\ \A i \in 1..Len(first) : now[i] = first[i]
        /\ \A i \in 1..n : first[i] = heard[i]
    BY <1>1, <1>9 DEF Longer, n
  <2>2. n + 1 <= Len(now)
    <3>1. Len(first) <= Len(now)
      BY <2>1
    <3>2. QED
      BY <1>2, <1>3, <1>10, <3>1
  <2>3. ASSUME NEW i \in 1..n + 1 PROVE now[i] = heard'[i]
    <3>1. i \in 1..Len(first) /\ (i \in 1..n \/ i = n + 1)
      BY <1>2, <1>3
    <3>2. now[i] = first[i]
      BY <2>1, <3>1
    <3>3. CASE i \in 1..n
      BY <1>5, <2>1, <3>2, <3>3
    <3>4. CASE i = n + 1
      <4>1. h = first[n + 1]
        BY <1>1
      <4>2. QED
        BY <1>5, <3>2, <3>4, <4>1
    <3>5. QED
      BY <3>1, <3>3, <3>4
  <2>4. QED
    BY <1>5, <2>2, <2>3 DEF Longer
<1>12. Longer(case.subscribed, now)
  <2> DEFINE s == case.subscribed
  <2> HIDE DEF n, first, now, s
  <2>1. /\ Len(s) <= Len(first) /\ \A i \in 1..Len(s) : first[i] = s[i]
        /\ Len(first) <= Len(now) /\ \A i \in 1..Len(first) : now[i] = first[i]
    BY <1>1, <1>9 DEF Longer, s
  <2>2. Len(s) \in Nat
    BY <1>2 DEF s
  <2>3. Len(s) <= Len(now) /\ Len(s) <= Len(first)
    <3>1. Len(s) <= Len(first) /\ Len(first) <= Len(now)
      BY <2>1
    <3>2. QED
      BY <1>2, <1>10, <2>2, <3>1
  <2>4. \A i \in 1..Len(s) : i \in 1..Len(first)
    BY <1>2, <2>2, <2>3
  <2>5. \A i \in 1..Len(s) : now[i] = s[i]
    BY <2>1, <2>4
  <2>6. QED
    BY <2>3, <2>5 DEF Longer, s
<1>13. ASSUME Quiet' PROVE now = case.subscribed /\ Gone'
  <2> DEFINE act == case.acts[h]
             mine == next.all[next.adapter]
             old == lists.all[lists.adapter]
  <2>1. \A i \in 1..n + 1 : case.acts[heard'[i]].does \notin {"on", "again"}
    BY <1>5, <1>13 DEF Quiet
  <2>2. act.does \notin {"on", "again"}
    <3>1. n + 1 \in 1..n + 1
      BY <1>2
    <3>2. QED
      BY <1>5, <2>1, <3>1
  <2>3. Quiet
    <3>1. \A i \in 1..n : i \in 1..n + 1
      BY <1>2
    <3>2. \A i \in 1..n : case.acts[heard[i]].does \notin {"on", "again"}
      BY <1>5, <2>1, <3>1
    <3>3. QED
      BY <3>2 DEF Quiet
  <2>4. /\ now = first
        /\ \A j \in 1..Len(mine) :
             /\ act.does = "off" => mine[j] # act.whom
             /\ \E i \in 1..Len(old) : old[i] = mine[j]
    BY <2>2, Zenon DEF Unmoved
  <2>5. first = case.subscribed /\ Gone
    BY <1>1, <2>3
  <2>6. ASSUME NEW i \in 1..n + 1, case.acts[heard'[i]].does = "off",
               NEW j \in 1..Len(mine)
        PROVE  mine[j] # case.acts[heard'[i]].whom
    <3>1. i \in 1..n \/ i = n + 1
      BY <1>2
    <3>2. CASE i = n + 1
      BY <1>5, <2>4, <2>6, <3>2
    <3>3. CASE i \in 1..n
      <4>1. heard'[i] = heard[i]
        BY <1>5, <3>3
      <4>2. PICK k \in 1..Len(old) : old[k] = mine[j]
        BY <2>4
      <4>3. old[k] # case.acts[heard[i]].whom
        BY <2>5, <2>6, <3>3, <4>1 DEF Gone
      <4>4. QED
        BY <4>1, <4>2, <4>3
    <3>4. QED
      BY <3>1, <3>2, <3>3
  <2>7. Gone'
    <3>1. lists'.all[lists'.adapter] = mine
      BY <1>7
    <3>2. Len(heard') = n + 1
      BY <1>5
    <3> HIDE DEF H, first, h, n, now, act, mine, old
    <3>3. ASSUME NEW i \in 1..Len(heard'), case.acts[heard'[i]].does = "off",
                 NEW j \in 1..Len(lists'.all[lists'.adapter])
          PROVE  lists'.all[lists'.adapter][j] # case.acts[heard'[i]].whom
      <4>1. i \in 1..n + 1 /\ j \in 1..Len(mine)
        BY <3>1, <3>2, <3>3, Zenon
      <4>2. mine[j] # case.acts[heard'[i]].whom
        BY <2>6, <3>3, <4>1, Zenon
      <4>3. QED
        BY <3>1, <4>2, Zenon
    <3>4. QED
      BY <3>3, GoneNext, Zenon
  <2>8. QED
    BY <2>4, <2>5, <2>7
<1>14. lists'.at = Len(heard') + 1
  <2>1. lists'.at = lists.at + 1 /\ lists.at = n + 1 /\ Len(heard') = n + 1
    BY <1>1, <1>5, <1>7
  <2>2. QED
    BY <2>1
<1>15. pc' \in {"given", "back"} /\ pc' # "back"
  OBVIOUS
<1> HIDE DEF now
<1>16. QED
  BY <1>1, <1>5, <1>8, <1>9, <1>11, <1>12, <1>13, <1>14, <1>15, Zenon DEF Emission

\* An emission goes on, or ends.
LEMMA EmissionStep ==
  ASSUME case \in Cases, case.kind = "event", Emission, Ex!Emit
  PROVE  Emission' /\ case' = case
<1> DEFINE H == DOMAIN case.acts
           first == lists.all[1]
           h == first[lists.at]
           act == case.acts[h]
<1>1. /\ lists \in Boards(H) /\ lists.emission = 1 /\ lists.at = Len(heard) + 1
      /\ heard \in Seq(H) /\ first \in Seq(H)
  BY DEF Emission
<1>2. /\ case' = case /\ pc = "given"
      /\ IF lists.at > Len(first) THEN pc' = "back" /\ UNCHANGED <<lists, heard>>
         ELSE /\ heard' = Append(heard, h)
              /\ lists' = [CASE act.does = "on" -> Ex!On(lists, act.whom)
                             [] act.does = "off" -> Ex!Off(lists, act.whom)
                             [] act.does = "again" -> Ex!On(Ex!Off(lists, h), h)
                             [] OTHER -> lists EXCEPT !.at = lists.at + 1]
              /\ UNCHANGED pc
  BY <1>1, Zenon DEF Ex!Emit
<1>3. Len(heard) \in Nat /\ Len(first) \in Nat /\ lists.at \in Nat /\ lists.at >= 1
  <2>1. Len(heard) \in Nat /\ Len(first) \in Nat
    BY <1>1, LenProperties
  <2>2. QED
    BY <1>1, <2>1
<1>4. CASE lists.at > Len(first)
  <2>1. pc' = "back" /\ lists' = lists /\ heard' = heard /\ case' = case
    BY <1>2, <1>4
  <2>2. Quiet' = Quiet /\ Gone' = Gone
    BY <2>1 DEF Quiet, Gone
  <2>3. QED
    BY <1>4, <2>1, <2>2 DEF Emission
<1>5. CASE ~(lists.at > Len(first))
  <2>1. lists.at \in 1..Len(first) /\ lists.at <= Len(first)
    <3> HIDE DEF first
    <3>1. QED
      BY <1>3, <1>5
  <2>2. h \in H
    BY <1>1, <2>1, ElementOfSeq
  <2>3. act.whom \in H
    <3>1. Ex!CaseAllowed(case)
      BY ExchangeAssumption, Zenon DEF Ex!ExchangeConstants
    <3>2. \A g \in H : case.acts[g].whom \in H
      BY <3>1 DEF Ex!CaseAllowed
    <3>3. QED
      BY <2>2, <3>2
  <2> DEFINE next == CASE act.does = "on" -> Ex!On(lists, act.whom)
                       [] act.does = "off" -> Ex!Off(lists, act.whom)
                       [] act.does = "again" -> Ex!On(Ex!Off(lists, h), h)
                       [] OTHER -> lists
  <2>4. /\ heard' = Append(heard, h) /\ pc' = pc /\ pc = "given" /\ case' = case
        /\ lists' = [next EXCEPT !.at = lists.at + 1]
    BY <1>2, <1>5, Zenon
  <2> DEFINE Good ==
               /\ next \in Boards(H) /\ next.emission = 1
               /\ Longer(first, next.all[1])
               /\ Unmoved(next, act)
  <2>5. Longer(first, first)
    BY <1>3 DEF Longer
  <2>6. ASSUME act.does = "on" PROVE Good
    <3>1. next = Ex!On(lists, act.whom)
      BY <2>6
    <3> HIDE DEF next, H, first, h, act
    <3>2. next \in Boards(H) /\ next.emission = lists.emission /\ Longer(lists.all[1], next.all[1])
      BY <1>1, <2>3, <3>1, OnRead
    <3>3. QED
      BY <1>1, <2>6, <3>2 DEF first, Unmoved
  <2>7. ASSUME act.does = "off" PROVE Good
    <3>1. next = Ex!Off(lists, act.whom)
      BY <2>7
    <3> HIDE DEF next, H, first, h, act
    <3>2. lists \in Boards(H) /\ lists.emission = 1
      BY <1>1
    <3> HIDE DEF Good
    <3>3. /\ next \in Boards(H) /\ next.emission = 1 /\ next.all[1] = lists.all[1]
          /\ Unmoved(next, act)
      BY <2>3, <2>7, <3>1, <3>2, OffUnmoved, Zenon
    <3>4. Longer(first, next.all[1])
      BY <2>5, <3>3, Zenon DEF first
    <3>5. QED
      BY <3>3, <3>4, Zenon DEF Good
  <2>8. ASSUME act.does = "again" PROVE Good
    <3> DEFINE less == Ex!Off(lists, h)
    <3>1. next = Ex!On(less, h)
      BY <2>8
    <3> HIDE DEF next, H, first, h, act, less
    <3>2. less \in Boards(H) /\ less.emission = lists.emission /\ less.all[1] = lists.all[1]
      BY <1>1, <2>2, OffRead DEF less
    <3>3. next \in Boards(H) /\ next.emission = less.emission /\ Longer(less.all[1], next.all[1])
      BY <2>2, <3>1, <3>2, OnRead
    <3>4. QED
      BY <1>1, <2>8, <3>2, <3>3 DEF first, Unmoved
  <2>9. ASSUME act.does \notin {"on", "off", "again"} PROVE Good
    <3>1. next = lists
      BY <2>9
    <3> HIDE DEF next, H, first, h, act
    <3>2. QED
      BY <1>1, <2>5, <2>9, <3>1 DEF first, Unmoved
  <2>10. Good
    BY <2>6, <2>7, <2>8, <2>9
  <2>11. next.all[1] \in Seq(H)
    <3> HIDE DEF next
    <3>1. next \in [all : Seq(Seq(H)), adapter : Nat, emission : Nat, at : Nat]
          /\ next.adapter \in 1..Len(next.all)
      BY <2>10 DEF Boards
    <3>2. next.all \in Seq(Seq(H))
      BY <3>1
    <3>3. Len(next.all) \in Nat
      BY <3>2, LenProperties
    <3>4. 1 \in 1..Len(next.all)
      BY <3>1, <3>3
    <3>5. QED
      BY <3>2, <3>4, ElementOfSeq
  <2> HIDE DEF next
  <2>12. QED
    BY <2>1, <2>4, <2>10, <2>11, CalledKeeps
<1>6. QED
  BY <1>4, <1>5

\* What listeners hear.
LEMMA EmissionHolds ==
  ASSUME case.kind = "event", Emission
  PROVE  Ex!ListenersHear
<1> DEFINE H == DOMAIN case.acts
           first == lists.all[1]
           s == case.subscribed
<1>1. /\ lists.at = Len(heard) + 1
      /\ heard \in Seq(H) /\ first \in Seq(H) /\ Longer(heard, first)
      /\ s \in Seq(H) /\ Longer(s, first)
      /\ pc = "back" => lists.at > Len(first)
      /\ Quiet => first = s /\ Gone
  BY DEF Emission
<1>2. Len(heard) \in Nat /\ Len(s) \in Nat /\ Len(first) \in Nat
  BY <1>1, LenProperties
<1>3. /\ Len(heard) <= Len(first) /\ \A i \in 1..Len(heard) : first[i] = heard[i]
      /\ Len(s) <= Len(first) /\ \A i \in 1..Len(s) : first[i] = s[i]
  BY <1>1 DEF Longer
<1> HIDE DEF first, s, H
<1>4. Ex!IsPrefix(heard, s) \/ Ex!IsPrefix(s, heard)
  <2>1. CASE Len(heard) <= Len(s)
    <3>1. \A i \in 1..Len(heard) : i \in 1..Len(s)
      BY <1>2, <2>1
    <3>2. \A i \in 1..Len(heard) : heard[i] = s[i]
      BY <1>3, <3>1
    <3>3. QED
      BY <1>1, <2>1, <3>2, PrefixMeans
  <2>2. CASE ~(Len(heard) <= Len(s))
    <3>1. Len(s) <= Len(heard) /\ \A i \in 1..Len(s) : i \in 1..Len(heard)
      BY <1>2, <2>2
    <3>2. \A i \in 1..Len(s) : s[i] = heard[i]
      BY <1>3, <3>1
    <3>3. QED
      BY <1>1, <3>1, <3>2, PrefixMeans
  <2>3. QED
    BY <2>1, <2>2
<1>5. pc = "back" => Len(heard) = Len(first) /\ Len(heard) >= Len(s)
  <2> SUFFICES ASSUME pc = "back" PROVE Len(heard) = Len(first) /\ Len(heard) >= Len(s)
    OBVIOUS
  <2>1. lists.at > Len(first) /\ lists.at = Len(heard) + 1 /\ Len(heard) <= Len(first)
        /\ Len(s) <= Len(first)
    BY <1>1, <1>3
  <2>2. QED
    BY <1>2, <2>1
<1>6. ASSUME pc = "back", \A h \in Ex!ToSet(heard) : case.acts[h].does \notin {"on", "again"}
      PROVE  /\ heard = s
             /\ \A h \in Ex!ToSet(heard) : case.acts[h].does = "off" =>
                  ~Ex!Contains(lists.all[lists.adapter], case.acts[h].whom)
  <2>1. \A i \in 1..Len(heard) : heard[i] \in Ex!ToSet(heard)
    <3>1. DOMAIN heard = 1..Len(heard)
      BY <1>1, LenProperties
    <3>2. QED
      BY <3>1 DEF Ex!ToSet
  <2>2. Quiet
    BY <1>6, <2>1 DEF Quiet
  <2>3. first = s /\ Gone
    BY <1>1, <2>2
  <2>4. heard = s
    BY <1>1, <1>3, <1>5, <1>6, <2>3, SeqEqual
  <2>5. ASSUME NEW h \in Ex!ToSet(heard), case.acts[h].does = "off"
        PROVE  ~Ex!Contains(lists.all[lists.adapter], case.acts[h].whom)
    <3>1. PICK i \in 1..Len(heard) : heard[i] = h
      <4>1. DOMAIN heard = 1..Len(heard)
        BY <1>1, LenProperties
      <4>2. QED
        BY <4>1 DEF Ex!ToSet
    <3>2. \A j \in 1..Len(lists.all[lists.adapter]) :
            lists.all[lists.adapter][j] # case.acts[h].whom
      BY <2>3, <2>5, <3>1 DEF Gone
    <3>3. QED
      BY <3>2 DEF Ex!Contains
  <2>6. QED
    BY <2>4, <2>5
<1>7. QED
  BY <1>4, <1>5, <1>6, Zenon DEF Ex!ListenersHear, s

-----------------------------------------------------------------------------
(* Exchange: its invariant, and what it says *)

ExchangeInv == case \in Cases /\ IF case.kind = "event" THEN Emission ELSE Answered

\* Nothing has been sent or heard at the start.
LEMMA ExchangeInit == Ex!Init => ExchangeInv
<1> SUFFICES ASSUME Ex!Init PROVE ExchangeInv
  OBVIOUS
<1>1. /\ case \in Cases /\ pc = "given" /\ sent = None /\ heard = <<>>
      /\ lists = Ex!Arrays(IF case.kind = "event" THEN case.subscribed ELSE <<>>)
  BY Zenon DEF Ex!Init
<1>2. CASE case.kind = "event"
  <2> DEFINE H == DOMAIN case.acts
             s == case.subscribed
  <2>1. s \in Seq(H)
    <3>1. Ex!CaseAllowed(case)
      BY <1>1, ExchangeAssumption, Zenon DEF Ex!ExchangeConstants
    <3>2. QED
      BY <1>2, <3>1 DEF Ex!CaseAllowed
  <2>2. lists = [all |-> <<s>>, adapter |-> 1, emission |-> 1, at |-> 1]
    BY <1>1, <1>2, Zenon DEF Ex!Arrays
  <2> HIDE DEF s, H
  <2>3. <<s>> \in Seq(Seq(H)) /\ Len(<<s>>) = 1 /\ <<s>>[1] = s
    BY <2>1
  <2>4. lists.all = <<s>> /\ lists.adapter = 1 /\ lists.emission = 1 /\ lists.at = 1
        /\ lists \in [all : Seq(Seq(H)), adapter : Nat, emission : Nat, at : Nat]
    BY <2>2, <2>3
  <2>5. lists \in Boards(H)
    <3>1. 1 \in 1..1
      OBVIOUS
    <3>2. QED
      BY <2>3, <2>4, <3>1 DEF Boards
  <2>6. heard \in Seq(H) /\ Len(heard) = 0 /\ lists.at = Len(heard) + 1
    BY <1>1, <2>4, EmptySeq
  <2>7. Longer(heard, s) /\ Longer(s, s)
    <3>1. Len(s) \in Nat
      BY <2>1, LenProperties
    <3>2. 0 <= Len(s) /\ Len(s) <= Len(s) /\ \A i \in 1..0 : FALSE
      BY <3>1
    <3>3. QED
      BY <2>6, <3>2 DEF Longer
  <2>8. Gone
    <3>1. \A i \in 1..0 : FALSE
      OBVIOUS
    <3>2. QED
      BY <2>6, <3>1 DEF Gone
  <2>9. lists.all[1] = s /\ pc # "back"
    BY <1>1, <2>3, <2>4
  <2>10. Emission
    BY <1>1, <2>1, <2>4, <2>5, <2>6, <2>7, <2>8, <2>9 DEF Emission, s, H
  <2>11. QED
    BY <1>1, <1>2, <2>10 DEF ExchangeInv
<1>3. CASE case.kind # "event"
  BY <1>1, <1>3 DEF ExchangeInv, Answered
<1>4. QED
  BY <1>2, <1>3

\* Every step of an exchange keeps it.
LEMMA ExchangeStep == ExchangeInv /\ [Ex!Next]_(Ex!vars) => ExchangeInv'
<1> SUFFICES ASSUME ExchangeInv, [Ex!Next]_(Ex!vars) PROVE ExchangeInv'
  OBVIOUS
<1>1. CASE Ex!Send \/ Ex!Receive
  <2>1. case.kind # "event"
    BY <1>1, Zenon DEF Ex!Send, Ex!Receive
  <2>2. Answered' /\ case' = case
    BY <1>1, <2>1, AnsweredStep DEF ExchangeInv
  <2>3. QED
    BY <2>1, <2>2 DEF ExchangeInv
<1>2. CASE Ex!Emit
  <2>1. case.kind = "event"
    BY <1>2, Zenon DEF Ex!Emit
  <2>2. Emission' /\ case' = case
    BY <1>2, <2>1, EmissionStep DEF ExchangeInv
  <2>3. QED
    BY <2>1, <2>2 DEF ExchangeInv
<1>3. CASE UNCHANGED Ex!vars
  <2>1. /\ case' = case /\ pc' = pc /\ sent' = sent /\ back' = back /\ lists' = lists
        /\ heard' = heard
    BY <1>3 DEF Ex!vars
  <2>2. Emission' = Emission
    BY <2>1 DEF Emission, Quiet, Gone
  <2>3. Answered' = Answered
    <3>1. Ex!Sent' = Ex!Sent /\ Ex!Received' = Ex!Received
      BY <2>1, Zenon DEF Ex!Sent, Ex!Connect, Ex!Received, Ex!Transported
    <3>2. QED
      BY <2>1, <3>1 DEF Answered
  <2>4. QED
    BY <2>1, <2>2, <2>3 DEF ExchangeInv
<1>4. QED
  BY <1>1, <1>2, <1>3 DEF Ex!Next

\* It says that an exchange is sound.
LEMMA ExchangeHolds == ExchangeInv => Ex!ExchangeSound
<1> SUFFICES ASSUME ExchangeInv PROVE Ex!ExchangeSound
  OBVIOUS
<1>1. case \in Cases /\ case.kind \in {"identifier", "connection", "envelope", "event"}
  <2>1. case \in Cases
    BY DEF ExchangeInv
  <2>2. Ex!CaseAllowed(case)
    BY <2>1, ExchangeAssumption, Zenon DEF Ex!ExchangeConstants
  <2>3. QED
    BY <2>1, <2>2 DEF Ex!CaseAllowed
<1>2. Ex!IdentifierSurvives
  BY <1>1, IdentifierHolds DEF ExchangeInv, Ex!IdentifierSurvives
<1>3. Ex!AddressProved /\ Ex!SignatureFits
  <2>1. CASE case.kind = "connection"
    BY <1>1, <2>1, ConnectionHolds DEF ExchangeInv
  <2>2. CASE case.kind # "connection"
    BY <2>2, Zenon DEF Ex!AddressProved, Ex!SignatureFits
  <2>3. QED
    BY <2>1, <2>2
<1>4. Ex!EnvelopeSurvives
  <2>1. CASE case.kind = "envelope"
    BY <1>1, <2>1, EnvelopeHolds DEF ExchangeInv
  <2>2. CASE case.kind # "envelope"
    BY <2>2, Zenon DEF Ex!EnvelopeSurvives
  <2>3. QED
    BY <2>1, <2>2
<1>5. Ex!ListenersHear
  <2>1. CASE case.kind = "event"
    BY <2>1, EmissionHolds DEF ExchangeInv
  <2>2. CASE case.kind # "event"
    BY <2>2, Zenon DEF Ex!ListenersHear
  <2>3. QED
    BY <2>1, <2>2
<1>6. QED
  BY <1>2, <1>3, <1>4, <1>5 DEF Ex!ExchangeSound

-----------------------------------------------------------------------------
(* The composition *)

\* What an application and a wallet exchange means the same on both sides: an identifier's key type
\* and its whole text survive its bytes, the address of a connection is that of its key, a signature
\* has its key's length, a message survives its envelope, and every listener hears an emission once
\* and in order, whoever unsubscribes meanwhile (getPublicKeyBytes, resolveWalletAddress,
\* decodeAndValidateSignature, deserializeTransaction, _emit).
THEOREM EveryExchange == SpecAny => []ExchangeSound
<1> DEFINE Inv == part = "exchange" => ExchangeInv
<1>1. InitAny => Inv
  BY ExchangeInit DEF InitAny
<1>2. Inv /\ [NextAny]_any => Inv'
  <2> SUFFICES ASSUME Inv, [NextAny]_any, part' = "exchange" PROVE ExchangeInv'
    OBVIOUS
  <2>1. CASE part = "exchange" /\ Ex!Next
    BY <2>1, ExchangeStep
  <2>2. CASE part = "exchange" /\ UNCHANGED exchangeVars
    <3>1. UNCHANGED Ex!vars
      BY <2>2 DEF exchangeVars, Ex!vars
    <3>2. QED
      BY <2>2, <3>1, ExchangeStep
  <2>3. part = part'
    BY DEF NextAny, any
  <2>4. QED
    BY <2>1, <2>2, <2>3 DEF NextAny, any
<1>3. Inv => ExchangeSound
  BY ExchangeHolds DEF ExchangeSound
<1> HIDE DEF Inv
<1>4. QED
  BY <1>1, <1>2, <1>3, PTL DEF SpecAny

\* The wallets of a composed behaviour are sound: one that is idle has none, and those of a
\* derivation are WalletDerivation's.
THEOREM EveryWallet == SpecAny => [](KeysOfSeed /\ AddressesAgree)
<1>1. InitAny => Init \/ IdleDerivation
  BY DEF InitAny
<1>2. IdleDerivation => IInv /\ WaysInv
  <2> SUFFICES ASSUME IdleDerivation PROVE IInv /\ WaysInv
    OBVIOUS
  <2>1. /\ hashTypes = <<>> /\ seed = "none" /\ queue = <<>> /\ wallets = <<>> /\ DOMAIN wallets = {}
    BY DEF IdleDerivation
  <2>2. hashTypes \in Seq(Hash) /\ queue \in Seq(SoundJob) /\ wallets \in Seq({})
    BY <2>1, EmptySeq
  <2>3. KeysOfSeed
    BY <2>1, Zenon DEF KeysOfSeed
  <2>4. WaysInv
    BY <2>1, <2>2, Zenon DEF WaysInv
  <2>5. QED
    BY <2>1, <2>2, <2>3, <2>4 DEF IInv
<1>3. Init => IInv /\ WaysInv
  <2> SUFFICES ASSUME Init PROVE WaysInv
    BY InitSound
  <2>1. hashTypes \in Seq(Hash)
    BY DerivationConstants DEF Init
  <2>2. DOMAIN wallets = {}
    BY DEF Init
  <2>3. QED
    BY <2>1, <2>2, Zenon DEF WaysInv
<1>4. [NextAny]_any => [Next]_vars
  BY DEF NextAny, any
<1>5. IInv /\ WaysInv => KeysOfSeed /\ AddressesAgree
  BY WaysAgree, WaysParse DEF IInv, AddressesAgree
<1>6. QED
  BY <1>1, <1>2, <1>3, <1>4, <1>5, StepSound, WaysStep, PTL DEF SpecAny
=============================================================================
