--------------------------- MODULE SigningProofs ----------------------------
(***************************************************************************)
(* Signing for any bodies, chains, number of slots and overlapping calls:  *)
(* its fields keep their kind, no signature was made over bytes with old   *)
(* signing material; and what an application which awaits its calls can    *)
(* rely on.                                                                *)
(***************************************************************************)
EXTENDS Signing, TLAPS

\* An object which has clean signatures, in the slots R only.
Sound(m, R) ==
  /\ m \in Transaction
  /\ \A s \in Slots : s \notin R => m.sigs[s] = {}
  /\ \A s \in Slots : \A g \in m.sigs[s] : ~g.residue

\* A call has clean bytes of its kind, and is bound for a slot of the message type.
CallSound(t) ==
  /\ tasks[t] \in TaskState
  /\ tasks[t].bytes \subseteq IF tasks[t].op = "sponsor" THEN Approval ELSE Signature
  /\ tasks[t].op # "sponsor" => \A b \in tasks[t].bytes : ~b.residue
  /\ tasks[t].op = "collect" => tasks[t].next \in multi
  /\ tasks[t].op = "sign" => kind # "coin" /\ tasks[t].next = 0
  /\ tasks[t].op = "coin" => kind = "coin" /\ tasks[t].next \in 1..tasks[t].count

CallsSound ==
  /\ tasks = [t \in Task |-> tasks[t]]
  /\ \A t \in Task : CallSound(t)

RestSound ==
  /\ awaited \in BOOLEAN
  /\ kind \in {"standard", "coin", "registration"}
  /\ multi \subseteq Required
  /\ chain \in Chain
  /\ pin \subseteq Chain
  /\ last \in {"none", "application", "waiting", "signing", "failed",
               "signed", "finalized", "cosigned"}

IInv == RestSound /\ Sound(txn, Required) /\ CallsSound

\* A transaction is what its fields are.
LEMMA TransactionFields ==
  ASSUME NEW m \in Transaction
  PROVE  /\ m.body \in Body /\ m.sigs \in Signatures /\ m.payer \in BOOLEAN
         /\ m.approval \subseteq Approval /\ m.cosig \subseteq HashValue /\ m.hash \subseteq HashValue
         /\ \A s \in Slots : m.sigs[s] \subseteq Signature
BY SMT DEF Transaction, Signatures

\* Blank slots are signatures.
LEMMA BlankTyped == NoSignatures \in Signatures
BY SMT DEF NoSignatures, Signatures

\* Replacing the signatures of a slot keeps the signatures typed.
LEMMA SlotStored ==
  ASSUME NEW f \in Signatures, NEW s \in Slots, NEW b \in SUBSET Signature
  PROVE  /\ [f EXCEPT ![s] = b] \in Signatures
         /\ [f EXCEPT ![s] = b][s] = b
         /\ \A r \in Slots : r # s => [f EXCEPT ![s] = b][r] = f[r]
BY SMT DEF Signatures

\* Clearing slot 0 leaves the others.
LEMMA BaseCleared ==
  ASSUME NEW f \in Signatures
  PROVE  /\ [f EXCEPT ![0] = {}] \in Signatures
         /\ [f EXCEPT ![0] = {}][0] = {}
         /\ \A r \in Slots : r # 0 => [f EXCEPT ![0] = {}][r] = f[r]
<1>1. 0 \in Slots
  BY SigningConstants, SMT DEF Slots
<1> QED
  BY <1>1, SMT DEF Signatures

\* Fields of the right kind make a transaction.
LEMMA Assembled ==
  ASSUME NEW b \in Body, NEW s \in Signatures, NEW p \in BOOLEAN,
         NEW a \in SUBSET Approval, NEW c \in SUBSET HashValue, NEW h \in SUBSET HashValue
  PROVE  [body |-> b, sigs |-> s, payer |-> p, approval |-> a, cosig |-> c, hash |-> h]
           \in Transaction
BY DEF Transaction

\* A bare transaction is typed.
LEMMA BareTyped ==
  ASSUME NEW m \in Transaction, NEW s \in Signatures
  PROVE  Bare(m, s) \in Transaction
BY TransactionFields, Assembled DEF Bare

\* The signatures a prepared base keeps are those of the other slots.
LEMMA PrepareBaseTyped ==
  ASSUME NEW m \in Transaction
  PROVE  /\ PrepareBase(m) \in Transaction
         /\ PrepareBase(m).sigs = [m.sigs EXCEPT ![0] = {}]
         /\ PrepareBase(m).sigs[0] = {}
         /\ \A r \in Slots : r # 0 => PrepareBase(m).sigs[r] = m.sigs[r]
<1>0. m.sigs \in Signatures
  BY TransactionFields
<1>1. PrepareBase(m).sigs = [m.sigs EXCEPT ![0] = {}]
  BY DEF PrepareBase, Bare
<1>2. [m.sigs EXCEPT ![0] = {}] \in Signatures
  BY <1>0, BaseCleared
<1>3. PrepareBase(m) \in Transaction
  BY <1>2, BareTyped DEF PrepareBase
<1> QED
  BY <1>0, <1>1, <1>3, BaseCleared

\* A bare transaction with blank slots has nothing in its bytes that does not belong there.
LEMMA BareBytesClean ==
  ASSUME NEW m \in Transaction, NEW s \in Signatures, \A r \in Slots : s[r] = {}
  PROVE  SignedBytes(Bare(m, s)) \in Signature /\ ~SignedBytes(Bare(m, s)).residue
<1>1. m.body \in Body
  BY TransactionFields
<1>2. ~Residue(Bare(m, s))
  BY DEF Residue, Bare
<1>3. SignedBytes(Bare(m, s)) = [body |-> m.body, residue |-> Residue(Bare(m, s))]
  BY DEF SignedBytes, Bare
<1>4. Residue(Bare(m, s)) \in BOOLEAN
  BY DEF Residue
<1>5. SignedBytes(Bare(m, s)) \in Signature
  BY <1>1, <1>3, <1>4 DEF Signature
<1> QED
  BY <1>2, <1>3, <1>5

\* The canonical bytes hold no signing material, whatever the object holds.
LEMMA CanonicalBytesClean ==
  ASSUME Sound(txn, Required)
  PROVE  CanonicalBytes(txn) \in Signature /\ ~CanonicalBytes(txn).residue
<1>0. txn \in Transaction /\ txn.sigs \in Signatures
  BY TransactionFields DEF Sound
<1>1. CASE kind = "coin"
  <2>1. \A r \in Slots : NoSignatures[r] = {}
    BY DEF NoSignatures
  <2> QED
    BY <1>0, <1>1, <2>1, BlankTyped, BareBytesClean DEF CanonicalBytes, PrepareCoin
<1>2. CASE kind # "coin"
  <2> DEFINE s == [txn.sigs EXCEPT ![0] = {}]
  <2>1. \A r \in Slots : r # 0 => txn.sigs[r] = {}
    BY <1>2 DEF Sound, Required
  <2>2. s \in Signatures /\ \A r \in Slots : s[r] = {}
    BY <1>0, <2>1, BaseCleared
  <2>3. CanonicalBytes(txn) = SignedBytes(Bare(txn, s))
    BY <1>2 DEF CanonicalBytes, PrepareBase
  <2> HIDE DEF s
  <2> QED
    BY <1>0, <2>2, <2>3, BareBytesClean
<1> QED
  BY <1>1, <1>2

\* The hash of a transaction is a hash.
LEMMA HashTyped ==
  ASSUME NEW m \in Transaction
  PROVE  HashOf(m) \in HashValue /\ CanonicalHash(m) \in HashValue /\ ~CanonicalHash(m).residue
<1>1. ASSUME NEW r \in BOOLEAN PROVE Hashed(m, r) \in HashValue
  BY TransactionFields DEF Hashed, HashValue
<1>2. (m.hash # {} \/ m.cosig # {}) \in BOOLEAN
  OBVIOUS
<1>3. ~Hashed(m, FALSE).residue
  BY DEF Hashed
<1> QED
  BY <1>1, <1>2, <1>3 DEF HashOf, CanonicalHash

\* Storing signatures in a slot keeps the object typed.
LEMMA StoredTyped ==
  ASSUME NEW m \in Transaction, NEW s \in Slots, NEW b \in SUBSET Signature
  PROVE  /\ Stored(m, s, b) \in Transaction
         /\ Stored(m, s, b).sigs = [m.sigs EXCEPT ![s] = b]
         /\ Stored(m, s, b).cosig = m.cosig
<1>1. [m.sigs EXCEPT ![s] = b] \in Signatures
  BY TransactionFields, SlotStored
<1> QED
  BY <1>1, SMT DEF Transaction, Stored

\* Storing a hash keeps the object typed and its signatures.
LEMMA HashStored ==
  ASSUME NEW m \in Transaction, NEW h \in HashValue
  PROVE  /\ WithHash(m, h) \in Transaction
         /\ WithHash(m, h).sigs = m.sigs /\ WithHash(m, h).cosig = m.cosig
BY SMT DEF Transaction, WithHash

\* With clean bytes in its slots the object is as clean as it was.
LEMMA StoredClean ==
  ASSUME NEW f \in Signatures, NEW s \in Slots, NEW b \in SUBSET Signature,
         \A r \in Slots : \A g \in f[r] : ~g.residue, \A g \in b : ~g.residue
  PROVE  \A r \in Slots : \A g \in [f EXCEPT ![s] = b][r] : ~g.residue
<1> SUFFICES ASSUME NEW r \in Slots
             PROVE  \A g \in [f EXCEPT ![s] = b][r] : ~g.residue
  OBVIOUS
<1>1. CASE r = s
  BY <1>1, SlotStored
<1>2. CASE r # s
  BY <1>2, SlotStored
<1> QED
  BY <1>1, <1>2

\* A prepared object is sound, whatever its slots.
LEMMA PreparedSound ==
  ASSUME NEW m, NEW R, Sound(m, R)
  PROVE  Sound(PrepareBase(m), R) /\ Sound(PrepareCoin(m), R)
<1>0. m \in Transaction /\ m.sigs \in Signatures
  BY TransactionFields DEF Sound
<1>1. PrepareBase(m) \in Transaction /\ PrepareCoin(m) \in Transaction
  BY <1>0, PrepareBaseTyped, BareTyped, BlankTyped DEF PrepareCoin
<1>2. \A r \in Slots : PrepareBase(m).sigs[r] = {} \/ PrepareBase(m).sigs[r] = m.sigs[r]
  BY <1>0, PrepareBaseTyped
<1>3. \A r \in Slots : PrepareCoin(m).sigs[r] = {}
  BY DEF PrepareCoin, Bare, NoSignatures
<1>5. Sound(PrepareBase(m), R)
  BY <1>1, <1>2 DEF Sound
<1>6. Sound(PrepareCoin(m), R)
  BY <1>1, <1>3 DEF Sound
<1> QED
  BY <1>5, <1>6

\* Another object with the same signatures is as sound.
LEMMA SameSignatures ==
  ASSUME NEW m, NEW R, Sound(m, R), NEW n \in Transaction, n.sigs = m.sigs
  PROVE  Sound(n, R)
BY DEF Sound

\* Storing a hash keeps the object sound.
LEMMA HashedSound ==
  ASSUME NEW m, NEW R, Sound(m, R)
  PROVE  Sound(WithHash(m, HashOf(m)), R) /\ Sound(WithHash(m, CanonicalHash(m)), R)
<1>1. m \in Transaction
  BY DEF Sound
<1>2. HashOf(m) \in HashValue /\ CanonicalHash(m) \in HashValue
  BY <1>1, HashTyped
<1> QED
  BY <1>1, <1>2, HashStored, SameSignatures

\* Clean bytes stored in one of the slots R keep the object sound.
LEMMA StoredSound ==
  ASSUME NEW m, NEW R, Sound(m, R), NEW s \in Slots, s \in R,
         NEW b \in SUBSET Signature, \A g \in b : ~g.residue
  PROVE  Sound(Stored(m, s, b), R) /\ Sound(SignedAndHashed(m, s, b), R)
<1> DEFINE f == [m.sigs EXCEPT ![s] = b]
<1>0. m \in Transaction /\ m.sigs \in Signatures
  BY TransactionFields DEF Sound
<1>1. \A r \in Slots : \A g \in f[r] : ~g.residue
  BY <1>0, StoredClean DEF Sound
<1>2. \A r \in Slots : r \notin R => f[r] = {}
  BY <1>0, SlotStored DEF Sound
<1>3. Stored(m, s, b) \in Transaction /\ Stored(m, s, b).sigs = f
  BY <1>0, StoredTyped
<1> HIDE DEF f
<1>4. Sound(Stored(m, s, b), R)
  BY <1>1, <1>2, <1>3 DEF Sound
<1> QED
  BY <1>4, HashedSound DEF SignedAndHashed

\* The fields without signatures may change freely.
LEMMA UpdatedSound ==
  ASSUME NEW m, NEW R, Sound(m, R), NEW b \in Body, NEW h \in SUBSET HashValue,
         NEW a \in SUBSET Approval
  PROVE  /\ Sound([m EXCEPT !.body = b], R)
         /\ Sound([m EXCEPT !.cosig = h], R)
         /\ Sound([m EXCEPT !.approval = a], R)
         /\ Sound([body |-> m.body, sigs |-> m.sigs, payer |-> TRUE,
          approval |-> {}, cosig |-> m.cosig, hash |-> m.hash], R)
<1>0. m \in Transaction
  BY DEF Sound
<1>1. /\ [m EXCEPT !.body = b] \in Transaction
      /\ [m EXCEPT !.body = b].sigs = m.sigs
  BY <1>0, SMT DEF Transaction
<1>3. /\ [m EXCEPT !.cosig = h] \in Transaction
      /\ [m EXCEPT !.cosig = h].sigs = m.sigs
  BY <1>0, SMT DEF Transaction
<1>4. /\ [m EXCEPT !.approval = a] \in Transaction
      /\ [m EXCEPT !.approval = a].sigs = m.sigs
  BY <1>0, SMT DEF Transaction
<1>5. /\ [body |-> m.body, sigs |-> m.sigs, payer |-> TRUE,
          approval |-> {}, cosig |-> m.cosig, hash |-> m.hash] \in Transaction
      /\ [body |-> m.body, sigs |-> m.sigs, payer |-> TRUE,
          approval |-> {}, cosig |-> m.cosig, hash |-> m.hash].sigs = m.sigs
  BY <1>0, TransactionFields, Assembled
<1>6. \A n \in Transaction : n.sigs = m.sigs => Sound(n, R)
  BY SameSignatures
<1>7. Sound([m EXCEPT !.body = b], R)
  BY <1>1, <1>6, Zenon
<1>9. Sound([m EXCEPT !.cosig = h], R)
  BY <1>3, <1>6, Zenon
<1>10. Sound([m EXCEPT !.approval = a], R)
  BY <1>4, <1>6, Zenon
<1>11. Sound([body |-> m.body, sigs |-> m.sigs, payer |-> TRUE,
          approval |-> {}, cosig |-> m.cosig, hash |-> m.hash], R)
  BY <1>5, <1>6, Zenon
<1> QED
  BY <1>7, <1>9, <1>10, <1>11, Zenon

\* A sponsor's bytes are an approval.
LEMMA SponsorBytesTyped ==
  ASSUME NEW m \in Transaction
  PROVE  SponsorBytes(m) \in Approval
BY TransactionFields DEF SponsorBytes, Approval

-----------------------------------------------------------------------------
\* A step that replaces one call by a sound one keeps the calls sound.
LEMMA CallReplaced ==
  ASSUME CallsSound, NEW t \in Task, tasks' = [tasks EXCEPT ![t] = tasks'[t]],
         CallSound(t)', UNCHANGED <<kind, multi>>
  PROVE  CallsSound'
<1>1. tasks' = [u \in Task |-> tasks'[u]]
  BY DEF CallsSound
<1>2. ASSUME NEW u \in Task, u # t PROVE CallSound(u)'
  <2>1. tasks'[u] = tasks[u]
    BY <1>2 DEF CallsSound
  <2>2. CallSound(u)
    BY DEF CallsSound
  <2> QED
    BY <2>1, <2>2 DEF CallSound
<1> QED
  BY <1>1, <1>2 DEF CallsSound

\* A call that has returned is sound.
LEMMA CallReturned ==
  ASSUME CallsSound, NEW t \in Task, tasks' = [tasks EXCEPT ![t] = Idle],
         UNCHANGED <<kind, multi>>
  PROVE  CallsSound'
<1>1. tasks'[t] = Idle
  BY DEF CallsSound
<1>2. Idle \in TaskState
  BY SigningConstants, SMT DEF Idle, TaskState
<1>3. CallSound(t)'
  BY <1>1, <1>2 DEF CallSound, Idle
<1> QED
  BY <1>1, <1>3, CallReplaced

\* Steps that leave the calls alone.
LEMMA CallsKept ==
  ASSUME CallsSound, UNCHANGED <<kind, multi, tasks>>
  PROVE  CallsSound'
BY DEF CallsSound, CallSound

\* What a sound object keeps when the message type stays.
LEMMA ObjectMoved ==
  ASSUME Sound(txn', Required), kind' = kind
  PROVE  Sound(txn, Required)'
BY DEF Required

\* A record of a call is what Running makes it.
LEMMA RunningTyped ==
  ASSUME NEW op \in {"collect", "sponsor", "sign", "coin"},
         NEW b \in Signature \cup Approval, NEW n \in 0..N, NEW c \in 0..N
  PROVE  /\ Running(op, b, n, c) \in TaskState
         /\ Running(op, b, n, c).op = op /\ Running(op, b, n, c).bytes = {b}
         /\ Running(op, b, n, c).next = n /\ Running(op, b, n, c).count = c
BY DEF Running, TaskState

\* A CoinTXN signed by the first k keys is sound, with or without its hash.
LEMMA FilledSound ==
  ASSUME Sound(txn, Required), kind = "coin", NEW k, NEW f,
         f = Bare(txn, [s \in Slots |-> IF s \in 1..k THEN {CanonicalBytes(txn)} ELSE {}])
  PROVE  Sound(f, Required) /\ Sound(WithHash(f, HashOf(f)), Required)
<1> DEFINE sigs == [s \in Slots |-> IF s \in 1..k THEN {CanonicalBytes(txn)} ELSE {}]
<1>1. CanonicalBytes(txn) \in Signature /\ ~CanonicalBytes(txn).residue
  BY CanonicalBytesClean
<1>2. sigs \in Signatures
  BY <1>1 DEF Signatures
<1>3. txn \in Transaction
  BY DEF Sound
<1>4. f \in Transaction
  BY <1>2, <1>3, BareTyped
<1>5. f.sigs = sigs
  BY DEF Bare
<1>6. \A s \in Slots : \A g \in sigs[s] : ~g.residue
  BY <1>1
<1>7. \A s \in Slots : s \notin Required => sigs[s] = {}
  <2>1. \A s \in Slots : s \notin Required => s = 0
    BY DEF Required
  <2>2. 0 \notin 1..k
    BY SMT
  <2> QED
    BY <2>1, <2>2
<1>8. Sound(f, Required)
  BY <1>4, <1>5, <1>6, <1>7 DEF Sound
<1> QED
  BY <1>8, HashedSound

-----------------------------------------------------------------------------
\* The initial states satisfy the invariant.
LEMMA InitSound == SigningInit => IInv
<1> SUFFICES ASSUME SigningInit PROVE IInv
  OBVIOUS
<1>1. RestSound
  BY DEF SigningInit, RestSound
<1>2. Sound(txn, Required)
  <2>1. PICK b \in Body : txn = [body |-> b, sigs |-> NoSignatures, payer |-> FALSE,
                                 approval |-> {}, cosig |-> {}, hash |-> {}]
    BY DEF SigningInit
  <2>2. txn \in Transaction
    BY <2>1, BlankTyped, Assembled
  <2>3. \A s \in Slots : txn.sigs[s] = {}
    BY <2>1 DEF NoSignatures
  <2> QED
    BY <2>2, <2>3 DEF Sound
<1>3. CallsSound
  <2>1. Idle \in TaskState
    BY SigningConstants, SMT DEF Idle, TaskState
  <2> QED
    BY <2>1 DEF SigningInit, CallsSound, CallSound, Idle
<1> QED
  BY <1>1, <1>2, <1>3 DEF IInv

\* The fields beside the object and the calls keep their kind in every step.
LEMMA RestKept ==
  ASSUME RestSound, [SigningNext]_signingVars
  PROVE  RestSound' /\ UNCHANGED <<kind, multi>>
<1>1. UNCHANGED <<awaited, kind, multi, chain>>
  BY DEF SigningNext, signingVars, Frame, Configure, Edit, AddFeePayer, Finalize, SignWithKey,
         AttachGenerated, SignCoinWithKeys, CollectStart, CollectSettles, SponsorStart,
         SponsorSettles, SignStart, SignSettles, CoinSettles, CoinStart
<1>2. pin' \subseteq Chain
  BY DEF RestSound, SigningNext, signingVars, Configure, Edit, AddFeePayer, Finalize, SignWithKey,
         AttachGenerated, SignCoinWithKeys, CollectStart, CollectSettles, SponsorStart,
         SponsorSettles, SignStart, SignSettles, CoinSettles, CoinStart
<1>3. last' = last \/ last' \in {"application", "waiting", "signing", "failed",
                                "signed", "finalized", "cosigned"}
  BY DEF SigningNext, signingVars, Fails, Refused, Configure, Edit, AddFeePayer, Finalize, SignWithKey,
         AttachGenerated, SignCoinWithKeys, CollectStart, CollectSettles, SponsorStart,
         SponsorSettles, SignStart, SignSettles, CoinSettles, CoinStart
<1> QED
  BY <1>1, <1>2, <1>3 DEF RestSound, Required

\* The bytes a call holds are clean bytes for a slot of the message type.
LEMMA CallFacts ==
  ASSUME IInv, NEW t \in Task
  PROVE  /\ tasks[t] \in TaskState /\ tasks[t].next \in Slots
         /\ tasks[t].op = "sponsor" => tasks[t].bytes \in SUBSET Approval
         /\ tasks[t].op # "sponsor" =>
              tasks[t].bytes \in SUBSET Signature /\ \A b \in tasks[t].bytes : ~b.residue
         /\ tasks[t].op \in {"collect", "sign", "coin"} => tasks[t].next \in Required
<1>1. CallSound(t)
  BY DEF IInv, CallsSound
<1>2. tasks[t].next \in 0..N
  BY <1>1 DEF CallSound, TaskState
<1>3. ASSUME tasks[t].op = "coin" PROVE tasks[t].next \in Required
  <2>1. kind = "coin" /\ tasks[t].next \in 1..tasks[t].count
    BY <1>1, <1>3 DEF CallSound
  <2>2. tasks[t].next # 0
    BY <2>1, SMT
  <2> QED
    BY <1>2, <2>1, <2>2 DEF Required, Slots
<1>4. ASSUME tasks[t].op = "sign" PROVE tasks[t].next \in Required
  BY <1>1, <1>4 DEF CallSound, Required
<1>5. ASSUME tasks[t].op = "collect" PROVE tasks[t].next \in Required
  BY <1>1, <1>5 DEF CallSound, IInv, RestSound
<1> QED
  BY <1>1, <1>2, <1>3, <1>4, <1>5 DEF CallSound, Slots

\* The object stays sound in every step.
LEMMA ObjectKept ==
  ASSUME IInv, [SigningNext]_signingVars
  PROVE  Sound(txn', Required)
<1>0. Sound(txn, Required) /\ txn \in Transaction
  BY DEF IInv, Sound
<1>a. Sound(PrepareBase(txn), Required) /\ Sound(PrepareCoin(txn), Required)
  BY <1>0, PreparedSound
<1>b. {} \in SUBSET HashValue /\ {} \in SUBSET Approval /\ txn.body \in Body
  BY <1>0, TransactionFields
<1>1. CASE UNCHANGED txn
  BY <1>0, <1>1
<1>2. CASE Edit
  <2>1. PICK b \in Body : txn' = [txn EXCEPT !.body = b]
    BY <1>2 DEF Edit
  <2>2. Sound([txn EXCEPT !.body = b], Required)
    BY <1>0, <1>b, UpdatedSound
  <2> QED
    BY <2>1, <2>2
<1>3. CASE AddFeePayer
  BY <1>0, <1>3, <1>b, UpdatedSound DEF AddFeePayer
<1>4. CASE Finalize
  BY <1>0, <1>4, HashedSound DEF Finalize, Refused
<1>5. CASE SignWithKey
  <2> DEFINE m == PrepareBase(txn)
  <2>1. CASE txn' = m \/ UNCHANGED txn
    BY <1>0, <1>a, <2>1
  <2>2. CASE kind # "coin" /\ txn' = SignedAndHashed(m, 0, {SignedBytes(m)})
    <3>1. SignedBytes(m) = CanonicalBytes(txn)
      BY <2>2 DEF CanonicalBytes
    <3>2. {SignedBytes(m)} \in SUBSET Signature /\ \A g \in {SignedBytes(m)} : ~g.residue
      BY <1>0, <3>1, CanonicalBytesClean
    <3>3. 0 \in Slots /\ 0 \in Required
      BY <2>2, BaseCleared, SigningConstants, SMT DEF Required, Slots
    <3> HIDE DEF m
    <3> QED
      BY <1>a, <2>2, <3>2, <3>3, StoredSound DEF m
  <2> QED
    BY <1>5, <2>1, <2>2 DEF SignWithKey, Refused
<1>6. CASE AttachGenerated
  <2>1. txn.hash \in SUBSET HashValue
    BY <1>0, TransactionFields
  <2>2. Sound([txn EXCEPT !.cosig = txn.hash], Required)
    BY <1>0, <1>b, <2>1, UpdatedSound
  <2>3. UNCHANGED txn \/ txn' = [txn EXCEPT !.cosig = txn.hash]
    BY <1>6 DEF AttachGenerated, Refused
  <2> QED
    BY <1>0, <2>2, <2>3
<1>7. ASSUME NEW n \in 1..N+1, SignCoinWithKeys(n) PROVE Sound(txn', Required)
  <2> DEFINE Filled(k) ==
        Bare(txn, [s \in Slots |-> IF s \in 1..k THEN {CanonicalBytes(txn)} ELSE {}])
  <2>1. CASE txn' = PrepareCoin(txn) \/ UNCHANGED txn
    BY <1>0, <1>a, <2>1
  <2>2. ASSUME NEW k, kind = "coin",
               txn' = Filled(k) \/ txn' = WithHash(Filled(k), HashOf(Filled(k)))
        PROVE  Sound(txn', Required)
    BY <1>0, <2>2, FilledSound
  <2> QED
    BY <1>7, <2>1, <2>2 DEF SignCoinWithKeys, Refused
<1>8. ASSUME NEW t \in Task PROVE CollectSettles(t) => Sound(txn', Required)
  BY <1>0, <1>1, CallFacts, StoredSound DEF CollectSettles
<1>9. ASSUME NEW t \in Task PROVE SponsorSettles(t) => Sound(txn', Required)
  <2> SUFFICES ASSUME SponsorSettles(t) PROVE Sound(txn', Required)
    OBVIOUS
  <2>1. tasks[t].bytes \in SUBSET Approval
    BY CallFacts DEF SponsorSettles
  <2>2. Sound([txn EXCEPT !.approval = tasks[t].bytes], Required)
    BY <1>0, <1>b, <2>1, UpdatedSound
  <2>3. UNCHANGED txn \/ txn' = [txn EXCEPT !.approval = tasks[t].bytes]
    BY DEF SponsorSettles
  <2> QED
    BY <1>0, <2>2, <2>3
<1>10. ASSUME NEW t \in Task PROVE SignStart(t) => Sound(txn', Required)
  BY <1>0, <1>a DEF SignStart, Refused
<1>11. ASSUME NEW t \in Task PROVE SignSettles(t) => Sound(txn', Required)
  <2> SUFFICES ASSUME SignSettles(t) PROVE Sound(txn', Required)
    OBVIOUS
  <2>1. tasks[t].next = 0
    BY DEF SignSettles, IInv, CallsSound, CallSound
  <2> QED
    BY <1>0, <2>1, CallFacts, StoredSound DEF SignSettles
<1>12. ASSUME NEW t \in Task PROVE CoinSettles(t) => Sound(txn', Required)
  BY <1>0, CallFacts, StoredSound DEF CoinSettles
<1>13. ASSUME NEW t \in Task, NEW n \in 1..N+1 PROVE CoinStart(t, n) => Sound(txn', Required)
  BY <1>0, <1>a DEF CoinStart, Refused
<1>14. ASSUME NEW t \in Task, CollectStart(t) \/ SponsorStart(t) PROVE UNCHANGED txn
  BY <1>14 DEF CollectStart, SponsorStart
<1>15. Configure \/ UNCHANGED signingVars => UNCHANGED txn
  BY DEF Configure, signingVars
<1> QED
  BY <1>1, <1>2, <1>3, <1>4, <1>5, <1>6, <1>7, <1>8, <1>9, <1>10, <1>11, <1>12, <1>13,
     <1>14, <1>15 DEF SigningNext

\* The calls stay sound in every step.
LEMMA CallsStep ==
  ASSUME IInv, [SigningNext]_signingVars
  PROVE  CallsSound'
<1>0. CallsSound /\ UNCHANGED <<kind, multi>>
  BY RestKept DEF IInv
<1>a. CanonicalBytes(txn) \in Signature /\ ~CanonicalBytes(txn).residue
  BY CanonicalBytesClean DEF IInv
<1>b. 0 \in 0..N /\ multi \subseteq 0..N
  BY SigningConstants, SMT DEF IInv, RestSound, Required, Slots
<1>1. CASE UNCHANGED tasks
  BY <1>0, <1>1, CallsKept
<1>2. ASSUME NEW t \in Task, tasks' = [tasks EXCEPT ![t] = Idle]
      PROVE  CallsSound'
  BY <1>0, <1>2, CallReturned
<1>3. ASSUME NEW t \in Task, CollectStart(t) PROVE CallsSound'
  <2>1. CASE \E s \in multi : tasks' = [tasks EXCEPT ![t] = Running("collect", CanonicalBytes(txn), s, 0)]
    <3>1. PICK s \in multi : tasks' = [tasks EXCEPT ![t] = Running("collect", CanonicalBytes(txn), s, 0)]
      BY <2>1
    <3>2. tasks'[t] = Running("collect", CanonicalBytes(txn), s, 0)
      BY <1>0, <3>1 DEF CallsSound
    <3>3. CallSound(t)'
      BY <1>0, <1>a, <1>b, <3>2, RunningTyped DEF CallSound
    <3> QED
      BY <1>0, <3>1, <3>2, <3>3, CallReplaced
  <2> QED
    BY <1>1, <1>3, <2>1 DEF CollectStart
<1>4. ASSUME NEW t \in Task, SponsorStart(t) PROVE CallsSound'
  <2>1. CASE tasks' = [tasks EXCEPT ![t] = Running("sponsor", SponsorBytes(txn), 0, 0)]
    <3>1. SponsorBytes(txn) \in Approval
      BY SponsorBytesTyped DEF IInv, Sound
    <3>2. tasks'[t] = Running("sponsor", SponsorBytes(txn), 0, 0)
      BY <1>0, <2>1 DEF CallsSound
    <3>3. CallSound(t)'
      BY <1>b, <3>1, <3>2, RunningTyped DEF CallSound
    <3> QED
      BY <1>0, <2>1, <3>2, <3>3, CallReplaced
  <2> QED
    BY <1>1, <1>4, <2>1 DEF SponsorStart
<1>5. ASSUME NEW t \in Task, SignStart(t) PROVE CallsSound'
  <2> DEFINE b == SignedBytes(PrepareBase(txn))
  <2>1. CASE kind # "coin" /\ tasks' = [tasks EXCEPT ![t] = Running("sign", b, 0, 0)]
    <3>1. b = CanonicalBytes(txn)
      BY <2>1 DEF CanonicalBytes
    <3>2. tasks'[t] = Running("sign", CanonicalBytes(txn), 0, 0)
      BY <1>0, <2>1, <3>1 DEF CallsSound
    <3>3. CallSound(t)'
      BY <1>0, <1>a, <1>b, <2>1, <3>2, RunningTyped DEF CallSound
    <3> QED
      BY <1>0, <2>1, <3>1, <3>2, <3>3, CallReplaced
  <2> QED
    BY <1>1, <1>5, <2>1 DEF SignStart, Refused
<1>6. ASSUME NEW t \in Task, NEW n \in 1..N+1, CoinStart(t, n) PROVE CallsSound'
  <2>1. CASE /\ kind = "coin" /\ ~TooMany(n)
             /\ tasks' = [tasks EXCEPT ![t] = Running("coin", CanonicalBytes(txn), 1, n)]
    <3>1. n \in 0..N /\ 1 \in 0..N /\ 1 \in 1..n
      BY <2>1, SigningConstants, SMT DEF TooMany
    <3>2. tasks'[t] = Running("coin", CanonicalBytes(txn), 1, n)
      BY <1>0, <2>1 DEF CallsSound
    <3>3. CallSound(t)'
      BY <1>0, <1>a, <2>1, <3>1, <3>2, RunningTyped DEF CallSound
    <3> QED
      BY <1>0, <2>1, <3>2, <3>3, CallReplaced
  <2> QED
    BY <1>1, <1>6, <2>1 DEF CoinStart, Refused
<1>7. ASSUME NEW t \in Task, CoinSettles(t) PROVE CallsSound'
  <2>1. CASE tasks[t].op = "coin" /\ tasks[t].next < tasks[t].count /\ tasks' = [tasks EXCEPT ![t].next = @ + 1]
    <3>1. CallSound(t)
      BY <1>0 DEF CallsSound
    <3>2. /\ tasks'[t] = [tasks[t] EXCEPT !.next = @ + 1]
          /\ tasks' = [tasks EXCEPT ![t] = tasks'[t]]
      BY <1>0, <2>1 DEF CallsSound
    <3>3. tasks[t].next + 1 \in 0..N /\ tasks[t].next + 1 \in 1..tasks[t].count
      BY <2>1, <3>1, SigningConstants, SMT DEF CallSound, TaskState
    <3>4. /\ tasks'[t] \in TaskState
          /\ tasks'[t].op = tasks[t].op /\ tasks'[t].bytes = tasks[t].bytes
          /\ tasks'[t].count = tasks[t].count /\ tasks'[t].next = tasks[t].next + 1
      BY <3>1, <3>2, <3>3 DEF CallSound, TaskState
    <3>5. CallSound(t)'
      BY <1>0, <2>1, <3>1, <3>3, <3>4 DEF CallSound
    <3> QED
      BY <1>0, <3>2, <3>5, CallReplaced
  <2> QED
    BY <1>2, <1>7, <2>1 DEF CoinSettles
<1>8. ASSUME NEW t \in Task, CollectSettles(t) \/ SponsorSettles(t) \/ SignSettles(t)
      PROVE  CallsSound'
  BY <1>2, <1>8 DEF CollectSettles, SponsorSettles, SignSettles
<1>9. \/ Configure \/ Edit \/ AddFeePayer \/ Finalize \/ SignWithKey \/ AttachGenerated
      \/ \E n \in 1..N+1 : SignCoinWithKeys(n)
      \/ UNCHANGED signingVars
      => UNCHANGED tasks
  BY DEF Configure, Edit, AddFeePayer, Finalize, SignWithKey, AttachGenerated,
         SignCoinWithKeys, Refused, signingVars
<1> QED
  BY <1>1, <1>3, <1>4, <1>5, <1>6, <1>7, <1>8, <1>9 DEF SigningNext

\* Every reachable state satisfies the invariant.
THEOREM Invariance == SigningSpec => []IInv
<1>1. IInv /\ [SigningNext]_signingVars => IInv'
  <2> SUFFICES ASSUME IInv, [SigningNext]_signingVars PROVE IInv'
    OBVIOUS
  <2>1. RestSound' /\ kind' = kind
    BY RestKept DEF IInv
  <2>2. Sound(txn, Required)'
    BY <2>1, ObjectKept, ObjectMoved
  <2> QED
    BY <2>1, <2>2, CallsStep DEF IInv
<1> QED
  BY InitSound, <1>1, PTL DEF SigningSpec

\* The object, the calls and the pinned chain keep their kind, for any number of slots and calls.
THEOREM TypeCorrect == SigningSpec => []SigningTypeOK
<1>1. RestSound => /\ awaited \in BOOLEAN /\ kind \in {"standard", "coin", "registration"} /\ chain \in Chain
                   /\ pin \subseteq Chain
                   /\ last \in {"none", "application", "waiting", "signing", "failed",
                               "signed", "finalized", "cosigned"}
  BY DEF RestSound
<1>2. RestSound => multi \subseteq Slots
  BY SigningConstants, SMT DEF RestSound, Required, Slots
<1>3. Sound(txn, Required) => txn \in Transaction
  BY DEF Sound
<1>4. CallsSound => /\ tasks \in [Task -> TaskState]
                    /\ \A t \in Task : tasks[t].bytes \subseteq
                         IF tasks[t].op = "sponsor" THEN Approval ELSE Signature
  <2>1. CallsSound => \A t \in Task : tasks[t] \in TaskState
    BY DEF CallsSound, CallSound
  <2>2. CallsSound => tasks \in [Task -> TaskState]
    BY <2>1 DEF CallsSound
  <2> QED
    BY <2>2 DEF CallsSound, CallSound
<1>5. IInv => SigningTypeOK
  BY <1>1, <1>2, <1>3, <1>4 DEF IInv, SigningTypeOK
<1> QED
  BY Invariance, <1>5, PTL

\* No signature covers old signing material, for any number of overlapping calls.
THEOREM SignedClean == SigningSpec => []SignaturesClean
<1>1. IInv => SignaturesClean
  BY DEF IInv, SignaturesClean, Sound, CallsSound, CallSound
<1> QED
  BY Invariance, <1>1, PTL

-----------------------------------------------------------------------------
(* Awaited calls *)

CleanBytes(b) == [body |-> b, residue |-> FALSE]

\* No approval, fee payer, co-signature or hash.
Blank(m) == ~m.payer /\ m.approval = {} /\ m.cosig = {} /\ m.hash = {}

\* Approvals and co-signatures cover the signatures there are, and are held only
\* where no further signature can be collected.
Approved(m) ==
  /\ \A a \in m.approval \cup m.cosig : a.sigs = m.sigs
  /\ m.approval # {} => m.payer
  /\ m.cosig # {} => kind = "registration" /\ 0 \notin multi

\* What the one call in progress may expect of the object.
UnderWay(m, k) ==
  /\ k.op = "sponsor" => \A b \in k.bytes : b.sigs = m.sigs
  /\ k.op = "collect" => ~m.payer
  /\ k.op \in {"sign", "coin"} => k.bytes = {CleanBytes(m.body)} /\ Blank(m)
  /\ k.op = "coin" =>
       \A s \in Required : m.sigs[s] = IF s < k.next THEN {CleanBytes(m.body)} ELSE {}

\* What a signing helper returns.
Returned(m) ==
  /\ m.hash = {CanonicalHash(m)} /\ ~m.payer /\ m.cosig = {}
  /\ \E n \in Required : \A s \in Required :
       m.sigs[s] = IF s <= n THEN {CleanBytes(m.body)} ELSE {}

Orderly ==
  awaited =>
    /\ \A t, u \in Task : tasks[t].op # "idle" /\ tasks[u].op # "idle" => t = u
    /\ Approved(txn)
    /\ \A t \in Task : UnderWay(txn, tasks[t])
    /\ last = "signing" => \E t \in Task : tasks[t].op \in {"sign", "coin"}
    /\ last \in {"signing", "signed"} => \A t \in Task : tasks[t].op \notin {"collect", "sponsor"}
    /\ last = "signed" => Returned(txn)

\* A step that leaves no call in progress, and one that leaves the call of t.
Settled ==
  /\ \A u \in Task : tasks'[u].op = "idle"
  /\ Approved(txn') /\ last' # "signing"
  /\ last' = "signed" => Returned(txn')
  /\ last' = "failed" => txn'.hash = {} \/ (txn' = txn /\ last # "signing")

Waiting(t) ==
  /\ \A u \in Task : u # t => tasks'[u].op = "idle"
  /\ Approved(txn') /\ UnderWay(txn', tasks'[t])
  /\ \/ last' = "waiting"
     \/ last' = "signing" /\ tasks'[t].op \in {"sign", "coin"}

\* The canonical bytes hold the body and nothing else.
LEMMA CanonicalIs ==
  ASSUME NEW m, Sound(m, Required)
  PROVE  CanonicalBytes(m) = CleanBytes(m.body)
<1>0. m \in Transaction /\ m.sigs \in Signatures
  BY TransactionFields DEF Sound
<1>1. ASSUME NEW s \in Signatures, \A r \in Slots : s[r] = {}
      PROVE  SignedBytes(Bare(m, s)) = CleanBytes(m.body)
  <2>1. Residue(Bare(m, s)) = FALSE
    BY <1>1 DEF Residue, Bare
  <2>2. SignedBytes(Bare(m, s)) = [body |-> m.body, residue |-> Residue(Bare(m, s))]
    BY DEF SignedBytes, Bare
  <2> QED
    BY <2>1, <2>2, Zenon DEF CleanBytes
<1>2. CASE kind = "coin"
  <2>1. \A r \in Slots : NoSignatures[r] = {}
    BY DEF NoSignatures
  <2>2. CanonicalBytes(m) = SignedBytes(Bare(m, NoSignatures))
    BY <1>2 DEF CanonicalBytes, PrepareCoin
  <2> QED
    BY <1>1, <2>1, <2>2, BlankTyped
<1>3. CASE kind # "coin"
  <2> DEFINE s == [m.sigs EXCEPT ![0] = {}]
  <2>1. \A r \in Slots : r # 0 => m.sigs[r] = {}
    BY <1>3 DEF Sound, Required
  <2>2. s \in Signatures /\ \A r \in Slots : s[r] = {}
    BY <1>0, <2>1, BaseCleared
  <2>3. CanonicalBytes(m) = SignedBytes(Bare(m, s))
    BY <1>3 DEF CanonicalBytes, PrepareBase
  <2> HIDE DEF s
  <2> QED
    BY <1>1, <2>2, <2>3
<1> QED
  BY <1>2, <1>3

\* Where a step lands, the awaited calls are in order.
LEMMA Lands ==
  ASSUME UNCHANGED <<awaited, kind, multi>>, Settled \/ \E t \in Task : Waiting(t)
  PROVE  Orderly'
<1> DEFINE approved == Approved(txn)'
<1>1. Approved(txn') => approved
  BY DEF Approved
<1>2. \A t \in Task : UnderWay(txn', tasks'[t]) => UnderWay(txn, tasks[t])'
  BY DEF UnderWay, Blank, Required, CleanBytes
<1>3. Returned(txn') => Returned(txn)'
  BY DEF Returned, CanonicalHash, Hashed, Required, CleanBytes
<1>4. \A t \in Task : tasks'[t].op = "idle" => UnderWay(txn', tasks'[t])
  BY DEF UnderWay
<1> HIDE DEF approved
<1>5. CASE Settled
  <2>1. \A t \in Task : UnderWay(txn, tasks[t])'
    BY <1>2, <1>4, <1>5 DEF Settled
  <2> QED
    BY <1>1, <1>3, <1>5, <2>1 DEF Settled, Orderly, approved
<1>6. ASSUME NEW t \in Task, Waiting(t) PROVE Orderly'
  <2>1. \A u \in Task : UnderWay(txn, tasks[u])'
    BY <1>2, <1>4, <1>6 DEF Waiting
  <2>2. \A u \in Task : tasks'[u].op # "idle" => u = t
    BY <1>6 DEF Waiting
  <2>3. ~(last' = "signed") /\ (last' = "signing" => tasks'[t].op \in {"sign", "coin"})
    BY <1>6 DEF Waiting
  <2>4. Approved(txn)'
    BY <1>1, <1>6 DEF Waiting, approved
  <2> QED
    BY <2>1, <2>2, <2>3, <2>4 DEF Orderly
<1> QED
  BY <1>5, <1>6

\* An application that awaits its calls acts when none is in progress.
LEMMA QuietRests ==
  ASSUME Orderly, awaited, Quiet
  PROVE  /\ \A u \in Task : tasks[u].op = "idle"
         /\ Approved(txn) /\ last # "signing"
BY DEF Quiet, Orderly

\* One call returns and none is left.
LEMMA LastReturns ==
  ASSUME IInv, Orderly, awaited, NEW t \in Task, tasks[t].op # "idle",
         tasks' = [tasks EXCEPT ![t] = Idle]
  PROVE  \A u \in Task : tasks'[u].op = "idle"
BY DEF IInv, CallsSound, Orderly, Idle

\* The other fields of an object in which a signature is stored.
LEMMA StoredFields ==
  ASSUME NEW m \in Transaction, NEW s, NEW b
  PROVE  /\ Stored(m, s, b).body = m.body /\ Stored(m, s, b).payer = m.payer
         /\ Stored(m, s, b).approval = m.approval /\ Stored(m, s, b).cosig = m.cosig
         /\ Stored(m, s, b).hash = m.hash
<1>1. m = [body |-> m.body, sigs |-> m.sigs, payer |-> m.payer, approval |-> m.approval,
           cosig |-> m.cosig, hash |-> m.hash]
  BY DEF Transaction
<1>2. Stored(m, s, b) = [body |-> m.body, sigs |-> [m.sigs EXCEPT ![s] = b], payer |-> m.payer,
                         approval |-> m.approval, cosig |-> m.cosig, hash |-> m.hash]
  BY <1>1 DEF Stored
<1> QED
  BY <1>2

\* The fields of an object in which a hash is stored.
LEMMA HashFields ==
  ASSUME NEW m \in Transaction, NEW h
  PROVE  /\ WithHash(m, h).body = m.body /\ WithHash(m, h).payer = m.payer
         /\ WithHash(m, h).approval = m.approval /\ WithHash(m, h).cosig = m.cosig
         /\ WithHash(m, h).sigs = m.sigs /\ WithHash(m, h).hash = {h}
<1>1. m = [body |-> m.body, sigs |-> m.sigs, payer |-> m.payer, approval |-> m.approval,
           cosig |-> m.cosig, hash |-> m.hash]
  BY DEF Transaction
<1>2. WithHash(m, h) = [body |-> m.body, sigs |-> m.sigs, payer |-> m.payer,
                        approval |-> m.approval, cosig |-> m.cosig, hash |-> {h}]
  BY <1>1 DEF WithHash
<1> QED
  BY <1>2

\* What is hashed in a blank object is what its canonical hash covers.
LEMMA BlankHashed ==
  ASSUME NEW m \in Transaction, Blank(m), NEW q, q = WithHash(m, HashOf(m))
  PROVE  /\ q.hash = {CanonicalHash(q)} /\ ~q.payer /\ q.cosig = {} /\ q.approval = {}
         /\ q.body = m.body /\ q.sigs = m.sigs
<1>1. HashOf(m) = Hashed(m, FALSE)
  <2>1. (m.hash # {} \/ m.cosig # {}) = FALSE
    BY DEF Blank
  <2> QED
    BY <2>1, Zenon DEF HashOf, Hashed
<1>2. /\ q.body = m.body /\ q.payer = m.payer /\ q.approval = m.approval
      /\ q.cosig = m.cosig /\ q.sigs = m.sigs /\ q.hash = {HashOf(m)}
  BY HashFields
<1>3. CanonicalHash(q) = Hashed(m, FALSE)
  BY <1>2, Zenon DEF CanonicalHash, Hashed
<1> QED
  BY <1>1, <1>2, <1>3, Zenon DEF Blank

\* A slot that is filled in a blank object.
LEMMA SlotFilled ==
  ASSUME NEW m \in Transaction, NEW k \in Slots, NEW b \in SUBSET Signature,
         NEW n, n = Stored(m, k, b)
  PROVE  /\ n \in Transaction /\ n.body = m.body
         /\ Blank(m) => Blank(n)
         /\ n.sigs[k] = b /\ \A r \in Slots : r # k => n.sigs[r] = m.sigs[r]
<1>1. /\ n.body = m.body /\ n.payer = m.payer
      /\ n.approval = m.approval /\ n.cosig = m.cosig /\ n.hash = m.hash
  BY StoredFields
<1> DEFINE f == [m.sigs EXCEPT ![k] = b]
<1>6. n.sigs = f
  BY StoredTyped
<1>2. n \in Transaction
  BY StoredTyped
<1>3. Blank(m) => Blank(n)
  BY <1>1 DEF Blank
<1>4. m.sigs \in Signatures
  BY TransactionFields
<1>5. f[k] = b /\ \A r \in Slots : r # k => f[r] = m.sigs[r]
  BY <1>4, SMT DEF Signatures
<1> HIDE DEF f
<1> QED
  BY <1>1, <1>2, <1>3, <1>5, <1>6

\* A blank object that is signed in its last slot and hashed is what a helper returns.
LEMMA SignedReturns ==
  ASSUME NEW m, Sound(m, Required), Blank(m), NEW k \in Required, NEW b \in SUBSET Signature,
         NEW n, n = Stored(m, k, b), NEW q, q = WithHash(n, HashOf(n)),
         b = {CleanBytes(m.body)},
         \A s \in Required : s # k => m.sigs[s] = IF s <= k THEN b ELSE {}
  PROVE  Returned(q) /\ Approved(q)
<1>0. m \in Transaction
  BY DEF Sound
<1>1. k \in Slots /\ Required \subseteq Slots /\ k <= k
  BY SigningConstants, SMT DEF Required, Slots
<1>2. /\ n \in Transaction /\ n.body = m.body /\ Blank(n)
      /\ n.sigs[k] = b /\ \A r \in Slots : r # k => n.sigs[r] = m.sigs[r]
  BY <1>0, <1>1, SlotFilled
<1>3. /\ q.hash = {CanonicalHash(q)} /\ ~q.payer /\ q.cosig = {} /\ q.approval = {}
      /\ q.body = n.body /\ q.sigs = n.sigs
  BY <1>2, BlankHashed
<1>4. \A s \in Required : q.sigs[s] = IF s <= k THEN {CleanBytes(q.body)} ELSE {}
  <2>1. q.body = m.body /\ q.sigs = n.sigs
    BY <1>2, <1>3
  <2>2. ASSUME NEW s \in Required PROVE n.sigs[s] = IF s <= k THEN b ELSE {}
    <3>1. CASE s = k
      BY <1>1, <1>2, <3>1, Zenon
    <3>2. CASE s # k
      BY <1>1, <1>2, <3>2, Zenon
    <3> QED
      BY <3>1, <3>2
  <2> QED
    BY <2>1, <2>2, Zenon
<1>5. Returned(q)
  BY <1>3, <1>4, Zenon DEF Returned
<1>6. Approved(q)
  BY <1>3 DEF Approved
<1> QED
  BY <1>5, <1>6

\* A prepared object is blank, and approved.
LEMMA PreparedBlank ==
  ASSUME NEW m, NEW s
  PROVE  Blank(Bare(m, s)) /\ Approved(Bare(m, s)) /\ Bare(m, s).body = m.body
         /\ Bare(m, s).hash = {} /\ Bare(m, s).sigs = s
BY DEF Blank, Approved, Bare

\* An object with the same approvals, co-signatures and signatures is as approved.
LEMMA ApprovedKept ==
  ASSUME NEW m, NEW n, Approved(m), n.sigs = m.sigs, n.approval = m.approval,
         n.cosig = m.cosig, n.payer = m.payer
  PROVE  Approved(n)
BY DEF Approved

\* The fields of an object that has another body, co-signature or approval.
LEMMA EditedFields ==
  ASSUME NEW m \in Transaction, NEW b
  PROVE  LET n == [m EXCEPT !.body = b]  IN
         n.sigs = m.sigs /\ n.payer = m.payer /\ n.approval = m.approval /\ n.cosig = m.cosig
BY SMT DEF Transaction

\* The same for a co-signature.
LEMMA CosignedFields ==
  ASSUME NEW m \in Transaction, NEW c
  PROVE  LET n == [m EXCEPT !.cosig = c]  IN
         n.sigs = m.sigs /\ n.payer = m.payer /\ n.approval = m.approval /\ n.cosig = c
BY SMT DEF Transaction

\* The same for an approval.
LEMMA SponsoredFields ==
  ASSUME NEW m \in Transaction, NEW a
  PROVE  LET n == [m EXCEPT !.approval = a]  IN
         n.sigs = m.sigs /\ n.payer = m.payer /\ n.approval = a /\ n.cosig = m.cosig
BY SMT DEF Transaction

\* What the application does by itself, and the helpers that await nobody and sign nothing.
LEMMA OwnStepSettles ==
  ASSUME IInv, Orderly, awaited,
         Configure \/ Edit \/ AddFeePayer \/ Finalize \/ AttachGenerated
  PROVE  Settled
<1>0. txn \in Transaction
  BY DEF IInv, Sound
<1>1. Quiet /\ UNCHANGED tasks
  BY DEF Configure, Edit, AddFeePayer, Finalize, AttachGenerated, Refused
<1>2. /\ \A u \in Task : tasks[u].op = "idle"
      /\ Approved(txn) /\ last # "signing"
  BY <1>1, QuietRests
<1>3. \A u \in Task : tasks'[u].op = "idle"
  BY <1>1, <1>2
<1>4. CASE Configure \/ (Fails /\ UNCHANGED txn)
  <2>1. txn' = txn /\ last' \in {"application", "failed"}
    BY <1>4 DEF Configure, Fails
  <2>2. Approved(txn')
    BY <1>2, <2>1
  <2> QED
    BY <1>2, <1>3, <2>1, <2>2 DEF Settled
<1>5. CASE Edit
  <2>1. PICK b \in Body : txn' = [txn EXCEPT !.body = b]
    BY <1>5 DEF Edit
  <2>2. /\ txn'.sigs = txn.sigs /\ txn'.payer = txn.payer
        /\ txn'.approval = txn.approval /\ txn'.cosig = txn.cosig
    BY <1>0, <2>1, EditedFields
  <2>3. Approved(txn')
    BY <1>2, <2>2, ApprovedKept
  <2> QED
    BY <1>3, <1>5, <2>3 DEF Settled, Edit
<1>6. CASE AddFeePayer
  <2>1. /\ txn'.sigs = txn.sigs /\ txn'.approval = {} /\ txn'.cosig = txn.cosig
        /\ kind = "standard" /\ last' = "application"
    BY <1>6 DEF AddFeePayer
  <2>2. Approved(txn')
    BY <1>2, <2>1 DEF Approved
  <2> QED
    BY <1>3, <2>1, <2>2 DEF Settled
<1>7. CASE Finalize /\ ~Fails
  <2>1. txn' = WithHash(txn, CanonicalHash(txn)) /\ last' = "finalized"
    BY <1>7 DEF Finalize, Refused
  <2>2. /\ txn'.sigs = txn.sigs /\ txn'.payer = txn.payer
        /\ txn'.approval = txn.approval /\ txn'.cosig = txn.cosig
    BY <1>0, <2>1, HashFields
  <2>3. Approved(txn')
    BY <1>2, <2>2, ApprovedKept
  <2> QED
    BY <1>3, <2>1, <2>3 DEF Settled
<1>8. CASE AttachGenerated /\ ~Fails
  <2>1. /\ OperatorSigned /\ txn' = [txn EXCEPT !.cosig = txn.hash]
        /\ last' = "cosigned" /\ kind = "registration"
    BY <1>8 DEF AttachGenerated, Refused
  <2>2. /\ txn'.sigs = txn.sigs /\ txn'.payer = txn.payer
        /\ txn'.approval = txn.approval /\ txn'.cosig = txn.hash
    BY <1>0, <2>1, CosignedFields
  <2>3. txn.hash = {CanonicalHash(txn)} /\ 0 \notin multi
    BY <2>1 DEF OperatorSigned
  <2>4. CanonicalHash(txn).sigs = txn.sigs
    BY DEF CanonicalHash, Hashed
  <2>5. Approved(txn')
    BY <1>2, <2>1, <2>2, <2>3, <2>4 DEF Approved
  <2> QED
    BY <1>3, <2>1, <2>5 DEF Settled
<1>9. Finalize /\ Fails => UNCHANGED txn
  BY DEF Finalize, Refused, Fails
<1>10. AttachGenerated /\ Fails => UNCHANGED txn
  BY DEF AttachGenerated, Refused, Fails
<1> QED
  BY <1>4, <1>5, <1>6, <1>7, <1>8, <1>9, <1>10

\* A call that starts when none is in progress is the only one.
LEMMA OneStarts ==
  ASSUME IInv, \A u \in Task : tasks[u].op = "idle", NEW t \in Task, NEW r,
         tasks' = [tasks EXCEPT ![t] = r]
  PROVE  tasks'[t] = r /\ \A u \in Task : u # t => tasks'[u].op = "idle"
BY DEF IInv, CallsSound

\* What is refused or fails before anything changed.
LEMMA RefusedSettles ==
  ASSUME \A u \in Task : tasks[u].op = "idle", Approved(txn), last # "signing",
         Fails, UNCHANGED <<txn, tasks>>
  PROVE  Settled
<1>1. txn' = txn /\ \A u \in Task : tasks'[u].op = "idle"
  OBVIOUS
<1>2. Approved(txn')
  BY <1>1
<1> QED
  BY <1>1, <1>2 DEF Settled, Fails

\* A member or the sponsor is asked.
LEMMA AskedWaits ==
  ASSUME IInv, Orderly, awaited, NEW t \in Task, CollectStart(t) \/ SponsorStart(t)
  PROVE  Settled \/ Waiting(t)
<1>1. Quiet /\ UNCHANGED txn
  BY DEF CollectStart, SponsorStart
<1>2. /\ \A u \in Task : tasks[u].op = "idle"
      /\ Approved(txn) /\ last # "signing"
  BY <1>1, QuietRests
<1>3. Approved(txn')
  <2>1. txn' = txn
    BY <1>1
  <2> QED
    BY <1>2, <2>1
<1>4. CASE Fails /\ UNCHANGED tasks
  BY <1>1, <1>2, <1>4, RefusedSettles
<1>5. ASSUME NEW s \in multi, ~txn.payer, last' = "waiting",
             tasks' = [tasks EXCEPT ![t] = Running("collect", CanonicalBytes(txn), s, 0)]
      PROVE  Waiting(t)
  <2>1. /\ tasks'[t] = Running("collect", CanonicalBytes(txn), s, 0)
        /\ \A u \in Task : u # t => tasks'[u].op = "idle"
    BY <1>2, <1>5, OneStarts
  <2>2. tasks'[t].op = "collect"
    BY <2>1 DEF Running
  <2>3. UnderWay(txn', tasks'[t])
    BY <1>1, <1>5, <2>2 DEF UnderWay
  <2> QED
    BY <1>3, <1>5, <2>1, <2>3 DEF Waiting
<1>6. ASSUME last' = "waiting",
             tasks' = [tasks EXCEPT ![t] = Running("sponsor", SponsorBytes(txn), 0, 0)]
      PROVE  Waiting(t)
  <2>1. /\ tasks'[t] = Running("sponsor", SponsorBytes(txn), 0, 0)
        /\ \A u \in Task : u # t => tasks'[u].op = "idle"
    BY <1>2, <1>6, OneStarts
  <2>2. tasks'[t].op = "sponsor" /\ tasks'[t].bytes = {SponsorBytes(txn)}
    BY <2>1 DEF Running
  <2>3. SponsorBytes(txn).sigs = txn.sigs
    BY DEF SponsorBytes
  <2>4. UnderWay(txn', tasks'[t])
    BY <1>1, <2>2, <2>3 DEF UnderWay
  <2> QED
    BY <1>3, <1>6, <2>1, <2>4 DEF Waiting
<1> QED
  BY <1>4, <1>5, <1>6 DEF CollectStart, SponsorStart

\* The answer of a member or the sponsor.
LEMMA AnswerSettles ==
  ASSUME IInv, Orderly, awaited, NEW t \in Task, CollectSettles(t) \/ SponsorSettles(t)
  PROVE  Settled
<1>0. txn \in Transaction /\ tasks[t].op \in {"collect", "sponsor"}
  BY DEF IInv, Sound, CollectSettles, SponsorSettles
<1>1. \A u \in Task : tasks'[u].op = "idle"
  <2>1. tasks' = [tasks EXCEPT ![t] = Idle] /\ tasks[t].op # "idle"
    BY DEF CollectSettles, SponsorSettles
  <2> QED
    BY <2>1, LastReturns
<1>2. Approved(txn) /\ UnderWay(txn, tasks[t]) /\ last # "signing"
  BY <1>0 DEF Orderly
<1>3. CASE Fails /\ UNCHANGED txn
  <2>1. txn' = txn
    BY <1>3
  <2>2. Approved(txn')
    BY <1>2, <2>1
  <2> QED
    BY <1>1, <1>2, <1>3, <2>1, <2>2 DEF Settled, Fails
<1>4. ASSUME tasks[t].op = "collect", last' = "application",
             txn' = Stored(txn, tasks[t].next, tasks[t].bytes)
      PROVE  Settled
  <2>1. txn'.approval = txn.approval /\ txn'.cosig = txn.cosig
    BY <1>0, <1>4, StoredFields
  <2>2. txn.approval = {}
    BY <1>2, <1>4 DEF UnderWay, Approved
  <2>3. txn.cosig = {}
    <3>1. tasks[t].next \in multi /\ multi \subseteq Required
      BY <1>4 DEF IInv, RestSound, CallsSound, CallSound
    <3>2. kind = "registration" => Required = {0}
      BY DEF Required
    <3> QED
      BY <1>2, <3>1, <3>2 DEF Approved
  <2>4. Approved(txn')
    BY <2>1, <2>2, <2>3 DEF Approved
  <2> QED
    BY <1>1, <1>4, <2>4 DEF Settled
<1>5. ASSUME tasks[t].op = "sponsor", txn.payer, last' = "application",
             txn' = [txn EXCEPT !.approval = tasks[t].bytes]
      PROVE  Settled
  <2>1. /\ txn'.sigs = txn.sigs /\ txn'.payer = txn.payer
        /\ txn'.approval = tasks[t].bytes /\ txn'.cosig = txn.cosig
    BY <1>0, <1>5, SponsoredFields
  <2>2. \A b \in tasks[t].bytes : b.sigs = txn.sigs
    BY <1>2, <1>5 DEF UnderWay
  <2>3. Approved(txn')
    BY <1>2, <1>5, <2>1, <2>2 DEF Approved
  <2> QED
    BY <1>1, <1>5, <2>3 DEF Settled
<1> QED
  BY <1>3, <1>4, <1>5 DEF CollectSettles, SponsorSettles

\* The base a helper starts from, and what it signs.
LEMMA BaseStarts ==
  ASSUME IInv, kind # "coin", NEW m, m = PrepareBase(txn)
  PROVE  /\ Sound(m, Required) /\ Blank(m) /\ Approved(m) /\ m.hash = {}
         /\ SignedBytes(m) = CleanBytes(m.body) /\ SignedBytes(m) \in Signature
         /\ Required = {0}
<1>1. Sound(txn, Required) /\ txn \in Transaction
  BY DEF IInv, Sound
<1>2. Sound(m, Required)
  BY <1>1, PreparedSound
<1>3. Blank(m) /\ Approved(m) /\ m.hash = {} /\ m.body = txn.body
  BY PreparedBlank DEF PrepareBase
<1>4. CanonicalBytes(txn) = SignedBytes(m)
  BY DEF CanonicalBytes
<1>5. SignedBytes(m) = CleanBytes(m.body) /\ SignedBytes(m) \in Signature
  BY <1>1, <1>3, <1>4, CanonicalIs, CanonicalBytesClean
<1> QED
  BY <1>2, <1>3, <1>5 DEF Required

\* signWithKey signs or leaves a base without a hash.
LEMMA KeySettles ==
  ASSUME IInv, Orderly, awaited, SignWithKey
  PROVE  Settled
<1>1. Quiet /\ UNCHANGED tasks
  BY DEF SignWithKey, Refused
<1>2. /\ \A u \in Task : tasks[u].op = "idle"
      /\ Approved(txn) /\ last # "signing"
  BY <1>1, QuietRests
<1>3. \A u \in Task : tasks'[u].op = "idle"
  BY <1>1, <1>2
<1>4. CASE Fails /\ UNCHANGED txn
  BY <1>1, <1>2, <1>4, RefusedSettles
<1>5. CASE kind # "coin"
  <2> DEFINE m == PrepareBase(txn)
  <2>1. /\ Sound(m, Required) /\ Blank(m) /\ Approved(m) /\ m.hash = {}
        /\ SignedBytes(m) = CleanBytes(m.body) /\ SignedBytes(m) \in Signature
        /\ Required = {0}
    BY <1>5, BaseStarts
  <2>2. \/ txn' = SignedAndHashed(m, 0, {SignedBytes(m)}) /\ last' = "signed"
        \/ txn' = m /\ Fails
        \/ UNCHANGED txn /\ Fails
    BY <1>5 DEF SignWithKey, Refused
  <2> HIDE DEF m
  <2>3. CASE txn' = m /\ Fails
    BY <1>3, <2>1, <2>3 DEF Settled, Fails
  <2>4. CASE txn' = SignedAndHashed(m, 0, {SignedBytes(m)}) /\ last' = "signed"
    <3> DEFINE b == {SignedBytes(m)}
               n == Stored(m, 0, b)
    <3>1. b \in SUBSET Signature /\ b = {CleanBytes(m.body)} /\ 0 \in Required
      BY <2>1
    <3>2. \A s \in Required : s # 0 => m.sigs[s] = IF s <= 0 THEN b ELSE {}
      BY <2>1
    <3>3. txn' = WithHash(n, HashOf(n))
      BY <2>4 DEF SignedAndHashed
    <3> HIDE DEF b
    <3>4. Returned(txn') /\ Approved(txn')
      BY <2>1, <3>1, <3>2, <3>3, SignedReturns
    <3> QED
      BY <1>3, <2>4, <3>4 DEF Settled
  <2> QED
    BY <1>4, <2>2, <2>3, <2>4
<1>6. CASE kind = "coin"
  BY <1>4, <1>6 DEF SignWithKey, Refused
<1> QED
  BY <1>5, <1>6

\* signAndFinalize waits for its signer, or leaves a base without a hash.
LEMMA SignStarts ==
  ASSUME IInv, Orderly, awaited, NEW t \in Task, SignStart(t)
  PROVE  Settled \/ Waiting(t)
<1>1. Quiet
  BY DEF SignStart
<1>2. /\ \A u \in Task : tasks[u].op = "idle"
      /\ Approved(txn) /\ last # "signing"
  BY <1>1, QuietRests
<1>4. CASE Fails /\ UNCHANGED <<txn, tasks>>
  BY <1>2, <1>4, RefusedSettles
<1>5. CASE kind # "coin" /\ ContextHolds
  <2> DEFINE m == PrepareBase(txn)
  <2>1. /\ Blank(m) /\ Approved(m) /\ m.hash = {}
        /\ SignedBytes(m) = CleanBytes(m.body)
    BY <1>5, BaseStarts
  <2>2. /\ txn' = m
        /\ \/ Fails /\ UNCHANGED tasks
           \/ /\ tasks' = [tasks EXCEPT ![t] = Running("sign", SignedBytes(m), 0, 0)]
              /\ last' = "signing"
    BY <1>5 DEF SignStart
  <2> HIDE DEF m
  <2>3. CASE Fails /\ UNCHANGED tasks
    BY <1>2, <2>1, <2>2, <2>3 DEF Settled, Fails
  <2>4. ASSUME tasks' = [tasks EXCEPT ![t] = Running("sign", SignedBytes(m), 0, 0)],
               last' = "signing"
        PROVE  Waiting(t)
    <3>1. /\ tasks'[t] = Running("sign", SignedBytes(m), 0, 0)
          /\ \A u \in Task : u # t => tasks'[u].op = "idle"
      BY <1>2, <2>4, OneStarts
    <3>2. tasks'[t].op = "sign" /\ tasks'[t].bytes = {SignedBytes(m)}
      BY <3>1 DEF Running
    <3>3. UnderWay(m, tasks'[t])
      BY <2>1, <3>2 DEF UnderWay
    <3> QED
      BY <2>1, <2>2, <2>4, <3>1, <3>2, <3>3 DEF Waiting
  <2> QED
    BY <2>2, <2>3, <2>4
<1>6. CASE kind = "coin" \/ ~ContextHolds
  BY <1>4, <1>6 DEF SignStart, Refused
<1> QED
  BY <1>5, <1>6

\* signAndFinalize when its signer has answered.
LEMMA SignReturns ==
  ASSUME IInv, Orderly, awaited, NEW t \in Task, SignSettles(t)
  PROVE  Settled
<1>1. /\ tasks[t].op = "sign" /\ tasks' = [tasks EXCEPT ![t] = Idle]
      /\ \/ txn' = SignedAndHashed(txn, 0, tasks[t].bytes) /\ last' = "signed"
         \/ Fails /\ UNCHANGED txn
  BY DEF SignSettles
<1>2. \A u \in Task : tasks'[u].op = "idle"
  BY <1>1, LastReturns
<1>3. Approved(txn) /\ Blank(txn) /\ tasks[t].bytes = {CleanBytes(txn.body)}
  BY <1>1 DEF Orderly, UnderWay
<1>4. CASE Fails /\ UNCHANGED txn
  <2>1. txn' = txn
    BY <1>4
  <2>2. Approved(txn') /\ txn'.hash = {}
    BY <1>3, <2>1 DEF Blank
  <2> QED
    BY <1>2, <1>4, <2>2 DEF Settled, Fails
<1>5. CASE txn' = SignedAndHashed(txn, 0, tasks[t].bytes) /\ last' = "signed"
  <2> DEFINE b == tasks[t].bytes
             n == Stored(txn, 0, b)
  <2>1. Sound(txn, Required) /\ b \in SUBSET Signature /\ Required = {0}
    BY <1>1, CallFacts DEF IInv, CallsSound, CallSound, Required
  <2>2. b = {CleanBytes(txn.body)}
    BY <1>3
  <2>3. txn' = WithHash(n, HashOf(n))
    BY <1>5 DEF SignedAndHashed
  <2> HIDE DEF b
  <2>4. \A s \in Required : s # 0 => txn.sigs[s] = IF s <= 0 THEN b ELSE {}
    BY <2>1
  <2>5. 0 \in Required
    BY <2>1
  <2>6. Returned(txn') /\ Approved(txn')
    BY <1>3, <2>1, <2>2, <2>3, <2>4, <2>5, SignedReturns
  <2> QED
    BY <1>2, <1>5, <2>6 DEF Settled
<1> QED
  BY <1>1, <1>4, <1>5

\* A CoinTXN signed by the first n keys is what signCoinTXNWithKeys returns.
LEMMA FilledReturns ==
  ASSUME IInv, kind = "coin", NEW n \in Required, NEW f, NEW q, q = WithHash(f, HashOf(f)),
         f = Bare(txn, [s \in Slots |-> IF s \in 1..n THEN {CanonicalBytes(txn)} ELSE {}])
  PROVE  Returned(q) /\ Approved(q)
<1> DEFINE sigs == [s \in Slots |-> IF s \in 1..n THEN {CanonicalBytes(txn)} ELSE {}]
<1>0. Sound(txn, Required)
  BY DEF IInv
<1>1. CanonicalBytes(txn) = CleanBytes(txn.body)
  BY <1>0, CanonicalIs
<1>2. \A s \in Required : sigs[s] = IF s <= n THEN {CanonicalBytes(txn)} ELSE {}
  <2>1. Required = 1..N
    BY SigningConstants, SMT DEF Required, Slots
  <2> QED
    BY <2>1, SigningConstants, SMT DEF Slots
<1> HIDE DEF sigs
<1>3. Blank(f) /\ f.body = txn.body /\ f.sigs = sigs
  BY PreparedBlank DEF sigs
<1>4. f \in Transaction
  BY <1>0, FilledSound DEF Sound
<1>5. /\ q.hash = {CanonicalHash(q)} /\ ~q.payer /\ q.cosig = {} /\ q.approval = {}
      /\ q.body = f.body /\ q.sigs = f.sigs
  BY <1>3, <1>4, BlankHashed
<1>6. Returned(q)
  <2>1. q.body = txn.body /\ q.sigs = sigs
    BY <1>3, <1>5
  <2>2. \A s \in Required : q.sigs[s] = IF s <= n THEN {CleanBytes(q.body)} ELSE {}
    BY <1>1, <1>2, <2>1, Zenon
  <2> QED
    BY <1>5, <2>2, Zenon DEF Returned
<1>7. Approved(q)
  BY <1>5 DEF Approved
<1> QED
  BY <1>6, <1>7

\* signCoinTXNWithKeys signs every slot it was given a key for, or leaves no hash.
LEMMA CoinKeysSettle ==
  ASSUME IInv, Orderly, awaited, NEW n \in 1..N+1, SignCoinWithKeys(n)
  PROVE  Settled
<1> DEFINE Filled(k) ==
             Bare(txn, [s \in Slots |-> IF s \in 1..k THEN {CanonicalBytes(txn)} ELSE {}])
<1>1. Quiet /\ UNCHANGED tasks
  BY DEF SignCoinWithKeys, Refused
<1>2. /\ \A u \in Task : tasks[u].op = "idle"
      /\ Approved(txn) /\ last # "signing"
  BY <1>1, QuietRests
<1>3. \A u \in Task : tasks'[u].op = "idle"
  BY <1>1, <1>2
<1>4. \/ Fails /\ UNCHANGED txn
      \/ /\ kind = "coin" /\ ~TooMany(n) /\ txn' = WithHash(Filled(n), HashOf(Filled(n)))
         /\ last' = "signed"
      \/ txn' = PrepareCoin(txn) /\ Fails
      \/ (\E k \in 0..n-1 : txn' = Filled(k)) /\ Fails
  BY DEF SignCoinWithKeys, Refused
<1>5. CASE Fails /\ UNCHANGED txn
  BY <1>1, <1>2, <1>5, RefusedSettles
<1>6. ASSUME NEW s, txn' = Bare(txn, s), Fails PROVE Settled
  <2>1. Approved(txn') /\ txn'.hash = {}
    BY <1>6, PreparedBlank
  <2> QED
    BY <1>3, <1>6, <2>1 DEF Settled, Fails
<1>7. ASSUME kind = "coin", ~TooMany(n), txn' = WithHash(Filled(n), HashOf(Filled(n))),
             last' = "signed"
      PROVE  Settled
  <2>1. n \in Required
    BY <1>7, SigningConstants, SMT DEF Required, Slots, TooMany
  <2>2. Returned(txn') /\ Approved(txn')
    BY <1>7, <2>1, FilledReturns
  <2> QED
    BY <1>3, <1>7, <2>2 DEF Settled
<1> QED
  BY <1>4, <1>5, <1>6, <1>7 DEF PrepareCoin

\* signCoinTXN waits for its first signer, or leaves no hash.
LEMMA CoinStarts ==
  ASSUME IInv, Orderly, awaited, NEW t \in Task, NEW n \in 1..N+1, CoinStart(t, n)
  PROVE  Settled \/ Waiting(t)
<1>1. Quiet
  BY DEF CoinStart
<1>2. /\ \A u \in Task : tasks[u].op = "idle"
      /\ Approved(txn) /\ last # "signing"
  BY <1>1, QuietRests
<1>4. CASE Fails /\ UNCHANGED <<txn, tasks>>
  BY <1>2, <1>4, RefusedSettles
<1>5. CASE kind = "coin" /\ ContextHolds
  <2> DEFINE m == PrepareCoin(txn)
  <2>1. /\ Blank(m) /\ Approved(m) /\ m.hash = {} /\ m.body = txn.body
        /\ m.sigs = NoSignatures
    BY PreparedBlank DEF PrepareCoin
  <2>2. /\ txn' = m
        /\ \/ Fails /\ UNCHANGED tasks
           \/ /\ tasks' = [tasks EXCEPT ![t] = Running("coin", CanonicalBytes(txn), 1, n)]
              /\ last' = "signing"
    BY <1>5 DEF CoinStart
  <2> HIDE DEF m
  <2>3. CASE Fails /\ UNCHANGED tasks
    BY <1>2, <2>1, <2>2, <2>3 DEF Settled, Fails
  <2>4. ASSUME tasks' = [tasks EXCEPT ![t] = Running("coin", CanonicalBytes(txn), 1, n)],
               last' = "signing"
        PROVE  Waiting(t)
    <3>1. /\ tasks'[t] = Running("coin", CanonicalBytes(txn), 1, n)
          /\ \A u \in Task : u # t => tasks'[u].op = "idle"
      BY <1>2, <2>4, OneStarts
    <3>2. /\ tasks'[t].op = "coin" /\ tasks'[t].bytes = {CanonicalBytes(txn)}
          /\ tasks'[t].next = 1
      BY <3>1 DEF Running
    <3>3. CanonicalBytes(txn) = CleanBytes(m.body)
      BY <2>1, CanonicalIs DEF IInv
    <3>4. \A s \in Required : m.sigs[s] = IF s < 1 THEN {CleanBytes(m.body)} ELSE {}
      <4>1. \A s \in Required : s \in Slots /\ ~(s < 1)
        BY <1>5, SigningConstants, SMT DEF Required, Slots
      <4> QED
        BY <2>1, <4>1 DEF NoSignatures
    <3>5. UnderWay(m, tasks'[t])
      BY <2>1, <3>2, <3>3, <3>4 DEF UnderWay
    <3> QED
      BY <2>1, <2>2, <2>4, <3>1, <3>2, <3>5 DEF Waiting
  <2> QED
    BY <2>2, <2>3, <2>4
<1>6. CASE kind # "coin" \/ ~ContextHolds
  BY <1>4, <1>6 DEF CoinStart, Refused
<1> QED
  BY <1>5, <1>6

\* signCoinTXN when one of its signers has answered.
LEMMA CoinAnswers ==
  ASSUME IInv, Orderly, awaited, NEW t \in Task, CoinSettles(t)
  PROVE  Settled \/ Waiting(t)
<1> DEFINE b == tasks[t].bytes
           k == tasks[t].next
           n == Stored(txn, k, b)
<1>1. tasks[t].op = "coin" /\ Sound(txn, Required) /\ txn \in Transaction
  BY DEF CoinSettles, IInv, Sound
<1>2. /\ Approved(txn) /\ Blank(txn) /\ b = {CleanBytes(txn.body)}
      /\ \A s \in Required : txn.sigs[s] = IF s < k THEN {CleanBytes(txn.body)} ELSE {}
  BY <1>1 DEF Orderly, UnderWay
<1>3. b \in SUBSET Signature /\ k \in Required /\ k \in Slots /\ Required \subseteq 1..N
  <2>1. kind = "coin"
    BY <1>1 DEF IInv, CallsSound, CallSound
  <2>2. Required \subseteq 1..N
    BY <2>1, SigningConstants, SMT DEF Required, Slots
  <2> QED
    BY <1>1, <2>2, CallFacts
<1>4. \/ /\ n = txn' /\ last' = "signing"
         /\ tasks' = [tasks EXCEPT ![t].next = @ + 1]
      \/ /\ txn' = WithHash(n, HashOf(n)) /\ last' = "signed"
         /\ tasks' = [tasks EXCEPT ![t] = Idle]
      \/ Fails /\ txn' = txn /\ tasks' = [tasks EXCEPT ![t] = Idle]
  BY DEF CoinSettles, SignedAndHashed
<1> HIDE DEF b
<1>5. /\ n.body = txn.body /\ Blank(n)
      /\ n.sigs[k] = b /\ \A r \in Slots : r # k => n.sigs[r] = txn.sigs[r]
  BY <1>1, <1>2, <1>3, SlotFilled
<1>6. tasks' = [tasks EXCEPT ![t] = Idle] => \A u \in Task : tasks'[u].op = "idle"
  BY <1>1, LastReturns
<1> HIDE DEF n
<1>7. CASE Fails /\ txn' = txn /\ tasks' = [tasks EXCEPT ![t] = Idle]
  <2>1. Approved(txn') /\ txn'.hash = {}
    BY <1>2, <1>7 DEF Blank
  <2> QED
    BY <1>6, <1>7, <2>1 DEF Settled, Fails
<1>8. CASE txn' = WithHash(n, HashOf(n)) /\ last' = "signed"
           /\ tasks' = [tasks EXCEPT ![t] = Idle]
  <2>1. \A s \in Required : s # k => txn.sigs[s] = IF s <= k THEN b ELSE {}
    BY <1>2, <1>3
  <2>2. n = Stored(txn, k, b)
    BY DEF n
  <2> HIDE DEF k
  <2>3. Returned(txn') /\ Approved(txn')
    BY <1>1, <1>2, <1>3, <1>8, <2>1, <2>2, SignedReturns
  <2> QED
    BY <1>6, <1>8, <2>3 DEF Settled
<1>9. CASE n = txn' /\ last' = "signing" /\ tasks' = [tasks EXCEPT ![t].next = @ + 1]
  <2>1. /\ tasks'[t].op = "coin" /\ tasks'[t].bytes = b /\ tasks'[t].next = k + 1
        /\ \A u \in Task : u # t => tasks'[u] = tasks[u]
    <3>1. tasks[t] \in TaskState /\ tasks = [u \in Task |-> tasks[u]]
      BY CallFacts DEF IInv, CallsSound
    <3> DEFINE c == [tasks[t] EXCEPT !.next = k + 1]
    <3>2. tasks' = [tasks EXCEPT ![t] = c]
      BY <1>9
    <3>3. c.op = tasks[t].op /\ c.bytes = tasks[t].bytes /\ c.next = k + 1
      BY <3>1, SMT DEF TaskState
    <3> HIDE DEF c
    <3>4. tasks'[t] = c /\ \A u \in Task : u # t => tasks'[u] = tasks[u]
      BY <3>1, <3>2
    <3> QED
      BY <1>1, <3>3, <3>4 DEF b
  <2>2. \A u \in Task : u # t => tasks'[u].op = "idle"
    BY <1>1, <2>1 DEF Orderly
  <2>3. \A s \in Required : n.sigs[s] = IF s < k + 1 THEN {CleanBytes(n.body)} ELSE {}
    <3>1. k \in Int /\ \A s \in Required : s \in Slots /\ s \in Int
      BY <1>3 DEF Slots
    <3>2. k < k + 1
      BY <3>1, <1>3
    <3>3. \A s \in Required : s # k => (s < k <=> s < k + 1)
      BY <3>1, <1>3
    <3> QED
      BY <1>2, <1>3, <1>5, <3>1, <3>2, <3>3
  <2>4. UnderWay(n, tasks'[t])
    BY <1>2, <1>5, <2>1, <2>3 DEF UnderWay
  <2>5. Approved(n)
    BY <1>5 DEF Approved, Blank
  <2> QED
    BY <1>9, <2>1, <2>2, <2>4, <2>5 DEF Waiting
<1> QED
  BY <1>4, <1>7, <1>8, <1>9

-----------------------------------------------------------------------------
\* Every step of an application that awaits its calls leaves one call in progress or none.
LEMMA StepLands ==
  ASSUME IInv, Orderly, awaited, SigningNext
  PROVE  Settled \/ \E t \in Task : Waiting(t)
BY OwnStepSettles, AskedWaits, AnswerSettles, KeySettles, SignStarts, SignReturns,
   CoinKeysSettle, CoinStarts, CoinAnswers, Zenon DEF SigningNext

\* The awaited calls are in order at the start.
LEMMA InitOrderly == SigningInit => Orderly
<1> SUFFICES ASSUME SigningInit PROVE Orderly
  OBVIOUS
<1>1. \A t \in Task : tasks[t].op = "idle"
  BY DEF SigningInit, Idle
<1>2. txn.approval = {} /\ txn.cosig = {} /\ last = "none"
  BY DEF SigningInit
<1>3. Approved(txn)
  BY <1>2 DEF Approved
<1> QED
  BY <1>1, <1>2, <1>3 DEF Orderly, UnderWay

\* The awaited calls stay in order.
LEMMA StepOrderly ==
  ASSUME IInv, Orderly, [SigningNext]_signingVars
  PROVE  Orderly'
<1>1. CASE UNCHANGED signingVars
  BY <1>1 DEF signingVars, Orderly, Approved, UnderWay, Returned, Blank, CleanBytes, Required,
             CanonicalHash, Hashed
<1>2. CASE SigningNext
  <2>1. UNCHANGED <<awaited, kind, multi>>
    BY <1>2 DEF SigningNext, Frame, Configure, Edit, AddFeePayer, Finalize, SignWithKey,
         AttachGenerated, SignCoinWithKeys, CollectStart, CollectSettles, SponsorStart,
         SponsorSettles, SignStart, SignSettles, CoinSettles, CoinStart
  <2>2. CASE awaited
    BY <1>2, <2>1, <2>2, StepLands, Lands
  <2>3. CASE ~awaited
    BY <2>1, <2>3 DEF Orderly
  <2> QED
    BY <2>2, <2>3
<1> QED
  BY <1>1, <1>2

\* The awaited calls are always in order.
LEMMA AlwaysOrderly == SigningSpec => [](IInv /\ Orderly)
<1>1. SigningSpec => []IInv
  BY Invariance
<1> QED
  BY <1>1, InitOrderly, StepOrderly, PTL DEF SigningSpec

\* Who awaits the helpers can rely on what they return: signatures of the present body in
\* the required slots, the canonical hash, and no approval of an earlier version.
THEOREM AwaitedReturns == SigningSpec => []AwaitedSound
<1>1. IInv /\ Orderly => AwaitedSound
  <2> SUFFICES ASSUME IInv, Orderly PROVE AwaitedSound
    OBVIOUS
  <2>1. CanonicalBytes(txn) = CleanBytes(txn.body)
    BY CanonicalIs DEF IInv
  <2>2. ReturnSound
    BY <2>1 DEF ReturnSound, Orderly, Returned
  <2>3. NoStaleApproval
    BY DEF NoStaleApproval, Orderly, Approved
  <2> QED
    BY <2>2, <2>3 DEF AwaitedSound
<1> QED
  BY <1>1, AlwaysOrderly, PTL

\* An awaited signing call that fails leaves an object without a hash, or the one it found.
THEOREM FailuresLeaveNoHash == SigningSpec => FailureLeavesNoHash
<1> DEFINE Kept == awaited /\ last' = "failed" =>
                     txn'.hash = {} \/ (txn' = txn /\ last # "signing")
<1>1. IInv /\ Orderly /\ [SigningNext]_signingVars => [Kept]_signingVars
  <2> SUFFICES ASSUME IInv, Orderly, SigningNext, awaited, last' = "failed" PROVE Kept
    OBVIOUS
  <2>1. Settled
    BY StepLands DEF Waiting
  <2> QED
    BY <2>1 DEF Settled
<1> QED
  BY AlwaysOrderly, <1>1, PTL DEF SigningSpec, FailureLeavesNoHash
=============================================================================
