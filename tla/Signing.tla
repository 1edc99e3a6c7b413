------------------------------ MODULE Signing ------------------------------
(***************************************************************************)
(* The signing helpers of sign/finalize.ts, with the pinned chain of       *)
(* sign/context.ts and attachGeneratedSignature of validator-ops, working  *)
(* on one transaction object which the application shares with every call. *)
(*                                                                         *)
(* A helper which takes an external signer awaits it and mutates the       *)
(* object again afterwards.  The object is abstracted to its body and its  *)
(* signing material: slot 0 stands for base.signature (or the signatures   *)
(* of base.publicKey.multi) and slots 1..N for the authorizations of a     *)
(* CoinTXN.  An optional field is a set of at most one element.  What is   *)
(* signed or hashed is the record of what its bytes hold; "residue" says   *)
(* that they hold signing material which has no place there.               *)
(***************************************************************************)
EXTENDS Integers

CONSTANTS
  Body,      \* the versions of the signed fields
  Chain,     \* chain IDs
  N,         \* authorization slots of the CoinTXN
  Task       \* asynchronous calls which may overlap

ASSUME SigningConstants == N \in Nat \ {0}

VARIABLES
  awaited, \* the application awaits every call before it goes on
  kind,   \* the message type: standard, coin or registration
  multi,  \* slots whose public key is a multisig
  chain,  \* base.chainId
  txn,    \* the shared object
  pin,    \* configuredChainId
  tasks,  \* the asynchronous calls
  last    \* outcome of the latest step, as the application sees it

signingVars == <<awaited, kind, multi, chain, txn, pin, tasks, last>>

Slots == 0..N
Signature == [body : Body, residue : BOOLEAN]
Signatures == [Slots -> SUBSET Signature]
Approval == [body : Body, sigs : Signatures]
HashValue == [body : Body, sigs : Signatures, payer : BOOLEAN,
         approval : SUBSET Approval, residue : BOOLEAN]
Transaction == [body : Body, sigs : Signatures, payer : BOOLEAN,
                approval : SUBSET Approval, cosig : SUBSET HashValue, hash : SUBSET HashValue]

NoSignatures == [s \in Slots |-> {}]

\* The slots that signers fill.
Required == IF kind = "coin" THEN Slots \ {0} ELSE {0}

Residue(m) ==
  (\E s \in Slots : m.sigs[s] # {}) \/ m.payer \/ m.hash # {} \/ m.cosig # {}

SignedBytes(m) == [body |-> m.body, residue |-> Residue(m)]

\* The body with these signatures and no other signing material.
Bare(m, sigs) == [body |-> m.body, sigs |-> sigs, payer |-> FALSE,
                  approval |-> {}, cosig |-> {}, hash |-> {}]

\* Mutant: the fee payer survives a fresh signature.
KeepPayer(m) == [m EXCEPT !.sigs[0] = {}, !.hash = {}, !.cosig = {}]

\* Mutant: the hash survives.
KeepHash(m) == [m EXCEPT !.sigs[0] = {}, !.payer = FALSE, !.approval = {}, !.cosig = {}]

\* A fresh signature starts from a base without signing material.
PrepareBase(m) == Bare(m, [m.sigs EXCEPT ![0] = {}])

\* Mutant: the authorizations keep their signatures.
KeepInner(m) == PrepareBase(m)

\* The CoinTXN with every outer and inner signature blank.
PrepareCoin(m) == Bare(m, NoSignatures)

\* What getTransactionSigningBytes serialises, on a copy.
CanonicalBytes(m) == SignedBytes(IF kind = "coin" THEN PrepareCoin(m) ELSE PrepareBase(m))

\* The sponsor approves the signed message; hash and own signature are cleared on a copy.
SponsorBytes(m) == [body |-> m.body, sigs |-> m.sigs]

Hashed(m, residue) == [body |-> m.body, sigs |-> m.sigs, payer |-> m.payer,
                       approval |-> m.approval, residue |-> residue]

\* The hash of the message as it stands.
HashOf(m) == Hashed(m, m.hash # {} \/ m.cosig # {})

\* finalizeTransactionHash: the message without its hash and co-signature.
CanonicalHash(m) == Hashed(m, FALSE)

ContextHolds == pin = {chain}

Idle == [op |-> "idle", bytes |-> {}, next |-> 0, count |-> 0]
Running(op, bytes, next, count) ==
  [op |-> op, bytes |-> {bytes}, next |-> next, count |-> count]

Quiet == awaited => \A t \in Task : tasks[t].op = "idle"
Frame == UNCHANGED <<awaited, kind, multi, chain>>

Fails == last' = "failed"
Refused == Fails /\ UNCHANGED <<txn, tasks>>

SigningInit ==
  /\ awaited \in BOOLEAN
  /\ kind \in {"standard", "coin", "registration"}
  /\ multi \in SUBSET Required
  /\ chain \in Chain
  /\ \E b \in Body : txn = [body |-> b, sigs |-> NoSignatures, payer |-> FALSE,
                            approval |-> {}, cosig |-> {}, hash |-> {}]
  /\ pin = {}
  /\ tasks = [t \in Task |-> Idle]
  /\ last = "none"

Stored(m, s, bytes) == [m EXCEPT !.sigs[s] = bytes]
WithHash(m, h) == [m EXCEPT !.hash = {h}]

\* The signature goes into its slot, and the hash covers the object as it now stands.
SignedAndHashed(m, s, bytes) == WithHash(Stored(m, s, bytes), HashOf(Stored(m, s, bytes)))

-----------------------------------------------------------------------------
(* The application.                                                        *)

Configure ==
  /\ Quiet
  /\ \E p \in {{}} \cup {{c} : c \in Chain} : pin' = p
  /\ last' = "application"
  /\ Frame /\ UNCHANGED <<txn, tasks>>

Edit ==
  /\ Quiet
  /\ \E b \in Body : txn' = [txn EXCEPT !.body = b]
  /\ last' = "application"
  /\ Frame /\ UNCHANGED <<pin, tasks>>

\* The sponsor's key and nonce, with its signature empty.
AddFeePayer ==
  /\ Quiet /\ kind = "standard"
  /\ txn' = [body |-> txn.body, sigs |-> txn.sigs, payer |-> TRUE,
              approval |-> {}, cosig |-> txn.cosig, hash |-> txn.hash]
  /\ last' = "application"
  /\ Frame /\ UNCHANGED <<pin, tasks>>

\* It asks a multisig member for a signature over the canonical bytes ...
CollectStart(t) ==
  /\ Quiet /\ tasks[t].op = "idle" /\ ~txn.payer
  /\ IF ContextHolds
       THEN /\ \E s \in multi :
                 tasks' = [tasks EXCEPT ![t] = Running("collect", CanonicalBytes(txn), s, 0)]
            /\ last' = "waiting"
       ELSE Fails /\ UNCHANGED tasks
  /\ Frame /\ UNCHANGED <<txn, pin>>

\* ... and stores it in the slot of the key.
CollectSettles(t) ==
  /\ tasks[t].op = "collect"
  /\ \/ /\ txn' = Stored(txn, tasks[t].next, tasks[t].bytes)
        /\ last' = "application"
     \/ Fails /\ UNCHANGED txn
  /\ tasks' = [tasks EXCEPT ![t] = Idle]
  /\ Frame /\ UNCHANGED pin

\* It asks the sponsor for an approval of getSponsorSigningBytes ...
SponsorStart(t) ==
  /\ Quiet /\ tasks[t].op = "idle"
  /\ IF ContextHolds /\ kind = "standard" /\ txn.payer /\ txn.sigs[0] # {}
       THEN /\ tasks' = [tasks EXCEPT ![t] = Running("sponsor", SponsorBytes(txn), 0, 0)]
            /\ last' = "waiting"
       ELSE Fails /\ UNCHANGED tasks
  /\ Frame /\ UNCHANGED <<txn, pin>>

\* ... and stores it, unless the fee payer is gone.
SponsorSettles(t) ==
  /\ tasks[t].op = "sponsor"
  /\ \/ /\ txn.payer
        /\ txn' = [txn EXCEPT !.approval = tasks[t].bytes]
        /\ last' = "application"
     \/ Fails /\ UNCHANGED txn
  /\ tasks' = [tasks EXCEPT ![t] = Idle]
  /\ Frame /\ UNCHANGED pin

-----------------------------------------------------------------------------
(* The helpers.                                                            *)

Finalize ==
  /\ Quiet
  /\ IF ContextHolds
       THEN /\ txn' = WithHash(txn, CanonicalHash(txn))
            /\ last' = "finalized" /\ UNCHANGED tasks
       ELSE Refused
  /\ Frame /\ UNCHANGED pin

\* signWithKey; a base multisig is refused after the base was cleared.
SignWithKey ==
  /\ Quiet
  /\ IF kind = "coin" \/ ~ContextHolds THEN Refused
     ELSE LET m == PrepareBase(txn) IN
       /\ \/ 0 \notin multi /\ txn' = SignedAndHashed(m, 0, {SignedBytes(m)}) /\ last' = "signed"
          \/ txn' = m /\ Fails
       /\ UNCHANGED tasks
  /\ Frame /\ UNCHANGED pin

\* signAndFinalize up to the signer.
SignStart(t) ==
  /\ Quiet /\ tasks[t].op = "idle"
  /\ IF kind = "coin" \/ ~ContextHolds THEN Refused
     ELSE LET m == PrepareBase(txn) IN
       /\ txn' = m
       /\ IF 0 \in multi THEN Fails /\ UNCHANGED tasks
          ELSE /\ tasks' = [tasks EXCEPT ![t] = Running("sign", SignedBytes(m), 0, 0)]
               /\ last' = "signing"
  /\ Frame /\ UNCHANGED pin

\* signAndFinalize from the signer's answer on.
SignSettles(t) ==
  /\ tasks[t].op = "sign"
  /\ \/ txn' = SignedAndHashed(txn, 0, tasks[t].bytes) /\ last' = "signed"
     \/ Fails /\ UNCHANGED txn
  /\ tasks' = [tasks EXCEPT ![t] = Idle]
  /\ Frame /\ UNCHANGED pin

TooMany(n) == n > N

\* signCoinTXNWithKeys with n keys: a bad key or a multisig slot stops it between two slots.
SignCoinWithKeys(n) ==
  /\ Quiet
  /\ IF kind # "coin" \/ ~ContextHolds THEN Refused
     ELSE LET Filled(k) ==
                Bare(txn, [s \in Slots |-> IF s \in 1..k THEN {CanonicalBytes(txn)} ELSE {}])
          IN
       /\ \/ /\ ~TooMany(n) /\ multi \cap 1..n = {}
             /\ txn' = WithHash(Filled(n), HashOf(Filled(n)))
             /\ last' = "signed"
          \/ /\ IF TooMany(n) THEN txn' = PrepareCoin(txn)
                ELSE \E k \in 0..n-1 : multi \cap 1..k = {} /\ txn' = Filled(k)
             /\ Fails
       /\ UNCHANGED tasks
  /\ Frame /\ UNCHANGED pin

\* signCoinTXN with n signers, up to the first of them.
CoinStart(t, n) ==
  /\ Quiet /\ tasks[t].op = "idle"
  /\ IF kind # "coin" \/ ~ContextHolds THEN Refused
     ELSE
       /\ txn' = PrepareCoin(txn)
       /\ IF TooMany(n) THEN Fails /\ UNCHANGED tasks
          ELSE /\ tasks' = [tasks EXCEPT ![t] = Running("coin", CanonicalBytes(txn), 1, n)]
               /\ last' = "signing"
  /\ Frame /\ UNCHANGED pin

\* The answer of one of them; a multisig slot is refused once its signer has answered.
CoinSettles(t) ==
  LET k == tasks[t] IN
  /\ k.op = "coin"
  /\ \/ /\ k.next \notin multi /\ k.next < k.count
        /\ txn' = Stored(txn, k.next, k.bytes)
        /\ tasks' = [tasks EXCEPT ![t].next = @ + 1]
        /\ last' = "signing"
     \/ /\ k.next \notin multi /\ k.next = k.count
        /\ txn' = SignedAndHashed(txn, k.next, k.bytes)
        /\ tasks' = [tasks EXCEPT ![t] = Idle]
        /\ last' = "signed"
     \/ Fails /\ tasks' = [tasks EXCEPT ![t] = Idle] /\ UNCHANGED txn
  /\ Frame /\ UNCHANGED pin

\* The registration is signed by its operator, and its hash is the one its fields give.
OperatorSigned ==
  txn.sigs[0] # {} /\ 0 \notin multi /\ ContextHolds /\ txn.hash = {CanonicalHash(txn)}

\* attachGeneratedSignature.
AttachGenerated ==
  /\ Quiet /\ kind = "registration"
  /\ \/ /\ OperatorSigned
        /\ txn' = [txn EXCEPT !.cosig = txn.hash]
        /\ last' = "cosigned" /\ UNCHANGED tasks
     \/ Refused
  /\ Frame /\ UNCHANGED pin

SigningNext ==
  \/ Configure \/ Edit \/ AddFeePayer \/ Finalize \/ SignWithKey \/ AttachGenerated
  \/ \E n \in 1..N+1 : SignCoinWithKeys(n)
  \/ \E t \in Task :
       \/ CollectStart(t) \/ CollectSettles(t) \/ SponsorStart(t) \/ SponsorSettles(t)
       \/ SignStart(t) \/ SignSettles(t) \/ CoinSettles(t)
       \/ \E n \in 1..N+1 : CoinStart(t, n)

SigningSpec == SigningInit /\ [][SigningNext]_signingVars

-----------------------------------------------------------------------------
TaskState ==
  [op : {"idle", "collect", "sponsor", "sign", "coin"},
   bytes : SUBSET (Signature \cup Approval), next : 0..N, count : 0..N]

\* Every signature, hash and approval is held in the field of its kind.
SigningTypeOK ==
  /\ awaited \in BOOLEAN
  /\ kind \in {"standard", "coin", "registration"}
  /\ multi \subseteq Slots
  /\ chain \in Chain
  /\ txn \in Transaction
  /\ pin \subseteq Chain
  /\ tasks \in [Task -> TaskState]
  /\ \A t \in Task : tasks[t].bytes \subseteq
                       IF tasks[t].op = "sponsor" THEN Approval ELSE Signature
  /\ last \in {"none", "application", "waiting", "signing", "failed",
               "signed", "finalized", "cosigned"}

\* Whatever calls overlap on the object, and however often it is signed again, no signature
\* in it or on its way to it was made over bytes with an older signature, hash, co-signature
\* or fee payer in them.
SignaturesClean ==
  /\ \A s \in Slots : \A g \in txn.sigs[s] : ~g.residue
  /\ \A t \in Task : tasks[t].op # "sponsor" => \A b \in tasks[t].bytes : ~b.residue

\* When a signing helper returns to an application that awaited it, the required slots hold
\* signatures of the present body up to the last signer, the hash is the canonical one, and
\* neither the sponsor nor the co-signature of an earlier version is left.
ReturnSound ==
  awaited /\ last = "signed" =>
    /\ txn.hash = {CanonicalHash(txn)}
    /\ \E n \in Required : \A s \in Required :
         txn.sigs[s] = IF s <= n THEN {CanonicalBytes(txn)} ELSE {}
    /\ ~txn.payer /\ txn.cosig = {}

\* As long as calls are awaited, a sponsor's approval and a generated key's co-signature in
\* the object cover the very signatures in it: a fresh signature takes with it what was
\* collected over the last one.
NoStaleApproval ==
  awaited => \A a \in txn.approval \cup txn.cosig : a.sigs = txn.sigs

\* Who awaits the helpers can rely on what they leave: signatures of the present body, and no
\* approval of an earlier one (signAndFinalize, sponsor and co-sign).
AwaitedSound == ReturnSound /\ NoStaleApproval

\* A signing call that was awaited and failed leaves an object without a hash, which the client refuses to
\* submit, or the object as it was before the call.
FailureLeavesNoHash ==
  [][awaited /\ last' = "failed" => txn'.hash = {} \/ (txn' = txn /\ last # "signing")]_signingVars
=============================================================================
