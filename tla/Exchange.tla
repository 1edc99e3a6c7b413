------------------------------ MODULE Exchange ------------------------------
(***************************************************************************)
(* What an application and a wallet exchange: public key identifiers and   *)
(* their bytes (shared/crypto/address-utils.ts), the connection a wallet   *)
(* offers and the signatures it returns (adapter/wallet-adapter.ts,        *)
(* wallet-signer.ts, walletconnect.ts), transactions in envelopes          *)
(* (adapter/serialization.ts), and the adapter's events to its listeners.  *)
(*                                                                         *)
(* An identifier is a prefix of characters up to its last underscore and   *)
(* a key in base58.  The key has two faces: raw, its bytes, of which only  *)
(* those that are also characters of a prefix matter, and text, its base58 *)
(* letters.                                                                *)
(***************************************************************************)
EXTENDS Integers, Sequences, SequencesExt

CONSTANTS
  None,           \* not given, or refused
  Junk,           \* the length of what is decoded from no base64
  KeyLength,      \* bytes of a key, by its letter
  SignatureLength,\* bytes of a signature, by the letter of the key
  Exports,        \* exports of the generated module: name ends with Schema, type name
  Cases,          \* what is exchanged
  MaxHeard        \* bound: calls of listeners in an emission

VARIABLES
  case,  \* what is exchanged
  pc,    \* "given", "sent", "back" or "refused"
  sent,  \* what the other side has
  back,  \* what comes back
  lists, \* arrays of listeners: all there were, the adapter's, the emission's and its index
  heard  \* listeners called by the emission, in order

vars == <<case, pc, sent, back, lists, heard>>

-----------------------------------------------------------------------------
(* Identifiers and their bytes *)

Special(chars) == IsPrefix(<<"s", "c", "_">>, chars) \/ IsPrefix(<<"g", "o", "v", "_">>, chars)

\* getPublicKeyBytes: the prefix as it is, and the bytes of the key.
GetPublicKeyBytes(id) ==
  IF Special(id.prefix) THEN id.prefix \o id.raw
  ELSE IF Contains(id.prefix, "_") /\ id.raw # <<>> THEN id.prefix \o id.raw
  ELSE None

PrefixBytes == {"A", "B", "a", "b", "c", "_", "r"}

\* The bytes that may all be characters of a prefix, from the first on.
Run(bytes) == {i \in DOMAIN bytes : \A j \in 1..i : bytes[j] \in PrefixBytes}

\* getPublicKeyIdentifierFromBytes: the prefix ends with the last underscore of the run.
GetPublicKeyIdentifierFromBytes(bytes) ==
  LET underscores == {i \in Run(bytes) : bytes[i] = "_"}
      end == CHOOSE i \in underscores : \A j \in underscores : j <= i
  IN IF Len(bytes) >= 3 /\ SubSeq(bytes, 1, 3) \in {<<"s", "c", "_">>, <<"g", "o", "v">>}
     THEN [prefix |-> bytes, raw |-> <<>>]
     ELSE IF underscores = {} \/ end = Len(bytes) THEN None
     ELSE [prefix |-> SubSeq(bytes, 1, end), raw |-> SubSeq(bytes, end + 1, Len(bytes))]

Unrestricted(chars) == IF IsPrefix(<<"r", "_">>, chars) THEN SubSeq(chars, 3, Len(chars)) ELSE chars

\* getKeyTypeFromPublicKey: the letter.
GetKeyTypeFromPublicKey(chars) ==
  LET rest == Unrestricted(chars)
  IN IF ~Special(chars) /\ rest # <<>> /\ Head(rest) \in {"A", "B"} THEN Head(rest) ELSE None

-----------------------------------------------------------------------------
(* A wallet connects *)

Hash == {"a", "b", "c"}

At(chars, i, c) == i <= Len(chars) /\ chars[i] = c

\* The hash types from a place on: letters of hash types are taken one by one, each with the
\* character after it, also from the key.
TypesFrom(chars) ==
  LET After(i) == IF At(chars, i + 2, "_") THEN i + 3 ELSE i + 2
      types[i \in Nat] ==
        IF i <= Len(chars) /\ chars[i] \in Hash THEN <<chars[i]>> \o types[After(i)] ELSE <<>>
  IN types

\* getHashTypesFromPublicKey: what follows the key type.
GetHashTypesFromPublicKey(chars) == TypesFrom(chars)[IF At(chars, 3, "_") THEN 4 ELSE 3]

\* The hash types an identifier names behind its key type, each with an underscore; its address is
\* the chain of them applied to the key.
HashTypesOf(prefix) ==
  LET p == Unrestricted(prefix) IN [i \in 1..Len(p) \div 2 - 1 |-> p[2 * i + 1]]

\* generateAddressFromPublicKey: the base58 must decode.
GenerateAddress(id) ==
  IF ~id.base58 \/ GetKeyTypeFromPublicKey(id.prefix) = None THEN None
  ELSE GetHashTypesFromPublicKey(Unrestricted(id.prefix \o id.text))

\* The regular expression, and the length of the decoded key.
IsValidWalletPublicKey(id) ==
  LET p == Unrestricted(id.prefix) IN
  /\ p # <<>> /\ Len(p) % 2 = 0 /\ Head(p) \in {"A", "B"}
  /\ \A i \in DOMAIN p : IF i % 2 = 0 THEN p[i] = "_" ELSE i > 1 => p[i] \in Hash
  /\ id.base58 /\ id.length = KeyLength[Head(p)]

\* resolveWalletAddress: a supplied address must be the derived one.
ResolveWalletAddress(id, supplied) ==
  LET derived == GenerateAddress(id) IN IF supplied \in {None, derived} THEN derived ELSE None

Connect ==
  LET address == ResolveWalletAddress(case.id, case.address)
  IN IF IsValidWalletPublicKey(case.id) THEN address ELSE None

-----------------------------------------------------------------------------
(* A wallet signs *)

ExpectedSignatureLength(prefix) ==
  LET p == Unrestricted(prefix)
  IN IF Len(p) > 1 /\ p[1] \in {"A", "B"} /\ p[2] = "_" THEN SignatureLength[p[1]] ELSE None

\* What the answer holds: a text, or an object with one of two fields.
Signature(answer) == IF answer.form \in {"text", "signature", "signedTransaction"} THEN answer.text ELSE None

\* decodeAndValidateSignature: of a text that may be escaped for a URL.
DecodeAndValidateSignature(text, prefix) ==
  LET expected == ExpectedSignatureLength(prefix) IN
  IF /\ text.escape # "broken" /\ text.base64 = "good"
     /\ text.length \in (IF expected = None THEN {SignatureLength["A"], SignatureLength["B"]}
                         ELSE {expected})
  THEN text.length ELSE None

\* WalletSigner.sign and a deep link's result validate; WalletConnectSigner decodes whatever
\* there is.
Sign(answer, prefix, signer) ==
  LET text == IF signer = "walletConnect" /\ answer.form # "signature" THEN None
              ELSE Signature(answer) IN
  IF text = None THEN None
  ELSE IF signer # "walletConnect" THEN DecodeAndValidateSignature(text, prefix)
  ELSE IF text.base64 = "empty" THEN 0
  ELSE IF text.base64 = "good" /\ text.escape = "none" THEN text.length
  ELSE Junk

-----------------------------------------------------------------------------
(* Envelopes *)

\* schemaRegistry
Registry == {e.type : e \in {x \in Exports : x.schema}}

\* normalizeTransactionTypeName: the old package is the new one.
Normalize(type) == IF type.package = "zera_txn" THEN [type EXCEPT !.package = "kal_txn"] ELSE type

SchemaRegistered(type) == Normalize(type) \in Registry

\* serializeTransaction: with a schema of its own, or a registered one.
Serialize(message, schemaGiven) ==
  IF schemaGiven \/ message.type \in Registry
  THEN [type |-> message.type, data |-> message.content, version |-> 1] ELSE None

\* deserializeTransaction: a message without content has no data and is refused.
Deserialize(envelope) ==
  IF envelope.data # <<>> /\ envelope.version = 1 /\ SchemaRegistered(envelope.type)
  THEN [type |-> Normalize(envelope.type), content |-> envelope.data] ELSE None

-----------------------------------------------------------------------------
(* What is exchanged: an identifier with a key type is a prefix of its own characters up to its
   last underscore, base58 has no underscore, and messages have the names of this version. *)

Identifier == [prefix : Seq(STRING), raw : Seq(STRING)]

Message == [type : [package : STRING \ {"zera_txn"}, name : STRING], content : Seq(Nat)]

CaseAllowed(c) ==
  CASE c.kind = "identifier" ->
         /\ c.id \in Identifier
         /\ GetKeyTypeFromPublicKey(c.id.prefix) # None =>
              /\ \A i \in DOMAIN c.id.prefix : c.id.prefix[i] \in PrefixBytes
              /\ c.id.prefix[Len(c.id.prefix)] = "_"
    [] c.kind = "connection" ->
         /\ c.id.prefix \in Seq(STRING) /\ c.id.text \in Seq(STRING)
         /\ \A i \in DOMAIN c.id.text : c.id.text[i] # "_"
    [] c.kind = "envelope" -> c.message \in Message
    [] c.kind = "event" ->
         /\ c.subscribed \in Seq(DOMAIN c.acts)
         /\ \A h \in DOMAIN c.acts : c.acts[h].whom \in DOMAIN c.acts
    [] OTHER -> FALSE

ExchangeConstants ==
  /\ DOMAIN KeyLength = {"A", "B"} /\ SignatureLength \in [{"A", "B"} -> Nat]
  /\ MaxHeard \in Nat /\ Junk \notin Int
  /\ None \notin Nat /\ None \notin {"A", "B"} /\ None \notin Seq(Hash)
  /\ None \notin Seq(STRING) /\ None \notin Identifier /\ None \notin Message
  /\ None \notin [type : [package : STRING, name : STRING], data : Seq(Nat), version : Nat]
  /\ \A c \in Cases : CaseAllowed(c)

-----------------------------------------------------------------------------
Arrays(subscribed) == [all |-> <<subscribed>>, adapter |-> 1, emission |-> 1, at |-> 1]

Init ==
  /\ case \in Cases
  /\ pc = "given" /\ sent = None /\ back = None
  /\ lists = Arrays(IF case.kind = "event" THEN case.subscribed ELSE <<>>)
  /\ heard = <<>>

\* An envelope may come from an older library, or a newer one.
Transported(envelope) ==
  LET package == IF case.old /\ envelope.type.package = "kal_txn" THEN "zera_txn"
                 ELSE envelope.type.package
  IN [type |-> [package |-> package, name |-> envelope.type.name],
      data |-> envelope.data, version |-> case.version]

Sent ==
  CASE case.kind = "identifier" -> GetPublicKeyBytes(case.id)
    [] case.kind = "connection" -> Connect
    [] OTHER -> Serialize(case.message, case.schemaGiven)

Send ==
  /\ pc = "given" /\ case.kind # "event"
  /\ sent' = Sent
  /\ pc' = IF sent' = None THEN "refused" ELSE "sent"
  /\ UNCHANGED <<case, back, lists, heard>>

\* After a connection, a signature.
Received ==
  CASE case.kind = "identifier" -> GetPublicKeyIdentifierFromBytes(sent)
    [] case.kind = "connection" -> Sign(case.answer, case.id.prefix, case.signer)
    [] OTHER -> Deserialize(Transported(sent))

Receive ==
  /\ pc = "sent" /\ case.kind # "event"
  /\ back' = Received
  /\ pc' = IF back' = None THEN "refused" ELSE "back"
  /\ UNCHANGED <<case, sent, lists, heard>>

\* on: at the end of the adapter's array.
On(arrays, h) == [arrays EXCEPT !.all[arrays.adapter] = Append(@, h)]

\* filter: the array without a listener.
Without(array, h) ==
  LET kept[n \in 0..Len(array)] ==
        IF n = 0 THEN <<>>
        ELSE IF array[n] = h THEN kept[n - 1] ELSE Append(kept[n - 1], array[n])
  IN kept[Len(array)]

\* Mutant: off cuts the listener out of the array.
OffInPlace(arrays, h) == [arrays EXCEPT !.all[arrays.adapter] = Without(@, h)]

\* off: the adapter has a new array.
Off(arrays, h) ==
  [arrays EXCEPT
     !.all = Append(@, Without(arrays.all[arrays.adapter], h)),
     !.adapter = Len(arrays.all) + 1]

\* _emit calls the next listener of the array it began with; what a listener throws is
\* swallowed.
Emit ==
  /\ case.kind = "event" /\ pc = "given" /\ Len(heard) < MaxHeard
  /\ LET array == lists.all[lists.emission] IN
     IF lists.at > Len(array) THEN pc' = "back" /\ UNCHANGED <<lists, heard>>
     ELSE LET h == array[lists.at]  act == case.acts[h] IN
          /\ heard' = Append(heard, h)
          /\ lists' = [CASE act.does = "on" -> On(lists, act.whom)
                         [] act.does = "off" -> Off(lists, act.whom)
                         [] act.does = "again" -> On(Off(lists, h), h)
                         [] OTHER -> lists EXCEPT !.at = lists.at + 1]
          /\ UNCHANGED pc
  /\ UNCHANGED <<case, sent, back>>

Next == Send \/ Receive \/ Emit

Spec == Init /\ [][Next]_vars

-----------------------------------------------------------------------------
(* Properties *)

\* No underscore in the bytes at the head of the key that could be characters of a prefix.
Plain(raw) == \A i \in Run(raw) : raw[i] # "_"

\* The key type, by which a fee counts the key, survives the bytes of a message, and so does the
\* whole identifier unless its key begins like a prefix (calculateKeyFee,
\* getPublicKeyIdentifierFromBytes).
IdentifierSurvives ==
  case.kind = "identifier" /\ sent # None
    /\ (Special(case.id.prefix) \/ GetKeyTypeFromPublicKey(case.id.prefix) # None) =>
    /\ pc = "back" => GetKeyTypeFromPublicKey(back.prefix) = GetKeyTypeFromPublicKey(case.id.prefix)
    /\ pc = "refused" => ~Plain(case.id.raw)
    /\ pc = "back" /\ Plain(case.id.raw) =>
         back.prefix \o back.raw = case.id.prefix \o case.id.raw
           /\ (~Special(case.id.prefix) => back = [prefix |-> case.id.prefix, raw |-> case.id.raw])

\* The address of a connection is that of its key, whoever supplied it, unless the key begins
\* like a hash type (handleConnect..., resolveWalletAddress).
AddressProved ==
  case.kind = "connection" /\ case.id.text # <<>> /\ Head(case.id.text) \notin Hash =>
    LET own == HashTypesOf(case.id.prefix) IN
    /\ sent # None => sent = own
    /\ pc # "given" /\ case.address \in {None, own} /\ IsValidWalletPublicKey(case.id)
         => sent # None

\* A signature that is accepted has the length of the connected key, except WalletConnect's.
SignatureFits ==
  pc = "back" /\ case.kind = "connection" /\ case.signer # "walletConnect" =>
    LET k == GetKeyTypeFromPublicKey(case.id.prefix)
    IN back = SignatureLength[k] /\ case.id.length = KeyLength[k]

\* A transaction comes back as it was, also under its old name; only one that is empty,
\* unregistered or of another version does not.
EnvelopeSurvives ==
  case.kind = "envelope" =>
    /\ pc = "back" => back = case.message
    /\ pc = "refused" => \/ case.message.type \notin Registry \/ case.message.content = <<>>
                         \/ case.version # 1

\* Every listener that was subscribed when an event was emitted hears it once for each
\* subscription and in order, whoever unsubscribes meanwhile; one that leaves stays away.
ListenersHear ==
  case.kind = "event" =>
    /\ IsPrefix(heard, case.subscribed) \/ IsPrefix(case.subscribed, heard)
    /\ pc = "back" => Len(heard) >= Len(case.subscribed)
    /\ pc = "back" /\ (\A h \in ToSet(heard) : case.acts[h].does \notin {"on", "again"}) =>
         /\ heard = case.subscribed
         /\ \A h \in ToSet(heard) :
              case.acts[h].does = "off" =>
                ~Contains(lists.all[lists.adapter], case.acts[h].whom)

\* What is exchanged means the same on both sides.
ExchangeSound ==
  IdentifierSurvives /\ AddressProved /\ SignatureFits /\ EnvelopeSurvives /\ ListenersHear
=============================================================================
