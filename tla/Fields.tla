------------------------------- MODULE Fields -------------------------------
(***************************************************************************)
(* The fields of a message: what an application enters is parsed           *)
(* (shared/tx/standard.ts and the parsers of the builders), held in a      *)
(* field of a fixed width or as decimal text, and read again by the query  *)
(* client (query/decoders.ts).  And what identifies a contract: the bytes  *)
(* protocol/contract-id.ts hashes.                                         *)
(*                                                                         *)
(* A number that is entered is an integer with some fraction digits; as    *)
(* text it may have leading zeros and surrounding blanks.  A text is a     *)
(* sequence of UTF-16 units.  The hash is its preimage, a sequence in      *)
(* which an integer of a fixed width is one element.                       *)
(***************************************************************************)
EXTENDS Integers, Sequences, SequencesExt, FiniteSetsExt

CONSTANTS
  Max32, Max64, Max256,  \* the largest numbers of the widths
  MaxSafe,               \* Number.MAX_SAFE_INTEGER
  MaxPort,               \* 65535
  Earliest, Latest,      \* milliseconds a Timestamp may stand for
  Second,                \* milliseconds of a second: 1000
  TextBytes,             \* TEXT_PROPOSAL_LIMITS of the field
  Scale,                 \* decimals of a currency equivalent: 18
  Whole,                 \* what stands for 100 % and for a dollar: 10^18
  None,                  \* refused, or not given
  Entries, Identities    \* what an application may enter, and derive

FieldConstants ==
  /\ Max32 \in Nat /\ Max64 \in Nat /\ Max256 \in Nat /\ MaxSafe \in Nat
  /\ Max32 <= MaxSafe /\ MaxSafe <= Max64 /\ Max64 <= Max256
  /\ Earliest \in Int /\ Latest \in Int /\ Second \in Nat \ {0}
  /\ Scale \in Nat /\ Whole % 10000 = 0 /\ None \notin Int

VARIABLES
  entry,  \* the field, and what is entered; or two things to identify
  pc,     \* "entered", "held", "read" or "refused"
  field,  \* what the message holds
  read    \* what is read again

vars == <<entry, pc, field, read>>

-----------------------------------------------------------------------------
(* Numbers *)

Pow10[n \in 0..9] == IF n = 0 THEN 1 ELSE 10 * Pow10[n - 1]

\* A text of digits alone, a safe number or a bigint.
Integral(v) ==
  /\ v.e = 0
  /\ CASE v.form = "text"   -> v.n >= 0 /\ ~v.empty
       [] v.form = "number" -> v.n \in -MaxSafe..MaxSafe
       [] OTHER             -> v.form = "bigint"

ParsePartsAmount(v, allowZero) ==
  IF Integral(v) /\ (IF allowZero THEN v.n >= 0 ELSE v.n > 0) THEN v.n ELSE None

ParseUint256(v, allowZero) ==
  IF Integral(v) /\ v.n \in (IF allowZero THEN 0 ELSE 1)..Max256 THEN v.n ELSE None

\* Mutant: any integer that is not negative.
ParseNatural(v) == IF Integral(v) /\ v.n >= 0 THEN v.n ELSE None

ParseUint64(v) == IF Integral(v) /\ v.n \in 0..Max64 THEN v.n ELSE None

\* protoInt64.uParse of String(value): an empty text is zero, and no number is too large to be
\* exact.
ParseOptionalUint64(v) ==
  CASE v.form = "text" /\ v.empty -> 0
    [] v.form \in {"text", "number", "bigint"} /\ v.e = 0 /\ v.n \in 0..Max64 -> v.n
    [] OTHER -> None

\* A proposal's nonce has no leading zero.
ParseNonce(v) == IF Integral(v) /\ ~v.lead /\ ~v.blanks /\ v.n \in 0..Max64 THEN v.n ELSE None

ValidatePositiveInteger(v) ==
  IF v.form = "text" /\ Integral(v) /\ ~v.lead /\ ~v.blanks /\ v.n \in 1..Max256 THEN v.n ELSE None

ParsePort(v) ==
  IF v.form \in {"text", "number"} /\ Integral(v) /\ ~v.blanks /\ v.n \in 1..MaxPort THEN v.n ELSE None

ParseUint32(v) == IF v.form = "number" /\ v.e = 0 /\ v.n \in 0..Max32 THEN v.n ELSE None

CanonicalDecimal(v) == IF v.form = "text" /\ Integral(v) /\ ~v.blanks THEN v.n ELSE None

\* usdToCurrencyEquivalent
UsdToCurrencyEquivalent(v) ==
  IF v.form = "text" /\ ~v.empty /\ v.n >= 0 /\ v.e <= Scale THEN v.n * Pow10[Scale - v.e] ELSE None

CurrencyEquivalentToUsd(x) == [n |-> x, e |-> Scale]

\* Math.round(value * 100)
Hundredfold(v) ==
  IF v.e <= 2 THEN v.n * Pow10[2 - v.e]
  ELSE (v.n + Pow10[v.e - 2] \div 2) \div Pow10[v.e - 2]

InPercent(v) == v.form = "number" /\ v.n >= 0 /\ v.n <= 100 * Pow10[v.e]

\* What is no number is below no limit and above none; only the first field takes it.
ConvertPercentToRegularQuorum(v) ==
  IF v.form = "NaN" THEN 0 ELSE IF InPercent(v) THEN Hundredfold(v) ELSE None

ConvertPercentToThreshold(v) == IF InPercent(v) THEN Hundredfold(v) ELSE None

ConvertPercentToContractFeePercent(v) ==
  IF InPercent(v) THEN (Hundredfold(v) * Whole) \div 10000 ELSE None

ConvertDollarAmountToContractFee(v) ==
  IF v.form = "number" /\ v.n >= 0 THEN (Hundredfold(v) * Whole) \div 100 ELSE None

ToTimestampInit(v) ==
  IF v.form = "date" /\ v.n \in Earliest..Latest
  THEN LET s == v.n \div Second IN [seconds |-> s, rest |-> v.n - s * Second]
  ELSE None

ToDate(t) == t.seconds * Second + t.rest

-----------------------------------------------------------------------------
(* Texts *)

\* A low surrogate stands after a high one, and a high one before a low one or at the end:
\* what charCodeAt returns past the end is no number, and compares to none.
IsWellFormedUnicode(t) ==
  \A i \in DOMAIN t : /\ t[i] = "high" => i = Len(t) \/ t[i + 1] = "low"
                      /\ t[i] = "low" => i > 1 /\ t[i - 1] = "high"

\* TextEncoder writes a replacement for a surrogate alone.
Encoded(t) ==
  [i \in DOMAIN t |->
     IF \/ t[i] = "high" /\ (i = Len(t) \/ t[i + 1] # "low")
        \/ t[i] = "low" /\ (i = 1 \/ t[i - 1] # "high")
     THEN "replaced" ELSE t[i]]

\* Four bytes for a pair of surrogates, three for a replacement.
Utf8Length(t) ==
  FoldLeft(LAMBDA sum, unit : sum + (CASE unit \in {"high", "low"} -> 2
                                       [] unit = "replaced"        -> 3
                                       [] OTHER                    -> 1),
           0, Encoded(t))

\* Trimmed, normalized, without control characters; a body may have several lines.
ValidateText(t, allowLineBreaks) ==
  IF /\ t # <<>> /\ Head(t) \notin {"blank", "break"} /\ Last(t) \notin {"blank", "break"}
     /\ IsWellFormedUnicode(t) /\ "control" \notin ToSet(t) /\ "unnormal" \notin ToSet(t)
     /\ allowLineBreaks \/ "break" \notin ToSet(t)
     /\ Utf8Length(t) <= TextBytes
  THEN t ELSE None

\* parseHash32: 64 hex digits, with or without 0x.
ParseHash32(t) == IF t.digits = 64 /\ t.hex THEN t.n ELSE None

\* parseAddress: one prefix may stand before the base58 characters.
ParseAddress(t) == IF ~t.empty /\ t.base58 THEN t.n ELSE None

-----------------------------------------------------------------------------
(* Records: refused as a whole when a part is; a part that is not given has its default *)

ParseHost(text) == IF text = "host" THEN text ELSE None

RequirePublicKeyId(key) == IF key \in {"operator", "other"} THEN key ELSE None

RequireBoolean(value) == IF value \in {"yes", "no"} THEN value ELSE None

Given(value, default, Parse(_)) == IF value = None THEN default ELSE Parse(value)

Complete(record) == IF \E part \in DOMAIN record : record[part] = None THEN None ELSE record

\* Lengths of a BLS key and of the proof that its owner has it.
BuildAttestationKey(key) ==
  IF key.publicKey = 48 /\ key.proof = 96 THEN Complete([version |-> ParseUint64(key.version)]) ELSE None

\* Now is the operator's clock; staked contracts are no longer taken.
BuildValidatorRecord(v) ==
  IF v.staked THEN None
  ELSE Complete(
    [key           |-> RequirePublicKeyId(IF v.key = None THEN "operator" ELSE v.key),
     host          |-> ParseHost(v.host),
     clientPort    |-> ParsePort(v.clientPort),
     validatorPort |-> ParsePort(v.validatorPort),
     benchmark     |-> Given(v.benchmark, 0, ParseUint64),
     timestamp     |-> ToTimestampInit(IF v.timestamp = None THEN v.now ELSE v.timestamp),
     lite          |-> Given(v.lite, "no", RequireBoolean),
     online        |-> Given(v.online, "no", RequireBoolean),
     version       |-> Given(v.version, 0, ParseUint32),
     lastHeartbeat |-> Given(v.lastHeartbeat, 0, ParseUint64),
     attestation   |-> Given(v.attestation, <<>>, BuildAttestationKey)])

\* A value may be empty, a key may not.
BuildParameters(parameters) ==
  IF \E i \in DOMAIN parameters : parameters[i].key = "blank" \/ parameters[i].value = None
  THEN None ELSE parameters

\* An address is text that decodes, or bytes.
BuildItemContractFees(fees) ==
  IF "" \in {fees.fee, fees.burn, fees.validator} \/ fees.address = "malformed" THEN None ELSE fees

BuildItem(item) ==
  Complete([parameters   |-> BuildParameters(item.parameters),
            contractFees |-> Given(item.fees, <<>>, BuildItemContractFees)])

-----------------------------------------------------------------------------
(* A field *)

Parsed ==
  CASE entry.kind = "amount"       -> ParsePartsAmount(entry.value, entry.zero)
    [] entry.kind = "uint256"      -> ParseUint256(entry.value, entry.zero)
    [] entry.kind = "uint64"       -> ParseUint64(entry.value)
    [] entry.kind = "optional"     -> ParseOptionalUint64(entry.value)
    [] entry.kind = "nonce"        -> ParseNonce(entry.value)
    [] entry.kind = "positive"     -> ValidatePositiveInteger(entry.value)
    [] entry.kind = "port"         -> ParsePort(entry.value)
    [] entry.kind = "uint32"       -> ParseUint32(entry.value)
    [] entry.kind = "decimal"      -> CanonicalDecimal(entry.value)
    [] entry.kind = "usd"          -> UsdToCurrencyEquivalent(entry.value)
    [] entry.kind = "quorum"       -> ConvertPercentToRegularQuorum(entry.value)
    [] entry.kind = "threshold"    -> ConvertPercentToThreshold(entry.value)
    [] entry.kind = "percent"      -> ConvertPercentToContractFeePercent(entry.value)
    [] entry.kind = "dollars"      -> ConvertDollarAmountToContractFee(entry.value)
    [] entry.kind = "timestamp"    -> ToTimestampInit(entry.value)
    [] entry.kind = "text"         -> ValidateText(entry.value, entry.lines)
    [] entry.kind = "hash"         -> ParseHash32(entry.value)
    [] entry.kind = "address"      -> ParseAddress(entry.value)
    [] entry.kind = "validator"    -> BuildValidatorRecord(entry.value)
    [] entry.kind = "item"         -> BuildItem(entry.value)

\* The message holds as many bits as its field has, and decimal text of any length.
Held(x) ==
  CASE entry.kind \in {"uint64", "optional", "nonce"}    -> x % (Max64 + 1)
    [] entry.kind \in {"uint32", "quorum", "threshold"}  -> x % (Max32 + 1)
    [] entry.kind = "text"                               -> Encoded(x)
    [] entry.kind = "validator" ->
         [x EXCEPT !.benchmark = @ % (Max64 + 1), !.lastHeartbeat = @ % (Max64 + 1),
                   !.version = @ % (Max32 + 1)]
    [] OTHER                                             -> x

\* parseUintString, with formatScaled for what counts fractions.
Decoded ==
  CASE entry.kind = "usd"       -> CurrencyEquivalentToUsd(field)
    [] entry.kind = "timestamp" -> ToDate(field)
    [] entry.kind = "percent"   -> (field * 10000) \div Whole
    [] entry.kind = "dollars"   -> (field * 100) \div Whole
    [] entry.kind = "validator" -> [field EXCEPT !.timestamp = ToDate(@)]
    [] OTHER                    -> field

Init ==
  /\ entry \in Entries \cup Identities
  /\ pc = IF entry.kind = "identity" THEN "identity" ELSE "entered"
  /\ field = None /\ read = None

Enter ==
  /\ pc = "entered"
  /\ IF Parsed = None THEN pc' = "refused" /\ UNCHANGED field
                      ELSE pc' = "held" /\ field' = Held(Parsed)
  /\ UNCHANGED <<entry, read>>

Query ==
  /\ pc = "held"
  /\ pc' = "read" /\ read' = Decoded
  /\ UNCHANGED <<entry, field>>

Next == Enter \/ Query

Spec == Init /\ [][Next]_vars

-----------------------------------------------------------------------------
(* Identities *)

LengthPrefixed(bytes) == <<Len(bytes)>> \o bytes

PrefixedString(s) == LengthPrefixed(s)

Stripped(digits) ==
  LET nonzero == {i \in DOMAIN digits : digits[i] # 0}
  IN IF nonzero = {} THEN <<0>> ELSE SubSeq(digits, Min(nonzero), Len(digits))

\* A part that need not be there is marked by a byte.
Optional(x, bytes) == IF x = <<>> THEN <<0>> ELSE <<1>> \o bytes

\* DOMAIN_CONTRACT_DATA and the others.
Domain(name) == <<name>>

DeriveContractDataHash(c) ==
  Domain("contract data") \o PrefixedString(c.symbol) \o <<c.type>>
    \o Optional(c.maxSupply, PrefixedString(Stripped(c.maxSupply)))
    \o Optional(c.denomination,
         IF c.denomination = <<>> THEN <<>>
         ELSE PrefixedString(c.denomination[1]) \o PrefixedString(Stripped(c.denomination[2])))
    \o <<Len(c.releases)>>
    \o FlattenSeq([i \in DOMAIN c.releases |->
                     <<c.releases[i].seconds>> \o PrefixedString(Stripped(c.releases[i].amount))])

DeriveGenesisContractId(g) == Domain("genesis") \o Domain("network") \o <<g.nonce>>

DeriveOrdinaryContractId(o) ==
  Domain("ordinary") \o Domain("network") \o <<o.type, o.algorithm>>
    \o LengthPrefixed(o.authorization) \o <<o.nonce>> \o LengthPrefixed(o.data)

ContractIdChecksum(digest) == Domain("checksum") \o LengthPrefixed(digest)

EncodeContractId(digest) == <<digest, ContractIdChecksum(digest)>>

\* The text as it is, and its second part the checksum of the first.
IsCanonicalContractId(id, blanks) == ~blanks /\ id[2] = ContractIdChecksum(id[1])

Digest(x) ==
  CASE x.kind = "data"     -> DeriveContractDataHash(x)
    [] x.kind = "genesis"  -> DeriveGenesisContractId(x)
    [] x.kind = "ordinary" -> DeriveOrdinaryContractId(x)

-----------------------------------------------------------------------------
(* Properties *)

\* The amount entered, in hundredths.
NearestHundredth(v, x) ==
  /\ 2 * (x * Pow10[v.e] - v.n * 100) <= Pow10[v.e]
  /\ 2 * (v.n * 100 - x * Pow10[v.e]) <= Pow10[v.e]

\* A validator is registered with the parts its operator gave, and the defaults for the others.
RecordKept(v, record) ==
  /\ ~v.staked
  /\ record.key = (IF v.key = None THEN "operator" ELSE v.key) /\ record.host = v.host
  /\ record.clientPort = v.clientPort.n /\ record.validatorPort = v.validatorPort.n
  /\ record.timestamp = (IF v.timestamp = None THEN v.now ELSE v.timestamp).n
  /\ \A part \in {"benchmark", "version", "lastHeartbeat"} :
       record[part] = IF v[part] = None THEN 0 ELSE v[part].n
  /\ \A part \in {"lite", "online"} : record[part] = IF v[part] = None THEN "no" ELSE v[part]
  /\ record.attestation = IF v.attestation = None THEN <<>>
                          ELSE [version |-> v.attestation.version.n]

\* A text that ends within a pair of surrogates comes out with a replacement there, and as it
\* was before.
CutShort(t) == [t EXCEPT ![Len(t)] = IF @ = "high" THEN "replaced" ELSE @]

\* What a parser lets into a field is what is read out of it again: no width cuts it, no time
\* before 1970 moves, nothing of a text is replaced but half a pair at its end.  Percentages and
\* dollars are those entered, to the nearest hundredth; an empty text and what is no number come
\* out as zero where they are taken.
FieldKept ==
  pc = "read" =>
    CASE entry.kind \in {"text"} -> read = CutShort(entry.value)
      [] entry.kind = "usd" -> read.n * Pow10[entry.value.e] = entry.value.n * Pow10[read.e]
      [] entry.kind \in {"quorum", "threshold", "percent", "dollars"} ->
           IF entry.value.form = "NaN" THEN read = 0 ELSE NearestHundredth(entry.value, read)
      [] entry.kind = "optional" /\ entry.value.form = "text" /\ entry.value.empty -> read = 0
      [] entry.kind = "validator" -> RecordKept(entry.value, read)
      [] entry.kind = "item" ->
           /\ read.parameters = entry.value.parameters
           /\ read.contractFees = IF entry.value.fees = None THEN <<>> ELSE entry.value.fees
      [] OTHER -> read = entry.value.n

\* Two contracts, or two creators, have one digest only when they are the same but for leading
\* zeros of amounts; and a contract id with the checksum of another is refused
\* (deriveContractDataHash, deriveOrdinaryContractId, isCanonicalContractId).
IdentitySound ==
  pc = "identity" =>
    LET Canonical(x) ==
          IF x.kind # "data" THEN x
          ELSE [x EXCEPT !.maxSupply = IF @ = <<>> THEN @ ELSE Stripped(@),
                         !.denomination = IF @ = <<>> THEN @ ELSE <<@[1], Stripped(@[2])>>,
                         !.releases = [i \in DOMAIN @ |->
                                         [@[i] EXCEPT !.amount = Stripped(@)]]]
        a == Digest(entry.a)
        b == Digest(entry.b)
    IN /\ a = b <=> Canonical(entry.a) = Canonical(entry.b)
       /\ IsCanonicalContractId(EncodeContractId(a), FALSE)
       /\ IsCanonicalContractId(<<a, EncodeContractId(b)[2]>>, FALSE) => a = b

\* What is sent means what was entered: each field alone, and the bytes that identify a contract
\* (the parsers of shared/tx/standard.ts and protocol/contract-id.ts).
FieldsSound == FieldKept /\ IdentitySound

=============================================================================
