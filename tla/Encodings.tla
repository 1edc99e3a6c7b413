------------------------------ MODULE Encodings ------------------------------
(***************************************************************************)
(* Bytes that go to the programs of the bridge on Solana and come back:    *)
(* integers, hexadecimal texts and padding (shared/utils/byte-utils.ts),   *)
(* Borsh values and the seeds of derived addresses                         *)
(* (bridge/solana/utils.ts), and the payloads the guardians sign           *)
(* (bridge/solana/transactions).                                           *)
(*                                                                         *)
(* A byte is a number below Base, two hexadecimal digits below Digit.      *)
(* The name in a seed is a sequence of pieces, so that one name may begin  *)
(* with another; a public key or a hash is a few pieces.                 *)
(***************************************************************************)
EXTENDS Integers, Sequences, SequencesExt

CONSTANTS
  Digit,    \* 16
  Bad,      \* a character that is no hexadecimal digit
  None,     \* refused, or an optional value that is not given
  Cases     \* what is encoded; two things of a kind that must stay apart

Base == Digit * Digit

EncodingConstants == Digit \in Nat \ {0, 1} /\ None \notin Int

VARIABLES
  case, \* what is encoded
  pc,   \* "given", "sent", "back" or "refused"
  sent, \* its bytes
  back  \* what is read from them, or the bytes of the second thing

vars == <<case, pc, sent, back>>

-----------------------------------------------------------------------------
(* byte-utils *)

Size == [u16 |-> 2, u32 |-> 4, u64 |-> 8]

Power[n \in Nat] == IF n = 0 THEN 1 ELSE Base * Power[n - 1]

\* setUint16, setUint32 and setBigUint64 keep the value modulo their width.
EncodeLE(value, width) ==
  [i \in 1..Size[width] |-> ((value % Power[Size[width]]) \div Power[i - 1]) % Base]

EncodeBE(value, width) == Reverse(EncodeLE(value, width))

ValueLE(bytes) == FoldRight(LAMBDA byte, high : byte + Base * high, bytes, 0)

DecodeLE(bytes, width) == IF Len(bytes) = Size[width] THEN ValueLE(bytes) ELSE None

DecodeBE(bytes, width) == DecodeLE(Reverse(bytes), width)

\* parseInt reads the digits before the first that is none; an odd digit at the end is dropped.
HexToBytes(digits) ==
  [i \in 1..Len(digits) \div 2 |->
     LET high == digits[2 * i - 1]  low == digits[2 * i] IN
     CASE high = Bad -> 0 [] low = Bad -> high [] OTHER -> Digit * high + low]

BytesToHex(bytes) ==
  FlattenSeq([i \in DOMAIN bytes |-> <<bytes[i] \div Digit, bytes[i] % Digit>>])

FixedBytes(bytes, length, padStart) ==
  LET zeros == [i \in 1..(length - Len(bytes)) |-> 0]
      from == IF padStart THEN Len(bytes) - length ELSE 0
  IN CASE Len(bytes) = length -> bytes
       [] Len(bytes) > length -> SubSeq(bytes, from + 1, from + length)
       [] OTHER -> IF padStart THEN zeros \o bytes ELSE bytes \o zeros

BytesEqual(a, b) == Len(a) = Len(b) /\ \A i \in DOMAIN a : a[i] = b[i]

-----------------------------------------------------------------------------
(* Borsh, and the seeds of derived addresses *)

EncodeBorshString(text) == EncodeLE(Len(text), "u32") \o text

EncodeBorshOption(value) ==
  IF value = None THEN <<0>> ELSE <<1>> \o EncodeBorshString(value)

\* What a program reads after an instruction's name: values one after the other.
Borsh(values) ==
  FlattenSeq([i \in DOMAIN values |->
    IF values[i].optional THEN EncodeBorshOption(values[i].text)
    ELSE EncodeBorshString(values[i].text)])

\* deriveRouterSignerPDA ... deriveLockedTransferPDA, of the token bridge program.
Names ==
  [vault |-> <<"vault">>, rateLimitState |-> <<"rate_limit_state">>,
   routerSigner |-> <<"router_signer">>, routerSigner2022 |-> <<"router_signer", "_2022">>,
   extensionWhitelist |-> <<"extension_whitelist", "_2022">>,
   tokenRegistration |-> <<"token_registration">>, wrappedMint |-> <<"mint">>,
   mintAuthority |-> <<"mint", "_authority">>, lockedTransfer |-> <<"locked_transfer">>,
   releasedTransfer |-> <<"released_transfer">>]

\* The name, then a mint, a hash, or mint, sender and nonce, without a separator.
Seeds(pda) == Names[pda.name] \o FlattenSeq(pda.arguments)

-----------------------------------------------------------------------------
(* Payloads *)

Short(text) == <<Len(text) % Base>> \o text
Wide(text) == EncodeBE(Len(text), "u16") \o text

Price(t) == EncodeBE(t.price, "u64") \o EncodeBE(t.liquidity, "u64") \o <<t.tier>>

ReleasePayload(t) == EncodeBE(t.amount, "u64") \o <<t.recipient, t.mint>> \o Price(t)

ReleaseSolPayload(t) == EncodeBE(t.amount, "u64") \o <<t.recipient>> \o EncodeBE(t.usd, "u64")

MintPayload(t) ==
  EncodeBE(t.amount, "u64") \o <<t.recipient>> \o Wide(t.contract) \o <<t.decimals>>
    \o Short(t.name) \o Short(t.symbol) \o Wide(t.uri) \o Price(t)

MintExistingPayload(t) ==
  EncodeBE(t.amount, "u64") \o <<t.recipient>> \o Wide(t.contract) \o Price(t)

RegisterPayload(t) == <<t.mint>> \o Price(t)

\* post_verified_transfer: the action, the payload with its length before and after it.
CoreData(t) ==
  LET payload == CASE t.action = 0 -> ReleaseSolPayload(t)
                   [] t.action \in {1, 5} -> ReleasePayload(t)
                   [] t.action = 2 -> MintPayload(t)
                   [] t.action = 3 -> MintExistingPayload(t)
                   [] t.action = 4 -> RegisterPayload(t)
  IN <<t.action>> \o EncodeLE(Len(payload), "u32") \o payload
       \o EncodeLE(Len(payload), "u16")

-----------------------------------------------------------------------------
Init ==
  /\ case \in Cases
  /\ pc = "given" /\ sent = None /\ back = None

Two == {"seeds", "borsh", "payload"}

Encoded(x) ==
  CASE case.kind = "seeds" -> Seeds(x)
    [] case.kind = "borsh" -> Borsh(x)
    [] OTHER -> CoreData(x)

Send ==
  /\ pc = "given" /\ pc' = "sent"
  /\ sent' = CASE case.kind = "integer" ->
                    IF case.little THEN EncodeLE(case.value, case.width)
                    ELSE EncodeBE(case.value, case.width)
               [] case.kind = "bytes" -> case.bytes
               [] case.kind = "hex" -> HexToBytes(case.digits)
               [] case.kind = "fixed" -> FixedBytes(case.bytes, case.length, case.padStart)
               [] OTHER -> Encoded(case.a)
  /\ UNCHANGED <<case, back>>

Receive ==
  /\ pc = "sent"
  /\ back' = CASE case.kind \in {"integer", "bytes"} ->
                    IF case.little THEN DecodeLE(sent, case.width)
                    ELSE DecodeBE(sent, case.width)
               [] case.kind = "hex" -> BytesToHex(sent)
               [] case.kind = "fixed" -> FixedBytes(sent, Len(case.bytes), case.padStart)
               [] OTHER -> Encoded(case.b)
  /\ pc' = IF back' = None THEN "refused" ELSE "back"
  /\ UNCHANGED <<case, sent>>

Next == Send \/ Receive

Spec == Init /\ [][Next]_vars

-----------------------------------------------------------------------------
(* Properties *)

\* An integer that fits its width is read as it was written, and bytes of any other length are
\* refused (encodeU64LE ... decodeU32LE).
IntegersReturn ==
  /\ pc = "back" /\ case.kind = "integer" /\ case.value \in 0..Power[Size[case.width]] - 1
     => back = case.value
  /\ pc \in {"back", "refused"} /\ case.kind = "bytes"
     => (pc = "refused" <=> Len(case.bytes) # Size[case.width])

\* A hexadecimal text of whole bytes returns (hexToBytes, bytesToHex).
HexReturns ==
  pc = "back" /\ case.kind = "hex" /\ Len(case.digits) % 2 = 0 /\ Bad \notin ToSet(case.digits)
    => back = case.digits

\* Padding to a length that is enough, and cutting again, changes nothing (fixedBytes).
PaddingReturns ==
  pc = "back" /\ case.kind = "fixed" /\ case.length >= Len(case.bytes)
    => BytesEqual(back, case.bytes)

\* A text whose length does not fit the byte before it is no name the programs know.
Measured(t) == t.action = 2 => Len(t.name) < Base /\ Len(t.symbol) < Base

\* A program knows how many values it reads, and which are optional.
Comparable ==
  CASE case.kind = "payload" -> Measured(case.a) /\ Measured(case.b)
    [] case.kind = "borsh" -> /\ Len(case.a) = Len(case.b)
                              /\ \A i \in DOMAIN case.a : case.a[i].optional = case.b[i].optional
    [] OTHER -> TRUE

\* Two transfers are never signed, marked as released or read as one: their bytes differ
\* (the seeds of derived addresses, encodeBorshString, and the payloads of the builders).
Apart ==
  pc = "back" /\ case.kind \in Two /\ Comparable =>
    (BytesEqual(sent, back) <=> case.a = case.b)

\* Bytes mean what was encoded, and only that.
EncodingsSound == IntegersReturn /\ HexReturns /\ PaddingReturns /\ Apart
=============================================================================
