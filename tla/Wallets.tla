------------------------------- MODULE Wallets -------------------------------
(***************************************************************************)
(* Wallets on both sides of the library: those it derives                  *)
(* (WalletDerivation), and what an application exchanges with one it is    *)
(* connected to (Exchange).  They share the format of identifiers and      *)
(* addresses but no state, and a behaviour is of one of them; the other    *)
(* stays idle.                                                             *)
(***************************************************************************)
EXTENDS WalletDerivation

CONSTANTS None, Junk, KeyLength, SignatureLength, Exports, Cases, MaxHeard

VARIABLES
  part,  \* "derivation" or "exchange"
  case, pc, sent, back, lists, heard

exchangeVars == <<case, pc, sent, back, lists, heard>>

any == <<part, vars, exchangeVars>>

Ex == INSTANCE Exchange

ASSUME ExchangeAssumption == Ex!ExchangeConstants

-----------------------------------------------------------------------------
IdleDerivation ==
  hashTypes = <<>> /\ seed = "none" /\ queue = <<>> /\ wallets = <<>> /\ calls = 0

IdleExchange ==
  case = None /\ pc = "given" /\ sent = None /\ back = None /\ lists = None /\ heard = <<>>

InitAny ==
  \/ part = "derivation" /\ Init /\ IdleExchange
  \/ part = "exchange" /\ IdleDerivation /\ Ex!Init

NextAny ==
  /\ UNCHANGED part
  /\ \/ part = "derivation" /\ Next /\ UNCHANGED exchangeVars
     \/ part = "exchange" /\ Ex!Next /\ UNCHANGED vars

SpecAny == InitAny /\ [][NextAny]_any

-----------------------------------------------------------------------------
(* Property of the exchange *)

\* What an application and a wallet exchange means the same on both sides: identifiers, addresses,
\* signatures, envelopes and events (adapter/, shared/crypto/address-utils.ts).
ExchangeSound == part = "exchange" => Ex!ExchangeSound
=============================================================================
