----------------------------- MODULE MCWallets ------------------------------
(* Instances of Wallets for TLC. *)
EXTENDS Wallets, TLC

CONSTANTS n1, n2

-----------------------------------------------------------------------------
(* Derivation *)

\* The second account's key begins like a hash type; hash letters occur inside as well.
MCText ==
  [k \in Key |-> <<IF k.account = 1 THEN "a" ELSE "z", IF k.seed = "zero" THEN "c" ELSE "y", "b">>]

\* No list, one hash, two in each order, the same twice.
MCLists == {<<>>, <<"a">>, <<"c", "a">>, <<"a", "c">>, <<"b", "b">>}

\* The list of the README, and of the example of createWallet.
TwoHashes == {<<"a", "c">>}

-----------------------------------------------------------------------------
(* Keys of two bytes and of three, signatures of five and of six *)

IdPrefixes ==
  {r \o t \o h : r \in {<<>>, <<"r", "_">>}, t \in {<<"A", "_">>, <<"B", "_">>, <<"x", "_">>},
                 h \in {<<>>, <<"c", "_">>, <<"a", "_", "b", "_">>}}

Identifiers ==
  [kind : {"identifier"},
   id : [prefix : IdPrefixes \union {<<"s", "c", "_">>, <<"g", "o", "v", "_">>, <<>>},
         raw : UNION {[1..n -> {"A", "_", "x"}] : n \in 0..3}]]

Answers(form, escapes) ==
  [form : {form},
   text : [escape : escapes, base64 : {"good", "bad", "empty"}, length : {5, 6, 7}]]

Connections ==
  [kind : {"connection"},
   id : [prefix : IdPrefixes, text : {<<"x", "y">>, <<"a", "y">>, <<"a", "y", "b", "x">>},
         base58 : BOOLEAN, length : 1..3],
   address : {None, <<>>, <<"c">>, <<"a">>}, signer : {"wallet", "walletConnect"},
   answer : {[form |-> "none"]} \union Answers("signature", {"none", "good", "broken"})
              \union Answers("text", {"good"}) \union Answers("signedTransaction", {"none"})]

Types == [package : {"kal_txn", "google"}, name : {"CoinTXN", "Other"}]

Envelopes ==
  [kind : {"envelope"}, message : [type : Types, content : {<<>>, <<1>>}],
   schemaGiven : BOOLEAN, old : BOOLEAN, version : {1, 2}]

Acts == [does : {"nothing"}, whom : {n1}] \union [does : {"on", "off", "again"}, whom : {n1, n2}]

Events ==
  [kind : {"event"}, subscribed : UNION {[1..n -> {n1, n2}] : n \in 0..3},
   acts : [{n1, n2} -> Acts]]

MCKeyLength == [A |-> 2, B |-> 3]

MCSignatureLength == [A |-> 5, B |-> 6]

MCExports ==
  {[schema |-> TRUE, type |-> [package |-> "kal_txn", name |-> "CoinTXN"]],
   [schema |-> FALSE, type |-> [package |-> "kal_txn", name |-> "Other"]]}

MCCases == UNION {Identifiers, Connections, Envelopes, Events}

NoCases == {}
=============================================================================
