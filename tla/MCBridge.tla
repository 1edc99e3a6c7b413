------------------------------ MODULE MCBridge ------------------------------
(* Instances of Bridge for TLC. *)
EXTENDS Bridge, TLC

CONSTANTS s1, s2, k1, k2

\* Up to two entries, with repeated and unpaired ones.
MCPayload ==
  {[expected |-> e, signatures |-> s, publicKeys |-> k] :
     e \in BOOLEAN, s \in {<<>>, <<s1>>, <<s1, s2>>, <<s1, s1, s2>>},
     k \in {<<k1>>, <<k1, k2>>, <<k1, k2, k2>>}}

Fields == [amount |-> 5, to |-> "recipient", price |-> 7, liquidity |-> 9, tier |-> 1,
           mint |-> "mint", contract |-> "contract", decimals |-> 2, name |-> "name"]

Body(names) == [f \in names |-> Fields[f]]
PriceFields == {"amount", "to", "price", "liquidity", "tier"}

\* A transfer, with the action and the body the guardians attest.
Of(toSolana, kind, program, mint, wrapped, action, names, stamped) ==
  [toSolana |-> toSolana, kind |-> kind, program |-> program, wrapped |-> wrapped,
   action |-> action, signed |-> Body(names), stamped |-> stamped]
  @@ [Fields EXCEPT !.mint = mint]

MCTransfer ==
  {Of(TRUE, "release", "system", "native", FALSE, "RELEASE_SOL", {"amount", "to", "price"}, TRUE),
   Of(TRUE, "release", "spl", "mint", FALSE, "RELEASE_SPL", PriceFields \union {"mint"}, TRUE),
   Of(TRUE, "release", "spl", "mint", FALSE, "RELEASE_SPL", PriceFields \union {"mint"}, FALSE),
   Of(TRUE, "release", "token2022", "mint", FALSE, "RELEASE_2022", PriceFields \union {"mint"}, TRUE),
   Of(TRUE, "release", "other", "mint", FALSE, "RELEASE_SPL", PriceFields \union {"mint"}, TRUE),
   Of(TRUE, "mint", "spl", "mint", TRUE, "MINT_WRAPPED_EXISTING", PriceFields \union {"contract"}, TRUE),
   Of(TRUE, "contract", "spl", "mint", TRUE, "MINT_WRAPPED",
      PriceFields \union {"contract", "decimals", "name"}, TRUE),
   Of(TRUE, "register", "token2022", "mint", FALSE, "REGISTER_TOKEN",
      {"mint", "price", "liquidity", "tier"}, TRUE),
   Of(TRUE, "register", "other", "mint", FALSE, "REGISTER_TOKEN",
      {"mint", "price", "liquidity", "tier"}, TRUE),
   Of(TRUE, "other", "spl", "mint", FALSE, "RELEASE_SPL", {"mint"}, TRUE)}
  \union
  {Of(FALSE, k, p, "mint", k = "release", "CALL", {"amount"}, TRUE) :
     k \in {"release", "mint", "contract"}, p \in {"spl", "token2022", "system"}}
=============================================================================
