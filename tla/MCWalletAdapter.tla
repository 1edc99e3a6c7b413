--------------------------- MODULE MCWalletAdapter ---------------------------
(* Instances of WalletAdapter for TLC. *)
EXTENDS WalletAdapter, TLC

CONSTANTS t1, t2, k1, k2

OneTab == {t1}
TwoTabs == {t1, t2}
NoTab == {}
OneKey == {k1}
TwoKeys == {k1, k2}

\* Tabs are interchangeable, and so are keys.
TabSymmetry == Permutations({t1, t2})
KeySymmetry == Permutations({k1, k2})
=============================================================================
