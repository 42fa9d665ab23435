-------------------------- MODULE MC_WalletAuth --------------------------
(* WalletAuth on small instances.                                          *)
EXTENDS WalletAuth, TLC

CONSTANTS w1, w2, m1, m2, n1, n2

MCWalletName == (w1 :> m1) @@ (w2 :> m2)

\* A bound: only one nonce expires; they are interchangeable.
OneExpires == \A n \in Nonces \ {n1} : ~nonces[n].expired
=============================================================================
