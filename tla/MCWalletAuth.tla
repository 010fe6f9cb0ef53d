---------------------------- MODULE MCWalletAuth ----------------------------
(* Instances of WalletAuth for TLC: requests are interchangeable, and so are *)
(* wallets and nonces.  Symmetry is used by the safety runs only.            *)
EXTENDS WalletAuth, TLC

Symmetry ==
  Permutations(Wallets) \cup Permutations(Nonces) \cup Permutations(VerifyReqs)
=============================================================================
