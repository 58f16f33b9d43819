--------------------------- MODULE MCWalletKeys ---------------------------
(* A pool of one key, topped up to two.  The passphrases are alike.        *)
EXTENDS WalletKeys, TLC

PassSymmetry == Permutations(Pass)
============================================================================
