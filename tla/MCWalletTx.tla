----------------------------- MODULE MCWalletTx -----------------------------
(* wallettx: a pays to the wallet, which makes b of it, with change; c, of  *)
(* that change, is made by a copy of wallet.dat; s is a sprout of a.        *)
(* wallettx_commit: the wallet makes c and d, both of the change of b.      *)
EXTENDS WalletTx

MCTx     == {"a", "b", "c", "s"}
MCSpends == [t \in MCTx |-> IF t = "a" THEN {} ELSE IF t = "c" THEN {"b"} ELSE {"a"}]
MCMine   == MCTx
MCMade   == {"b"}
MCSprout == {"s"}

MCTxSent     == {"a", "b", "c", "d"}
MCSpendsSent == [t \in MCTxSent |-> IF t = "a" THEN {} ELSE IF t = "b" THEN {"a"} ELSE {"b"}]
MCMadeSent   == {"b", "c", "d"}
=============================================================================
