------------------------------ MODULE MCTxDB ------------------------------
(* A small instance of TxDB: two handles, the version record and two more  *)
(* keys, two values of which one is also an old version number.            *)
EXTENDS TxDB

CONSTANTS v1, v2

MCKey == {"version", "tx", "hashBestChain"}
MCValue == {v1, v2}
=============================================================================
