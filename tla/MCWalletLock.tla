---------------------------- MODULE MCWalletLock ----------------------------
(* Three timers with timeouts of none, one and two units: two of them may  *)
(* be asleep when a third one comes.                                       *)
EXTENDS WalletLock

MCTimer == {"t1", "t2", "t3"}
=============================================================================
