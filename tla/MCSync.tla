------------------------------- MODULE MCSync -------------------------------
(* sync: a peer that serves and one that only announces, a chain of five    *)
(* blocks of which the fifth is found on the way, and two blocks to a       *)
(* getblocks; proof-of-work blocks go on.                                   *)
(* sync_batches: one peer that has the whole chain, whose proof-of-work     *)
(* blocks end early (LAST_POW_BLOCK).                                       *)
EXTENDS Sync

MCPeer    == {"p", "q"}
MCOnePeer == {"p"}
MCSilent  == {"q"}
MCPoW     == {0, 1, 2, 4}
MCEarly   == {0, 1}
=============================================================================
