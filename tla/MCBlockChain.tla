--------------------------- MODULE MCBlockChain ---------------------------
(***************************************************************************)
(* Two branches above genesis g.  The a branch ends in the hardened        *)
(* checkpoint a3; the b branch is level with it after one block and ends   *)
(* with more trust than a3, so that the lead goes back and forth; c2 is a  *)
(* block on b1 that does not connect.  a1 and b2 carry the same            *)
(* proof-of-bean.  A later release rejects b2.                             *)
(***************************************************************************)
EXTENDS BlockChain

MCBlock == {"g", "a1", "a2", "a3", "b1", "b2", "c2"}

MCParent == [g |-> "none", a1 |-> "g", a2 |-> "a1", a3 |-> "a2",
             b1 |-> "g", b2 |-> "b1", c2 |-> "b1"]
MCHeight == [g |-> 0, a1 |-> 1, a2 |-> 2, a3 |-> 3, b1 |-> 1, b2 |-> 2, c2 |-> 2]
MCTrust  == [g |-> 1, a1 |-> 2, a2 |-> 4, a3 |-> 6, b1 |-> 2, b2 |-> 7, c2 |-> 8]
MCProof  == [b \in MCBlock |-> IF b \in {"a1", "b2"} THEN "p" ELSE "none"]

MCAncestors[b \in MCBlock] == IF b = "g" THEN {b} ELSE {b} \cup MCAncestors[MCParent[b]]
MCChain == [b \in MCBlock |-> MCAncestors[b]]
=============================================================================
