----------------------------- MODULE MCMemPool -----------------------------
(***************************************************************************)
(* r has a beanbase with three outputs, m makes it mature.  Above m there  *)
(* are two branches: a1 has A, a2 has C and D; b1 has D as well.  A and B  *)
(* spend the same output, C and F depend on A and D, X spends an output    *)
(* that D does not have.  b2, with a beanstake, takes the lead from a1, a2 *)
(* takes it back; c2 spends an output twice and has most trust.            *)
(***************************************************************************)
EXTENDS MemPool

MCBlock == {"g", "r", "m", "a1", "a2", "b1", "b2", "c2"}
MCParent == [g |-> "none", r |-> "g", m |-> "r", a1 |-> "m", a2 |-> "a1",
             b1 |-> "m", b2 |-> "b1", c2 |-> "b1"]
MCHeight == [g |-> 0, r |-> 1, m |-> 2, a1 |-> 3, a2 |-> 4, b1 |-> 3, b2 |-> 4, c2 |-> 4]
MCTrust  == [g |-> 1, r |-> 2, m |-> 3, a1 |-> 4, a2 |-> 6, b1 |-> 4, b2 |-> 5, c2 |-> 7]

MCAncestors[b \in MCBlock] == IF b = "g" THEN {b} ELSE {b} \cup MCAncestors[MCParent[b]]
MCChain == [b \in MCBlock |-> MCAncestors[b]]

MCBase == {"bg", "br", "bm", "ba1", "ba2", "bb1", "bb2", "bc2"}
MCTx == MCBase \cup {"A", "B", "C", "D", "F", "S", "X"}

MCvtx == [g  |-> <<"bg">>, r |-> <<"br">>, m |-> <<"bm">>,
          a1 |-> <<"ba1", "A">>, a2 |-> <<"ba2", "C", "D">>,
          b1 |-> <<"bb1", "D">>, b2 |-> <<"bb2", "S">>, c2 |-> <<"bc2", "B", "A">>]

MCvin == [t \in MCTx |-> CASE t = "A" -> {<<"br", 0>>}
                           [] t = "B" -> {<<"br", 0>>}
                           [] t = "C" -> {<<"A", 0>>}
                           [] t = "D" -> {<<"br", 1>>}
                           [] t = "F" -> {<<"C", 0>>, <<"D", 0>>}
                           [] t = "S" -> {<<"br", 2>>}
                           [] t = "X" -> {<<"D", 1>>}
                           [] OTHER -> {}]
MCvout == [t \in MCTx |-> IF t = "br" THEN 3 ELSE 1]
=============================================================================
