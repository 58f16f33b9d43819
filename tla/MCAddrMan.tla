----------------------------- MODULE MCAddrMan -----------------------------
(***************************************************************************)
(* Three hosts, one of them with two ports; two sources, two new buckets   *)
(* and two tried ones, which three addresses are enough to fill.           *)
(***************************************************************************)
EXTENDS AddrMan

MCService == {"a1", "a2", "b1", "c1"}
MCHostOf == [s \in MCService |-> CASE s \in {"a1", "a2"} -> "a" [] s = "b1" -> "b" [] s = "c1" -> "c"]
MCSource == {"x", "y"}
MCGetNewBucket == [p \in MCService \X MCSource |->
                      IF (p[1] = "c1") = (p[2] = "x") THEN 2 ELSE 1]
MCGetTriedBucket == [s \in MCService |-> IF s = "a2" THEN 2 ELSE 1]
=============================================================================
