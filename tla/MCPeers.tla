------------------------------- MODULE MCPeers -------------------------------
(* peers: two connections to one address, one of them the peer's own, while *)
(* an opener looks for it, with one outbound slot and no messages.          *)
(* messages: one connection over which three messages come in.              *)
EXTENDS Peers

MCNode    == {"n1", "n2"}
MCOneNode == {"n1"}
MCAddr    == {"a"}
MCOpener  == {"o1"}
=============================================================================
