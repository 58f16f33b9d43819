----------------------------- MODULE BlockTree -----------------------------
(***************************************************************************)
(* The blocks a node may hear of, as a tree.  What a block says about      *)
(* itself never changes: its predecessor, its height and the trust its     *)
(* chain adds up to.  These are constants; which of the blocks a node      *)
(* knows, has linked, connected or holds as an orphan is state.            *)
(***************************************************************************)
EXTENDS Integers

CONSTANTS Block,      \* block hashes
          NoBlock,    \* the null hash and the null CBlockIndex pointer
          Genesis,    \* Params().HashGenesisBlock()
          Parent,     \* [Block -> Block or NoBlock]: hashPrevBlock, pprev
          Chain,      \* [Block -> SUBSET Block]: a block and all before it
          Height,     \* [Block -> Nat]: nHeight
          Trust       \* [Block -> Nat]: nChainTrust, the sum of GetBlockTrust

ASSUME TreeAssumption ==
    /\ Genesis \in Block /\ NoBlock \notin Block
    /\ Parent \in [Block -> Block \cup {NoBlock}]
    /\ Chain \in [Block -> SUBSET Block]
    /\ Height \in [Block -> Nat] /\ Trust \in [Block -> Nat]
    /\ \A b \in Block : Parent[b] = NoBlock <=> b = Genesis

\* The pprev pointers lead from every block down to genesis in a line.
ASSUME ChainAssumption ==
    /\ Chain[Genesis] = {Genesis}
    /\ \A b \in Block \ {Genesis} : Chain[b] = Chain[Parent[b]] \cup {b}
    /\ \A b \in Block : b \in Chain[b] /\ Genesis \in Chain[b]
    /\ \A b \in Block : \A a \in Chain[b] : Chain[a] \subseteq Chain[b]
    /\ \A b \in Block : \A a, c \in Chain[b] : Height[c] <= Height[a] => c \in Chain[a]

\* A block sits one above its parent, and adds to the trust of its chain:
\* GetBlockTrust is positive for the targets that AcceptBlock lets through.
ASSUME TrustAssumption ==
    /\ \A b \in Block \ {Genesis} : Height[b] = Height[Parent[b]] + 1
    /\ \A b \in Block : \A a \in Chain[b] \ {b} : Height[a] < Height[b] /\ Trust[a] < Trust[b]

\* The member of S that follows b.
NextOn(S, b) == IF \E c \in S : Parent[c] = b THEN CHOOSE c \in S : Parent[c] = b
                                              ELSE NoBlock

\* The forward links of the chain that ends in t.
LinksTo(t) == [b \in Block |-> NextOn(Chain[t], b)]

NoLinks == [b \in Block |-> NoBlock]
=============================================================================
