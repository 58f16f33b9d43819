SPECIFICATION Spec
CONSTANTS
  Block <- MCBlock
  NoBlock = "none"
  Genesis = "g"
  Parent <- MCParent
  Chain <- MCChain
  Height <- MCHeight
  Trust <- MCTrust
  Proof <- MCProof
  NoProof = "none"
  ContextOk = {"a1", "a2", "a3", "b1", "b2", "c2"}
  Valid = {"b1", "b2"}
  Obsolete = {"b2"}
  Checkpoint = "a3"
  StorageFails = FALSE
INVARIANT HeldUntilParentComes
