SPECIFICATION Spec
CONSTANTS
  Peer <- MCPeer
  Silent <- MCSilent
  N = 5
  Start = 4
  PoW <- MCPoW
  Limit = 2
  MaxAsked = 3
  MaxKnown = 4
  MaxWait = 3
  None = None
INVARIANTS
  RetriesSpaced
PROPERTIES
  Downloaded
