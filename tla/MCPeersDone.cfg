SPECIFICATION Spec
CONSTANTS
  Node <- MCNode
  Addr <- MCAddr
  Opener <- MCOpener
  MaxOutbound = 1
  MaxMsg = 0
  SendBuffer = 0
  None = None
INVARIANTS
  WaitsUntilDone
