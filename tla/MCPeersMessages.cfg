SPECIFICATION Spec
CONSTANTS
  Node <- MCOneNode
  Addr <- MCAddr
  Opener = {}
  MaxOutbound = 1
  MaxMsg = 3
  SendBuffer = 2
  None = None
PROPERTIES
  HandledInOrder
  Answered
