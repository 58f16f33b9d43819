SPECIFICATION Spec
CONSTANTS
  Peer <- MCOnePeer
  Silent = {}
  N = 5
  Start = 5
  PoW <- MCEarly
  Limit = 2
  MaxAsked = 4
  MaxKnown = 4
  MaxWait = 3
  None = None
PROPERTIES
  NextBatch
