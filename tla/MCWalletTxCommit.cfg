SPECIFICATION Spec
CONSTANTS
  Tx <- MCTxSent
  Spends <- MCSpendsSent
  Mine <- MCTxSent
  Made <- MCMadeSent
  Sprout = {}
  First = "a"
  MaxHeight = 3
  MaxFork = 1
  None = None
INVARIANTS
  MustNotFail
