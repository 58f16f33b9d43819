SPECIFICATION Spec
CONSTANTS
  Tx <- MCTx
  Spends <- MCSpends
  Mine <- MCMine
  Made <- MCMade
  Sprout <- MCSprout
  First = "a"
  MaxHeight = 3
  MaxFork = 1
  None = None
INVARIANTS
  SpentIsMarked
  NothingMissing
  NotLost
