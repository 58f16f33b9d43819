SPECIFICATION Spec
CONSTANTS
  Size = 1
  Pass = {a, b}
  MaxKey = 5
  MaxMaster = 2
  MaxRefusals = 1
  None = None
SYMMETRY PassSymmetry
INVARIANTS
  NothingLost
  StartOpens
  PoolSound
