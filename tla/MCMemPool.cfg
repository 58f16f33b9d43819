SPECIFICATION Spec
CONSTANTS
  Block <- MCBlock
  NoBlock = "none"
  Genesis = "g"
  Parent <- MCParent
  Chain <- MCChain
  Height <- MCHeight
  Trust <- MCTrust
  Tx <- MCTx
  Base <- MCBase
  Stake = {"S"}
  vin <- MCvin
  vout <- MCvout
  vtx <- MCvtx
  Sound <- MCTx
  BlockOk <- MCBlock
  Mine = {"D", "F"}
  Maturity = 1
  NoEntry = NoEntry
  Memory = "memory"
  Unknown = "unknown"
  Loose = "loose"
  Standard = {"A", "B", "C", "D", "F", "X"}
  Relayable = {"A", "B", "C", "D", "F", "X"}
  Big = {}
  MaxOrphans = 2
INVARIANTS
  InStep
  PoolLinked
  OrphansFiled
  TemplateConnects
  PoolConnectsAtFirst
PROPERTY LoopsEnd
