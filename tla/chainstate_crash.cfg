CONSTANTS
  Block <- SmallBlock
  Base = "base"
  Parent <- SmallParent
  Txs <- SmallTxs
  Refused = {}
  Outpoint <- SmallOutpoint
  Nullifier = {"n1"}
  BaseOutputs = {"p"}
  COINBASE_MATURITY = 1
  MaxCrashes = 2
  CrashPhases = {"running", "flushing", "replaying", "committing"}
  Spent = Spent
  NoBlock = NoBlock
  NoAnchor = NoAnchor
SPECIFICATION FairSpec
INVARIANTS
  CoinsMatchChain
  CrashRecoverable
  FlushResumesTransition
  EvoFollowsCoins
  AbortsOnlyWhenTorn
PROPERTY FlushCompletes
CHECK_DEADLOCK FALSE
