CONSTANTS
  Block <- MCBlock
  Base = "base"
  Parent <- MCParent
  Txs <- MCTxs
  Refused = {"c1"}
  Outpoint <- MCOutpoint
  Nullifier = {"n1"}
  BaseOutputs = {"p", "s"}
  COINBASE_MATURITY = 1
  MaxCrashes = 1
  CrashPhases = {"running", "flushing", "replaying", "committing"}
  Spent = Spent
  NoBlock = NoBlock
  NoAnchor = NoAnchor
SPECIFICATION Spec
INVARIANT NullifiersMatchChain
CHECK_DEADLOCK FALSE
