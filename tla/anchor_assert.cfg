CONSTANTS
  Block <- MCBlock
  Base = "base"
  Parent <- MCParent
  Txs <- MCTxs
  Refused = {"c1"}
  Outpoint <- MCOutpoint
  Nullifier = {"n1"}
  BaseOutputs = {"p", "s"}
  COINBASE_MATURITY = 1
  MaxCrashes = 0
  CrashPhases = {}
  Spent = Spent
  NoBlock = NoBlock
  NoAnchor = NoAnchor
SPECIFICATION Spec
INVARIANT AnchorAssertionsHold
CHECK_DEADLOCK FALSE
