CONSTANTS
  Block <- ReorgBlock
  Base = "base"
  Parent <- ReorgParent
  Txs <- ReorgTxs
  Refused = {"c1"}
  Outpoint <- MCOutpoint
  Nullifier = {"n1", "n2"}
  BaseOutputs = {"p", "s"}
  COINBASE_MATURITY = 1
  MaxCrashes = 2
  CrashPhases = {"running", "committing"}
  Spent = Spent
  NoBlock = NoBlock
  NoAnchor = NoAnchor
SPECIFICATION Spec
INVARIANTS
  TypeOK
  CoinsMatchChain
  NullifiersMatchChain
  AnchorsMatchChain
  AnchorAssertionsHold
  NoDoubleSpend
  DisconnectsClean
CHECK_DEADLOCK FALSE
