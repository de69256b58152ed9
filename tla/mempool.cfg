CONSTANTS
  Block <- MCBlock
  Base = "base"
  Parent <- MCParent
  Txs <- MCTxs
  Refused = {"c3"}
  Outpoint <- MCOutpoint
  Nullifier = {"n1", "n2"}
  BaseOutputs = {"p", "s"}
  COINBASE_MATURITY = 2
  Spent = Spent
  Tx <- MCTx
  Waiting <- MCWaiting
  MAX_DISCONNECTED_TX_POOL_SIZE = 3
  NoTx = NoTx
SPECIFICATION Spec
INVARIANTS
  TypeOK
  IndexesExact
  FitsChain
CHECK_DEADLOCK FALSE
