CONSTANTS
  Outpoint = {o1, o2}
  Coin = {c1, c2}
  Nullifier = {nf1}
  Spent = Spent
  NoEntry = NoEntry
SPECIFICATION Spec
INVARIANTS
  TypeOK
  SanityCheck
  FlagsCoherent
  NoLogicError
PROPERTY ImplementsLedger
