CONSTANTS
  Block <- MCBlock
  Genesis = "g"
  Parent <- MCParent
  Ancestry <- MCAncestry
  Height <- MCHeight
  Stored = {"g", "b1"}
  ClSig = {"a1", "a2"}
  Conflicted = {"a1"}
  Handler = {h1, h2}
  Scheduler = cl_schdlr
  MaxEvents = 2
  NoBlock = NoBlock
SPECIFICATION FairSpec
INVARIANTS
  TypeOK
  LockedChainUnmarked
PROPERTIES
  LocksStay
  LockEnforced
CHECK_DEADLOCK FALSE
