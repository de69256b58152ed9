CONSTANTS
  Block <- MCBlock
  Height <- MCHeight
  Signer = {scheduler, callbacks}
  NoBlock = NoBlock
SPECIFICATION Spec
INVARIANTS
  OneVotePerHeight
CHECK_DEADLOCK FALSE
