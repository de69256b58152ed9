CONSTANTS
  Worker = {w1, w2}
  Master = {m1}
  Check = {c1, c2, c3, c4}
  Bad = {c1}
  nBatchSize = 2
  NoOne = NoOne
SPECIFICATION FairSpec
INVARIANTS
  TypeOK
  VerdictExact
  ControlLeavesClean
  CountersExact
PROPERTIES
  CallsReturn
