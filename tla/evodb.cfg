CONSTANTS
  NoValue = NoValue
  Key <- MCKey
  Value <- MCValue
  KeySize <- MCKeySize
  ValueSize <- MCValueSize
  SnapshotKey = {1}
SPECIFICATION Spec
INVARIANTS
  TypeOK
  MemoryUsageExact
  IterationExact
  AbortsOnlyOnSnapshots
PROPERTIES
  ImplementsStore
