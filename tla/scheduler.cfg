CONSTANTS
  Thread = {t1, t2}
  Caller = {c1, c2}
  Main = Main
  Nobody = Nobody
  Delta = 1
  MaxPending = 2
  MaxTasks = 2
SPECIFICATION FairSpec
INVARIANTS
  TypeOK
  NoneForgotten
PROPERTIES
  ImplementsExecutor
  CallbacksRun
  StopReturns
CHECK_DEADLOCK FALSE
