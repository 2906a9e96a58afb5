SPECIFICATION FewFaults
CONSTANTS
  None = None  g1 = g1  g2 = g2
  Goals = {g1, g2}
  Cancelable = {g1}
  Abandonable <- OneGoalFuture
  Serial = TRUE
  MayFail = TRUE
  PoolSize = 1
  Deferred = {g2}
  MaxLost = 1
  MaxFaults = 1
  Expiring = {}
  MayDestroyClient = TRUE
  MayDestroyServer = TRUE
CHECK_DEADLOCK FALSE
INVARIANTS
  InStep
PROPERTIES
  FinalStatusStays
  EveryRequestEnds
