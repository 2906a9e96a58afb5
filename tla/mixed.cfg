SPECIFICATION Spec
CONSTANTS
  None = None  g1 = g1  g2 = g2
  Goals = {g1, g2}
  Cancelable = {}
  Abandonable = {}
  Serial = TRUE
  MayFail = FALSE
  PoolSize = 1
  Deferred = {}
  MaxLost = 0
  MaxFaults = 0
  Expiring = {}
  MayDestroyClient = FALSE
  MayDestroyServer = FALSE
CHECK_DEADLOCK FALSE
INVARIANTS
  OwnResult
