SPECIFICATION AnyFairly
CONSTANTS
  None = None
  Tasks = {t1, t2}
  Workers = {w1, w2}
  Patient = {}
  Stoppers = {spin, user}
  SpinThread = {spin}
  MayLoseContext = TRUE
  until = until
  other = other
  Shared = Shared
  MaxWork = 2
  NoEvent = NoEvent
  timer = timer
  group = group
  MaxCalls = 2
CHECK_DEADLOCK FALSE
INVARIANTS
  RunsOnce
PROPERTIES
  NothingLeftLying
  EveryCallServed
