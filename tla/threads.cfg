SPECIFICATION PartsFairly
CONSTANTS
  Executors = {x1, x2}
  Users = {u1}
  Ops = {"start", "cancel", "reset"}
  MaxOps = 4
  Kinds <- AllKinds
  Droppable = TRUE
  NoOne = NoOne
  Setters = {s1, s2}
  Cancellers = {k1}
  Callbacks = {c1, c2}
  Removable = {c1}
  Awaiters = {a1}
  GuardExecutors = {y1, y2}
  GuardDroppable = TRUE
  Triggers = {t1, t2, t3, t4}
  Destroyable = TRUE
  Producers = {p1, p2}
  Closers = {h1, h2}
  MaxItems = 4
  Runners = {r1, r2}
  Stoppers = {z1, z2}
  MaxLoops = 3
  Jumpers = {j1, j2}
  Sleepers = {q1}
  Handles = {i1}
  Times = {0, 1}
  NoTime = NoTime
  g1 = g1  g2 = g2
  Waits = {b1, b2}
  Unlimited = {b1}
  MaxLooks = 2
  v1 = v1  v2 = v2  v3 = v3  v4 = v4  m1 = m1  m2 = m2
  Clients = {m1, m2}
  Calls = {v1, v2, v3, v4}
  ClientOf <- CallsOf
  Blocking = {v1}
  Abandonable = {v2, v4}
  DestroyableClients = {m1, m2}
  Lossy = TRUE
  MayFail = TRUE
  MayDestroyService = TRUE
  None = None
CHECK_DEADLOCK FALSE
INVARIANTS
  OneOutstanding
  CalledAtMostOnce
  OneUnderway
  JumpsTold
  PendingIsHeld
PROPERTIES
  OneshotFiresOnce
  KeepsFiring
  NobodyWaitsForEver
  EveryCallEnds
