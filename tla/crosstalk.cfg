SPECIFICATION Spec
CONSTANTS
  c1 = c1  c2 = c2  c3 = c3
  k1 = k1  k2 = k2
  None = None
  Clients = {k1, k2}
  Calls = {c2, c3}
  ClientOf <- TwoClients
  Blocking = {}
  Abandonable = {}
  Lossy = FALSE
  MayFail = FALSE
  DestroyableClients = {}
  MayDestroyService = FALSE
CHECK_DEADLOCK FALSE
INVARIANTS
  OwnResponse
