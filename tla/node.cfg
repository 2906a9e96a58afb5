SPECIFICATION NodeSpec
CONSTANTS
  w1 = w1
  e1 = e1  e2 = e2  e3 = e3
  gx = gx
  c1 = c1  c2 = c2
  v0 = v0  v1 = v1
  None = None
  Workers = {w1}
  Entities = {e1, e2}
  Groups = {gx}
  GroupOf <- OneGroup
  Exclusive = {gx}
  Early = {e1}
  MaxCalls = 3
  MaxSize = 2
  DropNewest = FALSE
  Removable = {}
  MayDestroyNode = TRUE
  MayShutdown = TRUE
  Owned = {e1, e2, e3}
  Kind <- EntityKind
  Shutters = {h1}
  MaxInits = 2
  CreateCalls = {c1, c2}
  Asked <- PairsMade
  NoHandle = NoHandle
  MayFail = TRUE
  MaxCallbacks = 1
  ParameterNames = {"a", "b"}
  ParameterValues <- SomeValues
  Descriptors <- SomeDescriptors
  Bulks <- InBulk
  Absent = Absent
  Anything = Anything
  Malformed = Malformed
  Threads = {t1, t2}
  Keys = {k1, k2}
  Nobody = Nobody
  Period = 2
  StateMax = 1
  MaxTime = 3
  MaxLogCalls = 4
  Fields = {"a", "b"}
  FieldKinds <- SomeKinds
  TfFields = {"a"}
  FieldValues = {v0, v1}
  Refused = {bad}
  Default = v0
  Nothing = Nothing
  PerSecond = 2
  MaxSecond = 3
  Durations = {0, 1, 5, 6, 9}
  NoDuration = NoDuration
  TypeTraits <- SomeTypes
  Hosts <- SomeHosts
  Paths <- SomePaths
  Namespaces <- SomeNamespaces
  NodePart <- A
  MaxEntities = 2
  Dir <- SomeModules
  Actions <- SomeActions
  CancelGoal = "cancel"
  Nodes = {n1, n2}
  MaxParticipants = 2
  MaxOpened = 2
CHECK_DEADLOCK FALSE
INVARIANTS
  NoStrandedCallback
  EntitiesEnd
  EarlyCallbacksKept
  OnlyFailedLeak
  AsDescribed
  RepeatsExplained
  SentAsWritten
  AppliedAsMeant
  NamesAgree
  TypesKnown
