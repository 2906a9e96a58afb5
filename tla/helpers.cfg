SPECIFICATION HelpersSpec
CONSTANTS
  Writers = {w1}
  Borrowers = {b1}
  Exporters = {s1}
  Destroyers = {d1, d2}
  Keepalive = 1
  AutoLoan = TRUE
  Exporting = {h1}
  Limit = 1
  Readers = {q1}
  MaxBlocks = 2
  Nothing = Nothing
  v1 = v1
  Vars = {v1}
  NodeName = v1
  Strings = {"true", "false", "", "x"}
  Absent = Absent
  Error = Error
  MaxFiles = 2
  f1 = f1  f2 = f2  f3 = f3
  w1 = w1  w2 = w2
  Frames = {f1, f2, f3}
  Links <- SceneLinks
  Readings <- SceneReadings
  Wanted <- SceneWanted
  Earlier <- SceneEarlier
  Waiters = {w1, w2}
  Setters = {s1, s2}
  MaxSets = 2
  p1 = p1  p2 = p2  p3 = p3  t1 = t1
  Processes <- LaunchProcesses
  Timers <- LaunchTimers
  Descriptions <- LaunchPlans
  After <- LaunchAfter
  Stubborn = {p1}
  Endless = {p1, p3}
  ShutDown = ShutDown
  Names = {n1}
  Values = {v1, v2}
  Unset = Unset
  NsName = NsName
  MaxActions = 4
  MaxDepth = 3
CHECK_DEADLOCK FALSE
INVARIANTS
  NoUseAfterDelete
  LookupRight
  NothingLeftRunning
  BlocksKept
  StartedAsAsked
PROPERTIES
  WaitsEnd
  ScopeEnds
