SPECIFICATION EnvironmentSpec
CONSTANTS
  NodeName = n1
  Vars = {n1, v1}
  Strings = {"true", "false", "", "x"}
  Absent = Absent
  Error = Error
  MaxFiles = 0
CHECK_DEADLOCK FALSE
INVARIANT EnvReplaces
