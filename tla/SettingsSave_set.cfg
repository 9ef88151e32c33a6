SPECIFICATION Spec
CHECK_DEADLOCK FALSE
CONSTANTS
  a1 = a1
  a2 = a2
  b1 = b1
  pa = pa
  pb = pb
  None = None
  Clients = {a1}
  Pids = {pa}
  PidOf <- MCPidOf
  Retries = 2
  MaxCrashes = 1
  Keys = {x, y}
  MaxSets = 3
  Unreadable = FALSE
PROPERTIES SetsKept
