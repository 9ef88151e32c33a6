SPECIFICATION Spec
CHECK_DEADLOCK FALSE
CONSTANTS
  a1 = a1
  a2 = a2
  b1 = b1
  pa = pa
  pb = pb
  None = None
  Clients = {a1, a2, b1}
  Pids = {pa, pb}
  PidOf <- MCPidOf
  Retries = 2
  MaxCrashes = 1
  Keys = {x, y}
  MaxSets = 2
  Unreadable = TRUE
INVARIANTS MutualExclusion
PROPERTIES Preserved 
