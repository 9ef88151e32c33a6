SPECIFICATION Spec
CHECK_DEADLOCK FALSE
SYMMETRY MsgSymmetry
CONSTANTS
  Msgs = {m1, m2, m3}
  AsideMsgs = {a1}
  Tools = {resolve}
  RequiredTool = resolve
  SoftIds = {}
  HardChoices = {}
  SteeringMode = "one-at-a-time"
  FollowUpMode = "all"
  Deadline = FALSE
  Leaks = FALSE
  HostClears = FALSE
  MaxSoftEscalations = 1
  MaxPausedTurns = 0
  MaxHarmony = 1
  MaxCalls = 2
  None = None
INVARIANTS
  ToolResultsPaired
  NothingLost
  AtMostOnce
  RunEndsAnswered
PROPERTIES
  QueuesKeptOnAbort
