SPECIFICATION Spec
CHECK_DEADLOCK FALSE
CONSTANTS
  Msgs = {m1}
  AsideMsgs = {}
  Tools = {resolve, read}
  RequiredTool = resolve
  SoftIds = {p1}
  HardChoices = {}
  SteeringMode = "one-at-a-time"
  FollowUpMode = "all"
  Deadline = FALSE
  Leaks = FALSE
  HostClears = TRUE
  MaxSoftEscalations = 1
  MaxPausedTurns = 1
  MaxHarmony = 1
  MaxCalls = 3
  None = None
INVARIANTS
  DetourNeverRuns
