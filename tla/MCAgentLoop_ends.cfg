SPECIFICATION Spec
CHECK_DEADLOCK FALSE
CONSTANTS
  Msgs = {m1}
  AsideMsgs = {}
  Tools = {resolve}
  RequiredTool = resolve
  SoftIds = {p1}
  HardChoices = {h1}
  SteeringMode = "one-at-a-time"
  FollowUpMode = "all"
  Deadline = TRUE
  Leaks = TRUE
  HostClears = FALSE
  MaxSoftEscalations = 1
  MaxPausedTurns = 1
  MaxHarmony = 1
  MaxCalls = 2
  None = None
INVARIANTS
  HardChoiceOneTurn
PROPERTIES
  RunsEnd
