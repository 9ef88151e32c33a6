SPECIFICATION Spec
CHECK_DEADLOCK FALSE
CONSTANTS
  Runs = {b1, s1}
  Named = {}
  Ours = {b1}
  Foreground = {s1}
  Polls = {p1}
  MaxRunning = 2
  MaxFailures = 1
  StopWhen = {}
  None = None
PROPERTIES
  EventuallyTold
  IdleFlushed
