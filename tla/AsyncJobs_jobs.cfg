SPECIFICATION Spec
CHECK_DEADLOCK FALSE
CONSTANTS
  Runs = {b1, t1, s1}
  Named = {t1}
  Ours = {b1}
  Foreground = {s1}
  Polls = {p1}
  MaxRunning = 2
  MaxFailures = 0
  StopWhen = {"idle", "working"}
  None = None
INVARIANTS
  CompletionsKept
  DeliveriesDriven
  RunningListed
PROPERTIES
  NotRepeated
