SPECIFICATION FairSpec
CONSTANTS
  e1 = e1
  e2 = e2
  e3 = e3
  None = None
  Events = {e1, e2, e3}
  Manual = {e2}
  Issue <- MCIssue
  MaxConcurrency = 1
  MaxRetries = 1
  Arrivals = 2
  Exits = 1
  Replays = 1
  Cancels = 1
  Budget <- MCBudget
INVARIANTS  TypeOK RunningHasOwner CancelObeyed NothingLeftOver
PROPERTIES ServesEvents Served
