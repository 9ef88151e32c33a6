SPECIFICATION Spec
CHECK_DEADLOCK FALSE
CONSTANTS
  Calls = {1, 2, 3, 4}
  Exclusive = {2, 4}
  Immediate = TRUE
  Interruptible = TRUE
  PollFails = TRUE
  None = None
INVARIANTS
  ExclusiveAlone
  EffectsReported
PROPERTIES
  BatchReturns
  BatchSpec
