SPECIFICATION Spec
CHECK_DEADLOCK FALSE
CONSTANTS
  Callers = {c1, c2, c3, c4}
  Abortable = {c1, c2}
  Limits = {0, 1, 2, 3}
INVARIANTS
  SlotsAccounted
  NoIdleSlot
PROPERTIES
  CapRespected
  Served
