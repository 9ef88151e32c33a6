SPECIFICATION Spec
CONSTANTS
  u1 = u1
  u2 = u2
  p1 = p1
  p2 = p2
  c1 = c1
  c2 = c2
  w1 = w1
  w2 = w2
  a1 = a1
  a2 = a2
  Flush = Flush
  Users = {u1, u2}
  Peers = {p1, p2}
  Conts = {c1, c2}
  Wakes = {w1, w2}
  Aborts = {a1, a2}
  MaxFlushes = 1
SYMMETRY Symmetric
INVARIANTS TypeOK MessagesKept NothingStranded
PROPERTIES HeldAtStart
CHECK_DEADLOCK FALSE
