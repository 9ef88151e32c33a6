SPECIFICATION FairSpec
CONSTANTS
  m1 = m1
  m2 = m2
  hub = hub
  peer = peer
  other = other
  Anyone = Anyone
  Callers = {m1, m2, hub}
  Msgs = {m1, m2}
  From <- MCFrom
  MailboxCap = 1
  MaxSessions = 3
  MaxFailures = 1
  MaxKills = 1
INVARIANTS TypeOK OneWriter ReceiptsTrue
PROPERTIES IdleParks Resolved
CHECK_DEADLOCK FALSE
