SPECIFICATION ScoreSpec
CONSTANTS
  Clients = {c1, c2}
  Equities = {1, 2}
  Collector = svc
  Sessions = {svc, req}
  Start = 1
  RegistrationEnd = 1
  End = 2
  RektThreshold = 40
  Gone = Gone
  None = None
  LastTime = 3
  MaxEntries = 2
INVARIANTS
  JoinsOnce
CHECK_DEADLOCK FALSE
