CONSTANTS
  v1 = v1
  r1 = r1
  r2 = r2
  None = None
  Visitors = {v1}
  Requests = {r1, r2}
  SUSPICION_THRESHOLD = 200
  FLAG_TTL = 2
  Probe = 100
  Miss = 34
  Injection = 150
  MaxTime = 3
  MaxRequests = 4
  MaxResets = 1
SPECIFICATION Spec
CHECK_DEADLOCK FALSE
INVARIANT FlagStands
INVARIANT FlagHasCause
