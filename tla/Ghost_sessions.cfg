CONSTANTS
  a1 = a1
  a2 = a2
  p1 = p1
  p2 = p2
  mcp = mcp
  r1 = r1
  r2 = r2
  Attackers = {a1,a2}
  Platform = mcp
  Personas = {p1,p2}
  PORTAL_OVH = p1
  Requests = {r1,r2}
  TTL_SECONDS = 2
  MaxTime <- MCMaxTime
  MaxRequests = 2
  MaxOpens = 1
  MaxFaults = 1
SPECIFICATION Spec
SYMMETRY Symmetry
CHECK_DEADLOCK FALSE
INVARIANT ServedToOne
INVARIANT EndedStaysEnded
INVARIANT CountsAdvance
INVARIANT KeysEnd
PROPERTY NewOnlyIfNeeded
