CONSTANTS
  c1 = c1
  c2 = c2
  Clients = {c1,c2}
  MAX_CONCURRENT = 2
  _RETAIN_FINISHED_S = 1
  MaxLaunches = 4
  MaxClock = 2
SPECIFICATION LaunchSpec
CHECK_DEADLOCK FALSE
INVARIANT LiveBound
INVARIANT LiveIsStoppable
PROPERTY StopFrees
