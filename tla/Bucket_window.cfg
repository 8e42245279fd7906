CONSTANTS
  RATE = 3
  UNIT = 3
  Resolution = 1
  WindowStart = 4
  MaxClock = 16
  MaxCalls = 9
SPECIFICATION BucketSpec
CHECK_DEADLOCK FALSE
INVARIANT WindowBound
