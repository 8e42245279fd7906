CONSTANTS
  s1 = s1
  Sessions = {s1}
  MaxSockets = 3
  MaxEvents = 2
  MaxResets = 1
SPECIFICATION Spec
CHECK_DEADLOCK FALSE
INVARIANT TypeOK
INVARIANT QuietMeansFresh
PROPERTY LostSocketsLeave
