CONSTANTS
  a1 = a1
  c1 = c1
  r1 = r1
  r2 = r2
  f1 = f1
  f2 = f2
  None = None
  Addresses = {a1}
  Cookies = {c1}
  Requests = {r1, r2}
  Families = {f1, f2}
  STUB = FALSE
  ALERT_COOLDOWN = 2
  RECON_HORIZON = 1
  RECON_FAMILY_THRESHOLD = 2
  MIN_WINDOW = 2
  MAX_WINDOW = 2
  MaxTime = 2
  MaxBatch = 2
  MaxEvents = 2
  MaxCanaries = 1
  MaxResets = 1
SPECIFICATION FairSpec
CHECK_DEADLOCK FALSE
INVARIANT EachEventStopsOnce
INVARIANT OneSignalPerCooldown
INVARIANT CooldownHasSignal
PROPERTY EverySignalLeaves
