CONSTANTS
  admin = admin
  bob = bob
  Usernames = {admin,bob}
  Admin = admin
  Bob = bob
  Files <- MCFiles
  ip1 = ip1
  ip2 = ip2
  Addresses = {ip1,ip2}
  LIMIT = 2
  WINDOW_S = 2
  MAX_KEYS = 1
  TOKEN_TTL_S = 1
  MaxTime = 3
  MaxLogins = 4
  MaxTokens = 2
  MaxEdits = 2
  MaxCalls = 5
  MaxFaults = 1
  MaxRestarts = 1
SPECIFICATION Spec
SYMMETRY AddressSymmetry
CHECK_DEADLOCK FALSE
INVARIANT TypeOK
INVARIANT RolesExpire
INVARIANT LoginBound
PROPERTY AdminRemains
PROPERTY OnlyLiveOverflow
