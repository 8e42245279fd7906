CONSTANTS
  m1 = m1
  m2 = m2
  i1 = i1
  i2 = i2
  None = None
  Morph = {m1, m2}
  Ids = {i1, i2}
  Addresses = {i1}
  Policies = {i1}
  AddressOf <- OneAddress
  PolicyOf <- CookieOnly
  LB_ID = TRUE
  MAX_ACTIVE = 2
  MAX_THOUGHT_STEPS = 15
  MAX_CONSECUTIVE_TOOL_FAILURES = 1
  MaxLate = 1
  MaxResets = 1
  MaxPolicies = 3
  MaxMinted = 1
SPECIFICATION Spec
SYMMETRY MorphSymmetry
CHECK_DEADLOCK FALSE
INVARIANT PoliciesAccountedFor
INVARIANT SessionsAccountedFor
INVARIANT LiveIsTracked
INVARIANT OneEngagementPerRequest
