CONSTANTS
  m1 = m1
  m2 = m2
  m3 = m3
  i1 = i1
  i2 = i2
  i3 = i3
  None = None
  Morph = {m1, m2, m3}
  Ids = {i1, i2, i3}
  Addresses = {i1}
  Policies = {}
  AddressOf <- OneAddress
  PolicyOf <- CookieOnly
  LB_ID = FALSE
  MAX_ACTIVE = 1
  MAX_THOUGHT_STEPS = 1
  MAX_CONSECUTIVE_TOOL_FAILURES = 1
  MaxLate = 0
  MaxResets = 0
  MaxPolicies = 0
  MaxMinted = 0
SPECIFICATION Spec
SYMMETRY MorphSymmetry
CHECK_DEADLOCK FALSE
PROPERTY StartedStaysTracked
