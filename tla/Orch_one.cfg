CONSTANTS
  m1 = m1
  i1 = i1
  None = None
  Morph = {m1}
  Ids = {i1}
  Addresses = {i1}
  Policies = {i1}
  AddressOf <- Own
  PolicyOf <- Own
  LB_ID = TRUE
  MAX_ACTIVE = 1
  MAX_THOUGHT_STEPS = 15
  MAX_CONSECUTIVE_TOOL_FAILURES = 3
  MaxLate = 1
  MaxResets = 1
  MaxPolicies = 1
  MaxMinted = 2
SPECIFICATION FairSpec
CHECK_DEADLOCK FALSE
INVARIANT ThoughtBudget
INVARIANT PoliciesAccountedFor
INVARIANT EndsEvictable
PROPERTY ImplementsLifecycle
PROPERTY EveryMorphEnds
