CONSTANTS
  first = first
  again = again
  other = other
  shared = shared
  own = own
  Signals = {first,again,other}
  Ids = {shared,own}
  First = first
  Again = again
  Other = other
  Shared = shared
  Own = own
  IdOf <- MCIdOf
  MAX_ACTIVE = 1
  MaxFaults = 1
SPECIFICATION Spec
SYMMETRY MCSymmetry
CHECK_DEADLOCK FALSE
INVARIANT TypeOK
INVARIANT HeldIsListed
INVARIANT ShownAsIs
PROPERTY AcceptedOnce
