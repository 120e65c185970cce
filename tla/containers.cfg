CONSTANTS
  Ids = {c1, c2, c3}
  NoId = none
  MaxCalls = 5
SPECIFICATION Spec
INVARIANTS
  ContainersOwned
PROPERTY CallsEnd
