CONSTANTS
  p1 = p1
  p2 = p2
  k1 = k1
  k2 = k2
  Process = {p1, p2}
  Key <- Keys
  Instants <- TheInstants
  Back = 1000000
  MaxRows = 2
  Life = 1000000

SYMMETRY Handlers
SPECIFICATION Spec
INVARIANT TypeOK
INVARIANT TimesMoveAtMostOnce
INVARIANT ExpiryIsBarelyLate
INVARIANT StoredTimesAreRead
INVARIANT TextsMeanTheirCalls
PROPERTY RowsFollow
CHECK_DEADLOCK FALSE
