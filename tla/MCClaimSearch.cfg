CONSTANTS
  i1 = i1
  i2 = i2
  Id = {i1, i2}
  Content <- Kinds
  None = None

SPECIFICATION Spec
INVARIANT SearchesAreServed
CHECK_DEADLOCK FALSE
