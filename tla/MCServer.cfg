CONSTANTS
  i1 = i1
  i2 = i2
  Id = {i1, i2}
  Content <- Kinds
  None = None

SPECIFICATION FairSpec
INVARIANT ServerIInv
INVARIANT DeathsLoseNoStoredWork
INVARIANT OnlyAdmittedRequestsStore
PROPERTY EveryRequestConcluded
CHECK_DEADLOCK FALSE
