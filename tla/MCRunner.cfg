CONSTANTS
  p1 = p1
  p2 = p2
  r1 = r1
  r2 = r2
  Process = {p1, p2}
  Row = {r1, r2}
  Stop = Stop
  None = None
  MaxRuns = 2
  Call <- EveryKind

SPECIFICATION FairSpec
INVARIANT RunnerIInv
INVARIANT SessionsReturnClean
INVARIANT OutcomesTell
PROPERTY RunsAreAtomic
PROPERTY EveryRunEnds
PROPERTY RowsAreReleased
CHECK_DEADLOCK FALSE
