SPECIFICATION FairSpec
CONSTANTS
  N = 2
  Last = 2
  Step = 2
  Limit = 2
  Budget = 3
INVARIANTS
  SeenIsHandled
  HistoryIsCovered
PROPERTY
  StopEnds
