SPECIFICATION FairSpec
CONSTANTS
  Bars = 5
  Limit = 2
  None = None
  Budget = 3
INVARIANTS
  NoGapBehind
PROPERTIES
  KeepsPromise
  ClosedIsStored
