SPECIFICATION FairSpec
CONSTANTS
  Bars = 6
  Limit = 2
  Budget = 2
INVARIANTS
  StoredIsFinal
  GapsAreExplained
PROPERTIES
  KeepsPromise
  StopEnds
