SPECIFICATION FairSpec
CONSTANTS
  Bars = 3
  Limit = 2
  None = None
  Budget = 1
INVARIANT
  PublishedIsFinal
