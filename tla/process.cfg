SPECIFICATION FairSpec
CONSTANTS
  Bars = 3
  Limit = 2
  Buckets = 3
  Waiting = 1
  Symbols = 2
  Configured = {{"futuresBook"}, {"funding"}}
  Budget = 2
INVARIANTS
  HolesAreExplained
  BooksInOrder
  BooksAreKept
  StoresCloseLast
PROPERTIES
  SignalEnds
  ReverseEnds
