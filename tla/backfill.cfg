SPECIFICATION BackfillSpec
CONSTANTS
  Step = 2
  YearLen = 6
  Years = 2
  Limit = 2
  Faults = 1
INVARIANTS
  BackfillTypeOK
  SegmentsAreTrue
  BackfillIsComplete
  ReadyMeansStored
PROPERTY
  PastWindowStaysFinal
