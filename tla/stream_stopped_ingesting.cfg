CONSTANTS
  Streams = {s1}
  Collectors = {c1, c2, c3}
  None = None
  Listings <- MCAllListings
  HasPublisher = TRUE
  Grace = 1
  Budget = 4
SPECIFICATION Spec
INVARIANT ReportedStoppedIsStopped
