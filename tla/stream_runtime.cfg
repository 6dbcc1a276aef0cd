CONSTANTS
  Streams = {s1}
  Collectors = {c1, c2}
  None = None
  Listings <- MCListings
  HasPublisher = TRUE
  Grace = 2
  Budget = 3
SPECIFICATION FairSpec
INVARIANTS AtMostOneIngesting NoOrphan StopAtMostOnce GateFollowsListing
PROPERTIES DrainedOnlyAfterGrace ImplementsLifecycle
  WantedRuns UnwantedStops StopEndsEverything
