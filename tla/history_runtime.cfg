CONSTANTS
  Requests = {"ragged", "refused"}
  Servable <- MCServable
  Ragged <- MCRagged
  Workers = {w1, w2, w3}
  None = None
  Bars = 3
  Budget = 2
SPECIFICATION FairSpec
INVARIANTS WorkingIsTracked ReadyIsStored
PROPERTIES ListedIsServed StopEndsWorkers
