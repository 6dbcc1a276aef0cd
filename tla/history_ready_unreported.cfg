CONSTANTS
  Requests = {"whole", "refused"}
  Servable <- MCServable
  Ragged <- MCRagged
  Workers = {w1, w2, w3}
  None = None
  Bars = 2
  Budget = 2
SPECIFICATION Spec
INVARIANTS ReadyIsReported
