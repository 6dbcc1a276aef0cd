SPECIFICATION Spec
SYMMETRY Symmetry
CONSTANTS
  v1 = v1
  v2 = v2
  w1 = w1
  p = p
  q = q
  Writers = {v1, v2, w1}
  Instances = {p, q}
  InstanceOf <- TwoAndOne
  Setups <- MCSetups
  Years = {y1, y2}
  Stores = {s1, s2, s3, s4, s5, s6, s7, s8}
  None = None
  Budget = 1
INVARIANTS
  AckedIsStored
  StoresAreKept
  OverlapIsUnleased
