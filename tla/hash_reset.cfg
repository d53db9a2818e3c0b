SPECIFICATION Spec
CONSTANTS
  Key = {k1, k2, k3}
  Data = {d1}
  Null = Null
  HashValues = {3, 7}
  SizeMin = 4
  SizeDefault = 4
  SizeMax = 15
  Capacities = {1, 5}
  Failing = {"reset"}
  OwnKeys = FALSE
SYMMETRY Symmetry
INVARIANTS SizeIsPopulation
