SPECIFICATION Spec
CONSTANTS
  Key = {k1, k2, k3, k4}
  Data = {d1, d2}
  Null = Null
  HashValues = {0, 7}
  SizeMin = 4
  SizeDefault = 4
  SizeMax = 15
  Capacities = {4}
  Failing = {"rehash", "key_dup"}
  OwnKeys = TRUE
SYMMETRY Symmetry
INVARIANTS TypeOK TableSound IterationComplete
INVARIANTS AnnouncedIsLive KeysOwned
PROPERTIES ImplementsKeyMap ReserveHolds
