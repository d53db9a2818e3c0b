SPECIFICATION Spec
CONSTANTS
  State = {s1, s2}
  Object = {o1, o2}
  Kinds = {"empty", "table", "plain", "scanned", "silent"}
  Null = Null
  MaxGen = 2
  MaxPins = 2
SYMMETRY Symmetry
CONSTRAINT PinsInOneState
INVARIANTS TypeOK CallbackOnce CountersBalance DeinitFinalizes
INVARIANTS MarkersServeStates GlobalIsReleased PinsAreCounted
