SPECIFICATION Spec
CONSTANTS
  State = {s1}
  Object = {o1, o2}
  Kinds = {"plain", "scanned"}
  Null = Null
  MaxGen = 1
  MaxPins = 0
INVARIANT RootsProtect
