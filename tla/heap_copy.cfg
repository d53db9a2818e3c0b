SPECIFICATION Spec
CONSTANTS
  Obj = {o1, o2}
  Payload = {p1}
  Heap = {h1, h2}
  Mem = {m1}
  Root = Root
  RootMem = RootMem
  Null = Null
  DeallocLimit = 2
  Uses = {"copy"}
  MaxEntries = 2
  MaxNested = 1
SYMMETRY Symmetry
INVARIANTS NoPrematureDestroy

