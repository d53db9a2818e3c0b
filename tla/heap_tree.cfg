SPECIFICATION Spec
CONSTANTS
  Obj = {o1, o2, o3, o4}
  Payload = {p1, p2}
  Heap = {h1, h2, h3, h4}
  Mem = {m1, m2, m3, m4}
  Root = Root
  RootMem = RootMem
  Null = Null
  DeallocLimit = 2
  Uses = {"byRef", "callback"}
  MaxEntries = 3
  MaxNested = 2
SYMMETRY Symmetry
CONSTRAINT ThreeOrDestroyedLast
INVARIANTS FaultsNeedSkippedMember LiveIsIntact SweepComplete ExitReclaimsAll CountBelowLimit
