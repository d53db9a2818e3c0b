SPECIFICATION FairSpec
CONSTANTS
  Obj = {1, 2, 3}
  Payload = {p1}
  Heap = {h1, h2, h3}
  Mem = {m1, m2}
  Root = Root
  RootMem = RootMem
  Null = Null
  DeallocLimit = 2
  Uses = {"copy", "assign", "reroot", "dealloc", "callback"}
  MaxEntries = 2
  MaxNested = 2
CONSTRAINT MadeInOrder
INVARIANTS TypeOK SeenIsOnStack IndexesMatch AllGray
PROPERTIES IteratedIsStable OnlyCallbacksSkip CollectTerminates
