SPECIFICATION Spec
CONSTANTS
  Key = {k1, k2}
  Value = {v1, v2}
  Null = Null
  Unused = Unused
  Deleted = Deleted
  HashValue <- Hashes
  Lengths = {1, 3}
  MaxLength = 4
SYMMETRY Symmetry
INVARIANTS TypeOK AssertionsHold SizeIsExact SearchesEnd SidesAgree EntriesSound
PROPERTY ImplementsWeakMap
