SPECIFICATION Spec
CONSTANTS
  Key = {k1, k2}
  Value = {v1}
  Null = Null
  Unused = Unused
  Deleted = Deleted
  HashValue <- Hashes
  Lengths = {1, 3}
  MaxLength = 4
SYMMETRY Symmetry
INVARIANT NoAssertionFails
