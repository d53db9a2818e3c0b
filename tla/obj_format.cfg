SPECIFICATION Spec
CONSTANTS
  SizeOf <- Sizes
  Lengths = {0, 7, 8}
  Copies = {c1}
  Null = Null
  Inside = Inside
  Limit = 80
INVARIANTS SkipFindsNext ScanFindsNext FitsInPlace CopiesAreFound
