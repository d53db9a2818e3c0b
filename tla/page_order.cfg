SPECIFICATION Spec
CONSTANTS
  Value = {v1, v2, v3, v4, v5}
  Null = Null
  PageSize = 2
  MaxPages = 4
SYMMETRY Symmetry
INVARIANTS TypeOK PagesConsistent PositionsResolve
