SPECIFICATION Spec
CONSTANTS
  Span = 2
  NullRef = NullRef
  Refs = {r1, r2, r3}
  AddSides = {"Buy", "Sell"}
  Prices = {200, 300, 150}
  AddShares = {0, 2}
  CutShares = {1, 3}
SYMMETRY RefSymmetry
INVARIANTS TypeOK OnlyZeroLevelsFail RestingSharesExact CellsAllocated
PROPERTIES RefusedChangesNothing Implements
