SPECIFICATION Spec
CONSTANTS
  Span = 2
  NullRef = NullRef
  Locates = {1, 2}
  Refs = {r1, r2}
  AddSides = {"Buy"}
  Prices = {100, 250}
  AddShares = {0, 2}
  CutShares = {1, 3}
  Intervals = {0}
  MaxMessages = 6
SYMMETRY RefSymmetry
CHECK_DEADLOCK FALSE
INVARIANTS SharesConserved
