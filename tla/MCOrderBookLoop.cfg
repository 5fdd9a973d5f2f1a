SPECIFICATION Spec
CONSTANTS
  Span = 3
  NullRef = NullRef
  Refs = {r1, r2, r3, r4}
  AddSides = {"Buy", "Sell"}
  Prices = {100, 200, 300, 400, 350}
  AddShares = {1}
  CutShares = {1}
SYMMETRY RefSymmetry
CONSTRAINT OneSided
INVARIANTS BookConsistent RebaseIsItsLoop LevelsBestFirst
